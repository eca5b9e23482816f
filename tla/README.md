# GO2_Hesai: TLA+ models, model checking and proofs

The repository runs LiDAR-inertial odometry on a Unitree Go2: a Hesai XT16 driver turns UDP
packets into point clouds, a bridge republishes the robot's IMU, and Super-LIO fuses both into
odometry and a voxel map. These modules model the parts of that chain where order, threads and
time decide whether the result is right. Paths below are relative to `src/src/`; `SDK` stands for
`HesaiLidar_ROS_2.0/src/driver/HesaiLidar_SDK_2.0`, `LIO` for `Super-LIO/src/super_lio`.

## 1. Inventory

| Part | State | Operations | Talks to |
|---|---|---|---|
| Packet sources (`SDK/libhesai/Source`) | a socket, or an array with two positions and a ring of packets; a file and a position | `Receive`; `ReceivedThread` of the TCP and serial sources | receive threads |
| Pcap recorder (`pcap_saver.cc`) | `packets_cache_`, `write_buffer_`, `dumping_`; `is_record_pcap_` of `Lidar` | `StartRecordPcap`, `StopRecordPcap`, `Dump`, a thread that writes | receive threads, by a ring |
| Receive threads and packet ring (`lidar.h`, `blocking_ring.cc`) | `origin_packets_buffer_` | `ReceiveUdpThread`, its fault message twin; `emplace_back`, `try_pop_front` | `Run()`, `Lidar::Init` |
| Process thread (`hesai_lidar_sdk.hpp`, `Run`) | `frame_`, `packet_index`, `is_thread_runing_` | decode, close, publish, reset or discard a frame | parser threads by `decoded_packets_buffer_` and the shared counter; callbacks |
| Parser threads (`lidar.h`) | decoded queue, one buffer per handle thread | `ParserThread` routes, `HandleThread` converts | `frame_`, counter `compute_packet_num` |
| UDP parsers (`UdpParser`), one for each of eleven lidar models | last azimuths or frame number, sequence numbers, the layout of the frame | `DecodePacket`, `ComputeXYZI`, frame split, loss count, remake | `Run()`, handle threads |
| Life cycle (`hesai_lidar_sdk.hpp`, `Lidar`, the ROS node) | `is_thread_runing_`, `running_`, `init_running`, `init_finish_` | `Init`, `Start`, `Stop`, `~Lidar`, `InitThread` | all threads, by plain flags |
| PTC client (`ptc_client.cc`, `tcp_client.cc`) | socket, its timeouts, `m_bLidarConnected` | `TryOpen` in a thread, `QueryCommand`, upgrades, destructor | `InitThread`, `InitSetPtc`, tools; the lidar by TCP |
| Serial client (`serial_client.cc`, `serial_source.cc`) | ports, `cmdAckRecvBuf` | `QuerySerialCommand`, `UpgradeLidar`; `ReceivedThread` | `InitThread`, tools; the lidar by a line |
| ROS driver (`HesaiLidar_ROS_2.0/src/manager`, `node`) | driver list | `Init`, `Start`, `Stop`, publish | SDK callbacks, ROS topics |
| IMU bridge (`go2_imu_bridge`) | `last_pub_time_` | `LowStateCallback` | DDS in, ROS topic out |
| Sensor buffers (`LIO/src/ros/ROSWrapper.cpp`) | `imu_buffer_`, `lidar_buffer_`, marks of the newest stamps | `imuHandler`, `stdMsgHandler`, `sync_measure` | Super-LIO |
| Estimation loop (`LIO/src/lio`) | `state_fn_`, the filter's times, `propagate_states_` | `kf_init`, `map_init`, `stateProcess`; forward `Predict` | map, ROS output |
| Voxel map (`LIO/include/OctVoxMap`) | `data_` (by last use), `grids_`, the tables of the search | `insert`, `getTopK` | `map_init`, `UpdateMap`, `Observe` |
| Relocalisation (`super_lio_reloc.cpp`) | a loaded map, an initial pose, collected scans | its own `kf_init` and `map_init`, delayed map update | as the estimation loop; poses from a topic |
| Map files (`super_lio.cpp`) | `point_map_`, numbered fragments | `caceData`, `saveMap`, `ProcessCaceMap` | the disk, earlier runs |
| `shell/start_slam.sh` | none | launches the nodes one after the other | ROS |

What makes them hard, and what has to be true:

* **Point cloud pipeline.** `Run()` and the handle threads share one frame. The only thing that
  keeps a callback from reading points that are being written is a *poll on a counter*: the frame
  is published when as many conversions have ended as indices were queued. Each index must reach
  exactly one conversion, every conversion must be counted once and in its own frame, and the poll
  must end. A frame that fills up without a split takes another path (`ClearPacketBuffer`, a
  100 us sleep, `Update`, counter zeroed) with no wait at all.
* **Life cycle.** Eight flags and joins with no timeout. A start or stop must come to an end, and
  no thread may outlive the `Lidar` object.
* **Sensor buffers.** `sync_measure` keeps a copied scan over calls, and both clocks may jump
  back (bag restart, clock correction). A scan must get exactly its IMU samples, whatever the
  order in which callbacks and `process()` interleave.
* **Estimation loop.** Consecutive scans share the IMU sample that straddles the boundary; the
  filter must not integrate a moment twice or backwards, and the published time must not go back.
* **Voxel map.** Hash and list must agree, or the search follows an iterator to freed memory;
  eviction must throw out what was used longest ago. The search stops early by tables of 593 numbers
  and five limits: one wrong entry and it returns points that are not the nearest.
* **UDP parsers.** Eleven parsers store packets, count losses and split scans in eleven slightly
  different ways. `Run()` keeps a second count of the packets stored; both must agree, also when a
  packet is refused, decoded twice, in another layout or without points.
* **Packet sources and recorder.** TCP and the serial line deliver bytes, in pieces of any size;
  the sources cut packets out of an array whose rest moves to the front. A capture may be cut or hold
  what is no packet. A recording must not lose packets, and must not stop the reception.
* **Commands.** Answers come late, in pieces or not at all; an answer does not name its request.
  Timeouts are changed and must be put back, a failed upgrade must not look like a complete one.
* **Relocalisation and map files.** A new pose may come while scans are collected for the old
  one; fragments of an earlier run may lie in the directory that this run's map is merged from.

`PROJECT.json` lists every component, and under "hazards" each place in the code where one of
these can go wrong, with the property that would show it or the reason why none does yet.

## 2. Modules

| Module | What it is | Code |
|---|---|---|
| `FramePipeline` | process thread, ParserThread, N handle threads, frame, counter | `hesai_lidar_sdk.hpp` 220-404, `lidar.h` 440-464, 690-697, 849-907, `udp6_1_parser.h`, `general_parser.h` 512-519 |
| `FrameBarrier` | what the pipeline promises, without threads or queues | abstract |
| `SdkLifecycle` | main, InitThread, Run, receive, parser and handle threads from Start to the end of `~Lidar` | `hesai_lidar_sdk.hpp` 98-216, `lidar.h` 89-133, 157-359, 636-688, 754-907, node `main` |
| `PacketRing` | the ring between threads, with mutex, condition variable and timeout | `blocking_ring.cc`, `ring.cc` |
| `PacketFifo` | what the ring promises: a bounded queue | abstract |
| `SocketSource`, `TcpSource`, `SerialSource`, `PcapSource` | the four sources of packets; `Received` is what they return | `*_source.cc` |
| `Reception` | `ReceiveUdpThread` over one of the four (INSTANCE) | `lidar.h` 172-229, 754-809 |
| `PcapSaver` | the recorder: two receive threads, its own thread, its user | `pcap_saver.cc`, `lidar.h` 404-422 |
| `ReceivePath` | ring, reception and recorder (EXTENDS and INSTANCE) | `lidar.h` |
| `AzimuthSplit` | the decision that a packet opens a new scan, as operators | `general_parser.h` 456-510, `lidar_types.h` 220-224 |
| `FrameSplit` | that decision on a turning lidar, packet after packet | `udp6_1_parser.h` 198-246 |
| `UdpDecode` | `DecodePacket` and `ComputeXYZI` of the eleven parsers, with `Run()`'s counting | `udp*_parser.h`, `general_parser.h`, `udp_parser.h`, `lidar_types.h` |
| `PtcLink` | the command connection over TCP and its users | `ptc_client.cc`, `tcp_client.cc`, `lidar.h` |
| `SerialLink` | commands and upgrades over the serial line | `serial_client.cc`, `serial_source.cc`, `serial_parser.h` |
| `LidarCommands` | the two: a lidar has the one or the other (EXTENDS and INSTANCE) | `lidar.h` |
| `SensorSync` | scan and IMU buffers, `sync_measure` | `ROSWrapper.cpp` 254-454 |
| `MapSaver` | point cloud map in memory, fragments and the merged map on disk | `super_lio.cpp` 211-347 |
| `LioEstimator` | `SuperLIO::process`, the filter's times and relocalisation, composed with `SensorSync` and `MapSaver` (EXTENDS, shared steps) | `super_lio.cpp`, `ESKF.cpp`, `super_lio_reloc.cpp` |
| `OctVoxMap` | list, hash and octant counters under `insert` | `OctVoxMap.hpp` |
| `VoxelSearch` | `getTopK`, its heap and its tables | `OctVoxMap.hpp`, `HKNN_list60_gem.h` |
| `VoxelMap` | insertion and search | `super_lio.cpp` 193-208 |
| `MC...` | the instances that TLC runs | |
| `FramePipelineProofs`, `ReceivePathProofs`, `OctVoxMapProofs`, `SdkLifecycleProofs`, `FrameSplitProofs`, `LioEstimatorProofs`, `LidarCommandsProofs`, `UdpDecodeProofs` | the theorems about the module each is named after, with the modules it is composed of (section 4) | |

A definition has the name of the function or the member it models where that is possible; "map"
in `PROJECT.json` gives the lines of each. Operators marked *mutant* are plausible bugs, used by
no specification: each checked property fails when the definition below the mutant is replaced
by it, which shows that the property depends on the code.

### FramePipeline

Each state of `pc` is a place in the body of `Run()`, and each action is the code up to the next
point where another thread's step could matter:

    recv --DecodeStore--> recv | clearQueue --> clearHandles --> discard --> zeroLate --> recv
    recv --DecodeSplit--> wait --> zero --> publish --> update --> redecode --> recv
    recv --ExitLoop--> done

* `raw` and `pts` hold for each slot of the frame whether its bytes, and its points, come from
  the current frame ("new") or from an earlier one ("old"). That one bit is what the properties
  tell apart. Coordinates, rates, recording and formatting are left out.
* A conversion takes two steps: `Begin` reads the slot (`job`), `ComputeEnd` writes the points
  and advances the counter. If the slot changed in between, either content may result: this is
  the data race of the overflow path, as a choice.
* `PacketKinds` says what packets do: `store`, `split`, `splitTimeout`, `splitBadSize`. The
  decision that a packet splits the scan (azimuth comparison) is an input. Packets the decoder
  rejects change nothing that is modelled.
* `lateWork` and, in other modules, the variables marked as history are read by no guard.
* `inline` says whether ParserThread converts by itself. With one thread it does; with more it
  does so until the handle threads exist, so both ways are initial states.
* Not there: the CUDA path, recording callbacks, `MultiSend`, and the undefined behaviour of
  clearing a `std::list` that another thread may be popping (`lidar.h` 694). The buffers are
  cleared in one step.

`GoodInput` is the input for which the design works: each scan is split before the frame is full
(`SplitsInTime`), all packets of a scan have one length, and a frame fits in a handle buffer
(`MaxPackets <= HandleCap`; the code has 2000 and 8000).

### SdkLifecycle

One program counter per thread and the flags they share. One handle thread stands for all, as
each waits on its own condition and they are joined one after the other. Two constants name what
has to be assumed about scheduling, and may be turned off:

* `StopAfterRunning`: `Stop()` does not come before `Run()` has set its flag (`LifecycleLostStop`
  turns it off and shows what then happens).
* `PromptBlock`: a handle thread that has tested its condition blocks before the destructor
  notifies. `~Lidar` notifies without holding the mutex (`lidar.h` 113-115), so without this
  assumption the notification may be lost and the join wait for ever.

### PacketRing

What a thread does while it holds the mutex is one step. A thread is `idle`, wants the mutex
(`lock`) or waits on the condition variable (`wait`), from which a notification, a spurious wake-up
or, for the consumer, the 100 ms of `try_pop_front` bring it back; a consumer whose time is up
notifies another thread as well, as the code does. `Contents` maps the array to the queue of
`PacketFifo`. `eff_clear` is called by `Run()` on the ring of decoded packets only, where `Run()`
is the one producer, hence its guard. `SdkLifecycle` and `FramePipeline` keep a number or a
sequence in place of a ring, which is what `FifoSpec` justifies.

### Reception, the sources and ReceivePath

A packet is a sequence of pieces `<<p, i>>`, so that a packet that was cut shows what it was made
of. `Setups` says which source there is and what comes through it.

* `SocketSource`: datagrams are lost before or in the socket; `is_select_` decides whether a read
  in vain waits. `select` may end with a datagram, a timeout or an error.
* `TcpSource`: `Reads(n)` is `recv` of any number of pieces. The code writes them at `dataIndex`, not
  behind what has come, so a read that ended inside a packet leaves a rest that the next one
  overwrites. `arrived` is history: the packets of the reads that begin with a packet.
* `SerialSource`: the line loses pieces. The first piece of a packet stands for what identifies it.
  `PutForced` drops the oldest packet of a full ring before the new one is known to be whole.
* `PcapSource`: a capture is a sequence of blocks, headers and data, and may be cut in either
  (`Received.Blocks` describes a record, `Reception.CaptureFile` the file). What
  is read as a header without being one announces anything. `HandsOnRest` copies from the front of
  the array, as the code does.
* `Reception`: the receive thread asks, waits for room, and puts one silence into the ring
  until points come again. The ring is a sequence of which `popped` packets are taken.
* `PcapSaver`: `Dump` in the steps in which two threads may disturb each other. `owed` is
  history: what was dumped between the return of `StartRecordPcap` and the next call.

`ReceivePath` looks at one of the parts at a time (`part`): they meet in rings only, and for
these Reception and PcapSaver use the queue that `FifoSpec` justifies.

### FrameSplit

Start angle and direction of rotation are variables that `Init` chooses. From one packet to the
next the lidar stands still or advances by at most `MaxStep`, less than half a turn, which covers
lost packets; at half a turn the direction cannot be told and the property fails. `SettledAfter`
packets must have moved the fields on before `SplitsAtStart` speaks: the constructor sets both
azimuths to 0, the test for -1 in line 463 is always true, and so the second packet votes with an
azimuth that no packet had. The limits in `UpdateRotation` are the real ones. `SecondDecodeStores`
is the fact on which `Redecode` of `FramePipeline` rests.

### UdpDecode

The parsers are written as what they are, one program with stages that some leave out or do in
their own way. A stage maps the frame to the frame after it and may return; `DecodePacket` of a
parser is the sequence of its stages. Conversion happens at once here, since `FramePipeline` has
the threads. Kept are: which packets are refused (preamble, checksum, size, echo filter), where a
frame is split (azimuth, jump of a mirror field, timeout, frame number, column), the loss counter,
the layout of the frame, offset and number of valid points of each slot, filters by channel and by
field of view, the grid of the remake mode, compaction by `Run()`, and the two counts of packets.
A point is the scan, column, block and channel it comes from. `conf` chooses parser and settings.
`Update` clears no points: the grid is cleared only after a frame was delivered (`ClearPoints`), so that
what a frame given up has put there stays for the next one; the history `left` has those places.

### PtcLink, SerialLink and LidarCommands

`PtcLink` has the thread of `TryOpen` and up to two threads that query behind `_mutex`. The lidar
answers late, with an error or not at all, and may close the connection. A header is three tokens,
so that a stream can be cut inside it. `SerialLink` has one client; its acknowledgements carry a
kind and a code, no name. Both keep who asked what as history only. `LidarCommands` runs either.

### SensorSync and LioEstimator

A scan is its first and last stamp, an IMU sample its stamp. Callbacks and `process()` run in one
thread (`spinOnce` in a 500 Hz loop), so each is one action, in any order. IMU stamps grow
strictly: the bridge publishes at most one sample per period (`go2_imu_bridge.cpp` 38-46). The
environment may leave out any sample, and may jump back `MaxLoopBacks` times, with either clock.
`StateProcess` folds the filter's `Predict` over the group: the result is the list of integrated
intervals (`steps`) and the list of times of the states that undistortion interpolates between.
Poses and covariances have no part in the control of this code and are left out.

`node` chooses the class. `RelocKfInit` is `SuperLIOReLoc::kf_init`: `RelocateAgain` for a call that
sees a new pose, `CollectMore`, and the alignment, which may always fail and succeeds with a loaded
map only. `collected` is history: for each scan collected, how many poses had come before.

### MapSaver

A cloud is the sequence of its scans. `CaceData` writes a numbered fragment when enough scans have
come; the first call empties the directory. `Ends` leaves the main loop and runs `saveMap`, with or
without fragments. Init lets fragments of an earlier run, an empty directory or none lie there. The
order in which the directory is read is that of the numbers here; it is unspecified in the code
and decides only the order of the points.

### OctVoxMap, VoxelSearch and VoxelMap

`data` is the list, `grids` the key set of the hash, `counts` the counters of the octants. One
point of `insert`'s loop is one action. Whether a point lies near an octant's mean is a choice.

`VoxelSearch` holds the code's tables as they are. A map is a function from cells (octants, by their
offset from the query's) to squared distances, each at least the gap between the cells; distances
are in halves of a squared octant, so that there are some between any two limits. One turn of the
loop over the groups is one action, and `TryInsert` with `Worst` is the heap. `TablesFit` says what
the search needs of the tables: no cell twice, and what a group leaves out is no nearer than its
limit. It is a fact about numbers with no parameter, and TLC evaluates it for all eight octants of
a query whenever it runs a module that extends this one. `VoxelMap` lets
insertion and search run apart, as one thread does one after the other.

## 3. Runs

| Run | Question | Instance | States |
|---|---|---|---|
| `pipeline_handlers` | fresh, complete, undisturbed frames; implements `FrameBarrier`; the inductive invariant of the proofs, types included | 3 handle threads or ParserThread alone, 5 packets per frame, good input | 7295 |
| `pipeline_overflow` | what remains true when a frame overflows | 2 handle threads or ParserThread alone, 3 packets, handle buffer 7 | 530122 |
| `pipeline_overflow_race` | finding 1 | same | |
| `lio_sync` | right groups, bracketed undistortion, no scan stuck, poses heeded, the map is this run's; clocks go forward | 6 stamps, scans up to 2 ticks, relocalisation with 2 scans and 1 pose, save interval 2 or off | 785892 |
| `lio_loopback` | the filter's times when clocks jump back | 6 stamps, 2 jumps, at most 2 scans and 4 samples waiting, no saving | 2.0 million |
| `lifecycle` | start returns, shutdown ends, no use after free | ring of 2, both receive threads | 3721 |
| `lifecycle_lost_stop` | finding 2 | one receive thread | |
| `packet_ring` | the ring is a bounded queue; no wake-up is lost for good; sources hand on what was sent; recordings are complete | 2 producers, 1 consumer, capacity 3, 2 packets; lidars that send 3 to 5 packets over each source, 4 captures in 2 formats, repeated or not; 2 receivers of 2 packets and 3 calls for the recorder | 306822 |
| `frame_split` | one split a turn, at the start angle | 7 azimuths, steps to 3, each start angle, both directions | 388000 |
| `udp_decode` | frames are the packets that came for them, and scans; counters are right | each of the eleven parsers with filters, 11 more configurations of them; scans of 7 packets, frames of at most 8, 2 lost | 324213 |
| `commands` | answers belong to their queries, upgrades are complete, timeouts are put back, calls return | 4 programs over TCP with one request unanswered, 2 lists of queries and 2 upgrades of 2 packages over the line | 341324 |
| `voxel_map` | the map keeps what was used last; hash and list agree; the search finds the nearest | 4 keys, capacity 3, 7 points, symmetry; 10 cells around a query, two of its octants | 255124 |

Why the bounds are enough. Three handle threads wrap the round-robin with a frame of five, and
let a buffer hold two indices while another conversion is under way; two or more frames follow
each other, so anything left behind by a frame would be seen in the next. With an overflow, two
threads and three slots let work of a discarded frame land in the next frame and the one after.
A ring of two is the smallest on which two receivers see the same last place. Six ticks give three
scans with gaps, samples on and between scan ends, and groups of up to four; two jumps give each
clock one, or one of them two. Four keys for a capacity of three overflow the map and bring back
a key that was thrown out. A capacity of three lets the ring's first index and its size wrap at
different times, and two producers let a notification go to the wrong kind of thread (capacities 1 and 2 pass as well). Seven
azimuths with steps to three are the smallest circle on which a step, a lost packet and half a turn
differ. The bounds on waiting scans bind and rest on `process()` being called at 500 Hz
while scans come at 10 Hz. Three fused scans and an interval of two make a full fragment, a rest in
memory and a second number, over two old fragments.
Five TCP packets fill the array, so that its rest moves to the front, and two pieces let a read end
inside a packet. Six pieces of the serial array hold two packets, and three may be lost, of one or
of different packets. The captures hold each kind of record before and after each other kind that matters, and
the array of their segments is used up twice. Two packets of each receiver overflow the recorder's
ring and buffer of two; three calls are a recording, its end and another, or two starts.
Scans of seven packets are the shortest on which direction, start angle and two lost packets can
be told apart, and a frame of eight overflows when a split is lost. Two packages have a first
and a last one, and one unanswered request leaves one late answer. The cells of `voxel_map`
are of every group and one beyond (the other cells of the table are in the module and in no
run); mirrored octants 0 and 5 flip two
axes and keep one. `Capacity` 3, `InitImu`, `MapFrames`
and `MaxForward` are scaled-down
thresholds: the code only compares with them.

What the properties say:

* `FrameFresh`, `QuietWhileDelivering`: the frame given to the callbacks has points of its own
  packets only, and no thread holds or will take up an index while it is read.
* `FrameDelivered`, `StopReturns`: a closed frame is delivered, and a stop ends `Run()`, although
  the poll looks at no flag.
* `PipelineInv`: types, and who owns which index of the frame (section 4).
* `NothingDropped`: no handle buffer drops an index, which would leave the poll without end.
* `StaleOnlyByLateWork`: on the overflow path, a stale frame needs work of a discarded frame that
  outlived the 100 us sleep. `DecodedQueueBounded`: the queue's blocking push, made while a mutex
  is held, never waits.
* `GroupMatchesScan`: a group has no sample of another scan's time, and no sample received in the
  scan's time is missing. `EveryScanLeaves`: no scan stays in the buffer.
* `UndistortBracketed`: the search over the states never falls back on extrapolation or steps
  past a list of one.
* `MomentsIntegratedOnce` (with `IntervalsForward`), `OdomTimeMonotone`: no moment is integrated twice or
  backwards and the published time does not go back, with clocks that jump too.
* `CopyIsFront`: the copy kept over calls is the scan that the later pop removes.
* `ForwardAheadOfFused`: the forward predictor is never behind the fused state. That `Update` sets it
  back to the end of the scan, although later samples were used (`ESKF.cpp` 132), satisfies this too.
* `GuessHeeded`: relocalisation aligns only scans that were processed after the last pose received,
  whenever it came and however often the alignment failed before.
* `MapIsThisRun`: the map on disk at the end has each fused scan once and nothing of an earlier
  run. Its two excuses are ways of the code: a run that fuses nothing merges old fragments, and an
  interval of 0 writes fragments that are never merged (-1 is the documented value for none).
* `FrameIsItsPackets`: a published frame is made of the visible points of exactly the packets that
  came for it, and of nothing that earlier frames left. There is one way out of this in the code, which
  the property names: with remake, the points of a frame that was given up for want of a split are
  still in the grid where no packet of the next frame puts one, and are published with it
  (`hesai_lidar_sdk.hpp` 391-398). `FramesAreScans`: frames are scans. `LossCounted`: the loss counter is the number of
  packets missing, with numbers that wrap. `IndexCountsStored`: `Run()` counts what was
  stored; it loses count in two ways, which the property names: a split packet that its second decode
  refuses (`hesai_lidar_sdk.hpp` 372), and a layout that begins the buffer anew (`udp7_3_parser.h` 117).
* `AnswersAreOwn`: a query returns the answer to its own request. Over TCP there is one excuse: a
  request with the same command was given up. From then on every later request with that
  command may get the answer before its own, as a late answer shifts all that follow; but an answer
  to another command is never returned. Over the line the excuse is a failed query of that kind.
  `UpgradesComplete`: an upgrade that reports success has every package in the lidar; the property
  names where the code falls short (late answers to another upgrade with the command, a refusal with
  code zero, the code that equals a timeout). Over the line there is one more: an announcement, of the
  boot loader's version or of readiness, that the upgrade went on without comes late, has the code zero
  and ends the loop like a refusal with zero (`serial_client.cc` 410-413); the rest goes as the last
  package, to which the first one's answer may be taken, and the upgrade reports success with packages
  unwritten. The property allows this for an announcement that was missed, and for no other, and has the
  packages before in the lidar even then. `TimeoutsRestored`: the socket has the configured timeouts when nobody
  queries, but for the two leaks in hazard `ptc_client.cc` 209. `CallsReturn`: queries and the
  destructor return.
* `SearchFindsNearest`: when the search stops, the heap has the five nearest points of those
  within three octants (0.75 m), each once; no group left out has a nearer one.
* `NothingUsesFreedLidar`, `ShutdownCompletes`, `StartReturns`: see above. `ShutdownCompletes`
  names its one exception: two receive threads that race for the last place in a full ring. The run
  also assumes `PromptBlock`. So neither of these two hangs would be found; `hazards` says so.
* `FifoSpec`: the ring is a bounded queue, whatever the threads do. `WaitersWake`: a thread does
  not stay waiting while the ring has what it waits for, although `notify_one` may pick another.
* `SourceKept`: what is put into the ring is what was sent. `DatagramsKept`: datagrams that reached
  the socket keep their order and none is lost. `WholeReadsKept`: a TCP packet read whole by a read
  that begins with a packet comes out once, as sent. `DamageBounded`: lost bytes damage
  their own packet and the next at most. `ReplayIsCapture`: a capture gives its packets in order, and again when
  repeated. `TimeoutsApart`: between two silences there are points. Its excuses are ways of the
  code: other TCP reads (`tcp_source.cc` 223), the packets of a captured segment after its first
  (`pcap_source.cc` 1041), a pcap file cut in a record (885), a full ring of the serial source.
* `RecordingComplete`: a file that is closed has each packet dumped while the recording was on, in
  order, unless a ring was made twice (`pcap_saver.cc` 137).
* `ReceptionGoesOn`: a receiver that waits for the recorder gets on, unless the file
  could not be opened (`lidar.h` 407).
* `SplitsAtStart`: after the first packets, a scan is split exactly when the sweep passes the
  start angle. `SecondDecodeStores`: the packet that split a scan does not split it again.
* `GridMatchesList`, `RecentVoxelsKept`: hash and list know the same voxels, and these are the
  `Capacity - 1` used last; no octant has too many points.

`CHECK_DEADLOCK FALSE` is set in all runs but `udp_decode`, since the systems may really stop: the
process thread after a stop, the driver after its exit, the sensors when no message comes, a client
when its work is done, a search when it has found.

### Fairness

* Pipeline: `Run()` is scheduled where it can go on without input, and so are ParserThread and
  each handle thread (OS threads, weak fairness each). `RunFair` excludes waiting for a packet.
  Nobody has to send a packet or to call `Stop()`.
* Ring: a producer that wants the mutex gets it, and the consumer calls again and again and its
  timeout expires (weak fairness). Nobody has to push, and nobody is woken without a reason.
* Recorder: its thread and the receivers inside `Dump` run on, and the calls of the user return once
  `close()` can. Nobody has to call, and no packet has to come. The sources need no fairness.
* Sensors: the node's 500 Hz loop calls `process()` (weak fairness), and the IMU bridge keeps
  publishing. No scan has to come.
* Commands: the client's threads run, timeouts end the waits they belong to, and the destructor comes.
  The lidar need neither accept a connection nor answer.
* Life cycle: each thread is scheduled. Strong fairness on the first outcome of `ProbePacket`
  says that the lidar sends, so that a valid packet comes in the end; without a lidar and with
  `recv_point_cloud_timeout: -1` the driver waits in `Start()` for ever by configuration. No
  timeout need expire, and no signal need come.

### Findings

1. `pipeline_overflow_race`: after an overflow, a conversion of the discarded frame may end after
   the counter was zeroed and be counted in the next frame; the poll then succeeds while packets
   of that frame are not parsed, against the comment at `lidar.h` 456.
2. `lifecycle_lost_stop`: `Run()` raises `is_thread_runing_` when it is first scheduled. A stop
   before that is lost, and `Stop()` joins a thread that does not end.

## 4. Proofs

Eight modules hold theorems, each for every value of the constants. What they assume is the named
assumption of the modules they extend (`PipelineAssumption`, `RingAssumption`, `SyncAssumption` and so on:
sizes are positive numbers, a step is less than half a turn, a TCP array has room for a packet and
its reserve), which TLC evaluates in every run, and the hypotheses that stand in the tables. Each
proof has the same shape: an inductive invariant, one lemma per action or per part of the
invariant, and a theorem that follows. One idea per module is worth telling.

### FramePipelineProofs

| Theorem | Hypothesis | Conclusion for `Spec` |
|---|---|---|
| `PipelineInvariant` | `GoodInput` | `[]PipelineInv` |
| `PublishedFramesAreFresh` | `GoodInput` | `[]FrameFresh` |
| `QuietDelivery` | `GoodInput` | `[]QuietWhileDelivering` |
| `NoIndexDropped` | `GoodInput` | `NothingDropped` |
| `ImplementsBarrier` | `GoodInput` | `BarrierSpec` |
| `TypeCorrect` | none | `[]TypeOK` |
| `QueueIsBounded` | none | `[]DecodedQueueBounded` |
| `StaleNeedsLateWork` | `RightSizes` | `[]StaleOnlyByLateWork` |

`FrameFresh` is not inductive: the poll looks at a number only. That the number reached means that
*all* slots are converted needs that each count belongs to another slot of this frame, hence that
no index is owned twice. `PipelineInv` says this, beside the types, in five parts:

* `RunInv`: where `Run()` is, and that indices and stored packets agree;
* `QueueInv`: the decoded queue and the index ParserThread holds are the last indices, in order;
* `BufferInv`: handle buffers hold earlier indices, growing within a buffer, disjoint between
  buffers, none of them converted;
* `JobInv`: conversions hold indices that are not converted and in no buffer, all different;
* `CountInv`: the counter is the number of converted slots.

From the growing indices in a buffer follows that it never reaches its limit, so that none is
dropped. When the counter equals `pktIndex`, cardinality makes the converted slots all of
`0..pktIndex-1`; then every queue must be empty, since what it holds is not converted. The
refinement maps `pc` to a phase, `pktIndex` to the size and the converted slots to a set; only
`DecodeStore`, `Redecode` (accept), `ComputeEnd` (convert), `DecodeSplit` (close), `ZeroCount`
(deliver), `UpdateFrame` (new frame) and `ExitLoop` (finish) are visible steps of the barrier.

With overflow all of that fails, and the other three theorems need other invariants. `WorkInv`
counts: the work in flight is what the counter still lacks, plus at most `NThreads + 1` indices
that a discarded frame left in the hands of ParserThread and in conversions. It needs no
hypothesis, and bounds the queue. `OverflowInv` says that while every discarded frame had drained,
the pipeline is either in a frame that obeys the five parts, or on its way through a reset that
ends in a blank frame. `RightSizes` is the rest of `GoodInput`: packets have one length and a frame
fits in a handle buffer; scans need not be split in time.

### ReceivePathProofs

| Theorem | Statement |
|---|---|
| `TypeCorrect` | `Spec => []TypeOK` |
| `RingImplementsFifo` | `Spec => FifoSpec` |
| `RecordingsAreComplete` | `PathSpec => []RecordingComplete` |
| `SourcesKeep` | `PathSpec => []SourceKept` |
| `SilencesApart` | `PathSpec => []TimeoutsApart`, a part of `SourceKept` |

All for every capacity, any number of producers and receivers, and any sources. The refinement rests on what `%` does to an index of less than two turns: `Contents` with one more
packet behind is `Append`, with the first taken off `Tail`, whatever the ring's first index is.

`SaverInv` has three parts. `SaverTypes`. `OrderInv`: file, buffer and ring are consecutive parts of
one sequence, in which the packets of each receiver ascend, so that none is written twice.
`KeepInv`: what is owed is in the file, or in buffer or ring while the writer still runs. That the
writer ends only with both empty is what then makes a closed file complete.

`SourceInv` is `CommonInv`, and for each source what relates the packets handed on (put into the ring,
held by the receive thread, or waiting in the extraction queue: `Handed`) to what was sent:

* `SocketInv`: what was handed on and what waits in the socket are exactly the datagrams that
  arrived, in order.
* `TcpInv`: every whole packet that arrived is handed on or still lies in the array, aligned, between
  the index and the length; while packets are extracted, what is there begins with newer pieces than
  all that was handed on, and less than a packet is behind them.
* `SerialLineInv`: the pieces on the line and in the buffer are what was sent without what was lost, in
  order and newer than what was handed on; an undamaged packet is handed on, dropped by a full ring, or
  has its first piece there.
* `PcapInv`: while the capture is one that is read as it was written, what was handed on is the
  capture repeated from its start, and the position in the file is the end of a record.

It rests on `SetupAssumption`, which says which kinds of packets a source carries and that a capture is
cut only at its end. Sequences that recursive functions of the community modules build
(`FlattenSeq`) are followed through their equations; where induction is needed it is over a set of
numbers with a least element (`LeastElement`), since no theorem with an operator parameter can be used.

### OctVoxMapProofs

| Theorem | Statement |
|---|---|
| `HashMatchesList` | `Spec => []GridMatchesList` |
| `LastUsedStay` | `Spec => []RecentVoxelsKept` |
| `SearchIsNearest` | `MapSpec => []SearchFindsNearest` |

`MapInv` orders the list by last use: behind the voxel at place i lie only voxels whose last use is
earlier, and a key that is not in the map was used before all that are. A key outside has then at
least `Capacity - 1` other keys used after it, by counting. `ToFront` removes by index
(`RemoveAt`), as `std::list::splice` does by iterator.

`SearchInv` is about the search: between two groups the heap holds, of the cells seen so far, as
many of the nearest as it has room for, and knows the worst of them. `InsertFree` and `InsertFull`
are the two halves of `try_insert`, `GroupVisited` is the induction over a group's cells, in
whatever order they come. `LeftOutIsFar` then uses `TablesFit`: when the fifth distance is below
the limit of the group, every cell not seen is at least that far. The theorem is for every map whose
points lie in their octants (`SearchAssumption`), while TLC has ten cells around a query. The
table itself has no parameter: that it fits is evaluated, not proved, and with that split the
theorem shows the loop and its early end right for any table that fits.

### SdkLifecycleProofs

| Theorem | Statement |
|---|---|
| `NoThreadOutlivesLidar` | `Spec => []NothingUsesFreedLidar` |

`LifeInv` is `TypeOK` and `JoinInv`: behind each join of the main thread, the thread that was joined
has ended, and stays so. It holds with `PromptBlock` and `StopAfterRunning` off, too: without them
a shutdown may hang, and never frees too early.

### FrameSplitProofs

| Theorem | Statement |
|---|---|
| `SplitAtStartAngle` | `Spec => SplitsAtStart` |
| `SplitOnce` | `Spec => SecondDecodeStores` |

For a circle of any size and steps below half a turn. `SplitInv`: once the fields have moved on,
the smaller of the last two advances is a real one, so each further vote goes the way the lidar
turns, and the vote that the constructor's zeros caused has been made up for; what the code
computes with `division`, sign and `% CIRCLE` is then the sweep of the model.

### LioEstimatorProofs

| Theorem | Hypothesis | Conclusion for `Spec` |
|---|---|---|
| `TypeCorrect` | none | `[]TypeOK` |
| `CopyStaysFront` | none | `[]CopyIsFront` |
| `EachMomentOnce` | none | `MomentsIntegratedOnce` |
| `OdomNeverBack` | none | `OdomTimeMonotone` |
| `PoseIsHeeded` | none | `[]GuessHeeded` |
| `MapHasThisRun` | none | `[]MapIsThisRun` |
| `GroupIsComplete` | `MaxLoopBacks = 0` | `GroupMatchesScan` |
| `ForwardNeverBehind` | `MaxLoopBacks = 0` | `[]ForwardAheadOfFused` |
| `PointsBracketed` | `MaxLoopBacks = 0` | `UndistortBracketed` |

The six theorems without hypothesis hold for any number of jumps of either clock. The other three
are false with jumps, by the code, which clears a buffer whose clock has jumped: TLC finds a
counterexample to each within the bounds of `lio_loopback` when jumps are allowed.

* `SyncInv`: samples wait in the order of their stamps, also after a jump (the handler clears the
  buffer), and a copy that is kept is the front of the scan buffer.
* `NoJumpInv`: samples and scans that wait are not older than the scan used last, and every sample
  received since is still there.
* `EstInv`: the filter is never ahead of the scan fused last, and the intervals in `steps` are
  ordered and end with it.
* `ForwardInv`: the forward predictor starts with the initialisation, and not before it.
* `MapInv`: from the first cached scan on, the fragments in the order of their numbers, and then the
  cloud in memory, are exactly the fused scans.

`StateProcess` integrates a list of samples of any length. What it does to all of them is proved by
induction in the form of sets (`LeastElement`: a set of naturals that has an element has a least
one), which needs no operator as a parameter; for this, `Integrate` is a recursive function.

### LidarCommandsProofs

| Theorem | Statement |
|---|---|
| `TimeoutsComeBack` | `CommandSpec => []TimeoutsRestored` |
| `AnswersBelong` | `CommandSpec => []AnswersAreOwn` |
| `UpgradesAreComplete` | `CommandSpec => []UpgradesComplete` |

For every set of programs that `ProgramAssumption` admits: requests with one command ask for the
same, and a thread with a long operation has the connection to itself, as in the SDK's tools.
`CommandsInv` has five parts.

* `LinkInv`: types, and that only the holder of the mutex is between its lock and its return.
* `TimeoutInv`: what a flush has saved is still the last timeout when it is put back, and that
  is the configured one but for a long operation.
* `AnswerInv`: the pipe, as the requests at the lidar, the answers on the wire and the cut one that is
  being read, is well formed, its answers have the order of their requests, and the answer to a
  request that was not given up is behind all that could be taken for it. Proving it showed that
  a query may get a late answer to a request that was *not* given up, when one before it was:
  hence the excuse in `AnswersAreOwn`.
* `SerialInv`: of the requests of a kind that has not failed, at most one is on the line, and it is
  the one the client waits for; the packages before the current one are written.
* `AnnounceInv`: an announcement is the last thing in the line from its request until its own step
  takes it (`ComesLast`), and then it is gone for good (`Gone`). A step that goes on without it puts it among
  `skipped`; what a package step takes without accepting is therefore a refusal or one of these.

### UdpDecodeProofs

| Theorem | Statement |
|---|---|
| `IndexCountsStoredHolds` | `Spec => []IndexCountsStored` |
| `LossCountedHolds` | `Spec => []LossCounted` |
| `FrameIsItsPacketsHolds` | `Spec => []FrameIsItsPackets` |

For each of the eleven parsers with any settings, any length of a scan and of a frame, any layouts
and any modulus of the numbers. What is assumed of the constants, and why the code justifies it:

* `ConfigurationAssumption`: a parser with one layout reads none from the header, and FT V3 has two;
* `BoundAssumption`: a frame has room for two packets, and for the grid when there is one, which
  `setRemakeDefaultConfig` sees to; and fewer packets are missing than the numbers have values, since
  a whole turn of them cannot be told from none.

A packet passes up to nine stages. `DecodingExists` and `StageIs` open the loop over them;
`PointsOutcome` and `DecodeOthers` sum up what any of the eleven sequences can do to a packet of points,
and to anything else: idle, refuse for the layout, drop after counting, add, or end the scan. All three
invariants are proved from these outcomes (`NextDoes`) and never look at a stage again.

* `BaseInv`: types, the layout of the frame, and that the packet which has split moved the fields on
  (`Settled`), so that its second decode does not split again.
* `IndexInv` adds `IndexCountsStored`, which is inductive with it.
* `LossInv` adds that the number of the next packet is the last one counted plus those missing, modulo
  the number of values: `GapIsDiff` says that `Diff` gives back the gap, across the wrap too.
* `FrameInv` adds `BufferInv` (slots of one size, or none) and `Filled`: slot i has the points of the i-th
  packet at its offset, or, with remake, each place of the grid has the last point that fell on it, and
  without one is empty or among those that a frame given up has `left`.

From `Filled` to the frame that is delivered is `CompactList`: when packet i is moved down, the points of
the packets behind it still lie untouched, because what was kept before is never longer than the
room it had. That is the fact that makes the overlapping copies harmless.

### Only model-checked

* Liveness, which is out of the prover's reach: `FrameDelivered`, `StopReturns`, `EveryScanLeaves`,
  `ShutdownCompletes`, `StartReturns`, `WaitersWake`, `ReceptionGoesOn`, `CallsReturn`.
* `FramesAreScans`: that a scan never fails to split rests on fewer losses than a scan has packets, for
  every parser's own way to tell scans apart, and on the tolerances of the AT128, which the
  model has for scans of the length that TLC runs. `SplitAtStartAngle` and `SplitOnce` prove the part of
  it that is shared by the turning parsers, and `Settled` in `BaseInv` the second decode of all.
* That `GoodInput` is needed: the run `pipeline_overflow_race` has the counterexample.


## 5. Not modelled

Point geometry and the contents of corrections; CUDA; publishing and replay in the ROS driver;
down-sampling, plane fitting and the filter's algebra; the headers of file formats and of networks, system calls and the start script.
The reason for each is with the component in `PROJECT.json`: floating point, system calls, no effect
on control. Left out of the modules that exist:

* `UdpDecode`: the time loss counter (`CalPktTimeLoss`), functional safety, fault messages, the values of
  IMU packets, the field check of the AT128, a missing correction of the FT, the play rate of a file, and
  `clear_every_frame`, which nothing sets.
* `PtcLink`: what commands contain, the TLS client, the tunnel for the JT16's serial commands. The
  connection is made once: nothing clears `m_bLidarConnected` when the peer closes, so the code
  does not reconnect either.
* `SerialLink`: the sizes of answers (`GetPblVersionIdInPbl` and `GetFPGARegister` read fields without
  a test of the length).
* `TcpSource`: that a peer which closes (`recv` returns 0) is not noticed, so the connection is not made
  again. `PcapSource`: opening, the headers of Ethernet, IP, UDP and TCP. Of all sources, `Send`.
* `PcapSaver`: `TcpDump` and `Save` of a list of packets. `StartRecordPcap` returns -1 always
  (`lidar.h` 405); nobody looks at it.
* `LioEstimator`: the delayed map update of relocalisation (`UpdateMap`), a parameter of the map
  without effect on the filter's times. `VoxelSearch`: `getTopK_VN`, which has no caller.
* `SdkLifecycle`: `SetThreadNum` on running threads; `PtcLink` has the connection thread.

The logger and `MultiSend` have no module. A large part of the
code's lines cannot be mapped at all: the vendored hash map (`tsl`), readers of file
headers, parsers of command contents, tables of angles and pure geometry have no state that order,
time or threads could spoil.

## 6. Plan

Done: the pipeline with its abstract specification and proofs, life cycle, packet ring, frame
split, the eleven parsers, sources, reception and recorder, commands, sensor buffers with the estimation loop, relocalisation and
map files, voxel map with its search. A run is one question of one component; what comes next joins
these runs or takes the place of a shallower property.

Left, proofs: `FramesAreScans` from a bound on the losses within one scan.

Left, models: the logger's queue, `MultiSend`, and
`SetThreadNum` on running threads.
