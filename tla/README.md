# LiDAR_Interface in TLA+

Specifications, model-checking runs and proofs for the programs that read the
LakiBeam1(L), a 270 degree laser scanner that sends MSOP packets over UDP. The
reference is the C++ code under `src/`; every definition names the lines it
models in `PROJECT.json` ("map").

Contents: [the system](#the-system), [the modules](#the-modules),
[runs](#runs-and-bounds), [proofs](#proofs), [what disagrees](#where-code-and-documentation-disagree),
[limits](#what-is-not-modelled), [plan](#plan).

## The system

A sensor sends about 12 blocks of 16 measurements in each 1206-byte datagram to
port 2368. Each block carries the azimuth of its first measurement; each
measurement a strongest and a last return, with a signal strength (RSSI). The
repository holds two generations of programs that read it.

| component | state | operations | talks to |
|---|---|---|---|
| **MSOP parser** `reader2.0/msop_parser.*` | timestamp and factory word of the latest packet; the caller's vector of points | `parsePacket`, `isLastPacket`, two getters | called by the two programs below, on their buffer |
| **Visualizer** `reader2.0/lidar_visualizer.cpp` | socket, packet count, map from half degrees to samples, vector of chosen points, two files | receive 150 datagrams, file their points, choose one per bin, write `lidar_scan.csv` and a plotting script, report | socket, parser, disk |
| **Packet reader** `reader2.0/main.cpp` | socket, packet count | receive, parse, print points and range statistics, for ever | socket, parser |
| **SLAM reader** `slam_lidar_cpp/src/lidar_reader.*`, `main.cpp` | socket | `readScan`: one datagram to one scan; called every 200 ms | socket; a mapping program that is not here |
| **SLAM parser** `slam_lidar_cpp/src/msop_parser.*` | none | parse, interpolate across 360 degrees, `isLastPacket`, validate | not called by the SLAM reader |
| **Debugging tools** `lakibeam_reader`, `lidar_plotter`, `dump_msop`, `dump_packets`, `read_packets` | socket, buffer, counters | one or more receives, print or draw | socket |
| **Port 2368** | which program is bound, with or without `SO_REUSEADDR` | bind, deliver | all programs |

Nothing runs in parallel inside a program. What makes the code hard is outside
it and in its numbers:

* *Delivery.* UDP loses, repeats and reorders; `recvfrom` has no timeout; stray
  datagrams of any length arrive; captures of 1248 bytes carry 42 bytes of
  headers.
* *Packets.* Blocks may be invalid anywhere, azimuths may be any 16-bit word,
  blocks cross 360 degrees, the sum of the interpolation wraps at 65536.
* *Selection.* Medians of even counts, a comparison that is not an order given
  to `min_element`, limits that differ between parser, collection and saving.
* *Ending.* Ctrl+C at any moment, files that cannot be opened, disks that fill
  up, scans from which the filter leaves nothing.

`PROJECT.json` lists each of these under "hazards", at its line, with the
properties that would catch it going wrong.

What should be true, by component:

* parser: every echo once; angles on the circle, in order along a sweep; points
  and metadata of the same packet; a last packet has no points from its second
  half.
* visualizer: one point per half degree, a majority outvotes outliers, weak
  bins are dropped, the file is the scan up to some angle whenever the program
  stops, the report adds up, the program ends if datagrams come.
* packet reader: a report is of one datagram, for both datagram sizes, and its
  numbers add up; what it calls reliable the visualizer keeps.
* SLAM reader: a scan is complete or refused, and not older than the socket's
  buffer explains. SLAM parser: agrees with the other parser where both are
  defined.
* tools: no use of bytes that were not received; what they show of the first
  block is what the parsers find there.
* port: a tool without `SO_REUSEADDR` hears everything; whoever is left alone is
  served.

## The modules

| module | models | role |
|---|---|---|
| `MSOPFormat` | packet layout, byte order, validity checks, interpolation, `ParsedPoints`, `isLastPacket` | pure operators, used by `MSOPParser`, `Collector` and the modules of the SLAM side |
| `MSOPParser` | the parser object and its caller's vector | component |
| `SampleFilter` | medians, outlier filter, `min_element`, the branches for one and two samples: `Kept` | pure operators |
| `AngleBin` | one bin, filled by `push_back` in every order | component, environment of `SampleFilter` |
| `ScanCollection` | what the visualizer promises, without datagrams or bins | abstract specification |
| `Collector` | the whole visualizer; composes `MSOPFormat` and `SampleFilter` | component |
| `SlamMSOPParser` | the second parser: interpolation the shorter way round, the extrapolated last block, validation, `isLastPacket` | pure operators |
| `SlamScan` | what `LiDARReader::readScan` makes of a packet | pure operators |
| `FirstBlock` | what `lakibeam_reader` and `lidar_plotter` show of a packet | pure operators |
| `Agreement` | `example_usage` of the second parser, on any datagrams; composes `MSOPFormat`, `SlamMSOPParser`, `SlamScan` and `FirstBlock` | component; the properties compare them |
| `SlamReader` | the program around `readScan`: constructor, loop, sleep, exceptions, and the socket's buffer | component |
| `ScanStream` | what `readScan` promises its caller, without sockets, sleep or errors | abstract specification |
| `PacketReader` | the whole packet reader; composes an instance of `MSOPParser` with `SampleFilter` | component |
| `Port` | port 2368, the kernel, and the receive loops of all eight programs | composition of the programs at their sockets |
| `MCParser`, `MCAngleBin`, `MCCollector`, `MCAgreement`, `MCSlamReader`, `MCPacketReader`, `MCPort` | inputs for TLC | model checking |
| `Operators_proofs` | | lemmas about finite sets, `MSOPFormat` and `SampleFilter` that the others share |
| `MSOPParser_proofs`, `AngleBin_proofs`, `Collector_proofs`, `Agreement_proofs`, `SlamReader_proofs`, `PacketReader_proofs`, `Port_proofs` | | theorems of one component each |

**Units.** Angles are hundredths of a degree and distances millimetres, the
integers of the wire. The code converts them to floats and compares those;
every comparison is stated on the integers, where it has the same result:
`azimuth * 2.0f` truncated is `azimuth \div 50`, 30% of a mean is a product of
integers. In the filter, some float comparisons could round differently when the
two sides are equal; the values of the runs stay off those points.

**Byte order.** A packet holds fields as a little-endian host loads them, so
`be16ToHost` really swaps. The 32-bit timestamp is a tuple of four bytes: the
code only copies and prints it.

**Vectors.** The vector of points is a set whose elements carry their position
(`slot`: block, measurement, strongest before last). The samples of a bin carry
the position of their arrival (`at`). `unique_points` is sorted by azimuth in
the code; as no two of its points share a bin, the set determines the order.

**`MSOPParser`.** `parsePacket(d)` is one action: the vector is cleared first,
then `Reject` or `Accept`. The variable `buffer` is the caller's receive buffer,
which properties compare the results with.

**`SampleFilter`.** `Credible` is the limit a point must pass to be filed.
`UpperMedian` is `sorted[size / 2]`. `MinElement` walks the
accepted samples in arrival order with `Better`, which is the lambda: by RSSI
when the distances to the median differ by less than 0.1 m, by distance
otherwise.

**`Collector`.** `phase` is the position in `main()`:
start, collect, save (before the file is opened), write, script (before that one
is opened), fill, stats, and the three ends: done, failed (`return -1`), killed.

| action | code |
|---|---|
| `Initialize` | socket, option, bind; failure ends `main` |
| `Receive(d)`, `ReceiveError` | one turn of the loop: count, parse, filter, file; an error is retried |
| `NothingCollected`, `SelectPoints` | the test of the map, the choice for every bin |
| `OpenCSV`, `OpenCSVFails`, `WriteRow`, `CSVGoesBad`, `CloseCSV` | `savePointsToCSV`, row by row; a stream that goes bad loses the rows that follow |
| `OpenScript`, `OpenScriptFails`, `WriteScript` | `generatePythonVisualizer`, with all of its text written or only a part |
| `PrintStatistics`, `StatisticsOfNothing` | the report; on an empty vector it is undefined behaviour: garbage or a crash |
| `Interrupt` | Ctrl+C, between any two steps |

The network is the choice of the next datagram, every time from the whole set:
any loss, repetition or order is some sequence of choices. The two files fail
independently of each other, as their names and streams are two: either may not
open, and either stream may go bad after any part of its file, so the script can
stand beside a scan that is missing, partial or of an earlier run. Rows are taken as written one after another although the stream buffers
them: a crash leaves a prefix either way (a prefix that may end in the middle of
a row is not distinguished).

**`ScanCollection`.** Measurements are heard; a scan is chosen among them with
at most one for each half degree; it is stored from the smallest angle upwards;
it may stop at any moment. `Collector` implements it with heard = the union of
the bins, scan = `unique_points`, file = the rows.

**`SlamMSOPParser` and `SlamScan`.** These programs compute with doubles: a
sixteenth of the difference of two azimuths, not rounded. Their angles are
counted in sixteenths of a hundredth of a degree, where every one of them is a
whole number (`FineTurn` of them make a turn). What doubles round is left out; at
exactly 180 or 360 degrees it could choose the other branch. A block that an
invalid one follows keeps one azimuth for its sixteen points in this parser,
where the one of `reader2.0` goes on by 0.25 degrees a point; `AnglesAgree` and
`LagBounded` say for which blocks the two can be compared. A strongest distance
of 0xFFFF is no return for the parser and a beam of 65.535 m for `readScan`.

`lidar_reader.cpp` still names fields (`BlockID`, `DataFlag`, `Azimuth`,
`Result`, `Dist_1`, `RSSI_1`) that `data_type.h` no longer declares, so it does
not compile as it stands. `SlamScan` takes them for the fields at those places of
the packet.

**`Agreement`.** `stage` is the position in `example_usage`: `Validate`, `Parse`,
`Describe` (timestamp, factory word and `isLastPacket`), then done, or refused.
`Again` is the caller, which comes with another datagram. The properties
`LakibeamAgrees` and `PlotterAgrees` compare the operators of `FirstBlock` with
`ParsedPoints` on the same datagrams.

**`FirstBlock`.** `lidar_plotter` draws what falls on its canvas of 800 by 800 pixels
of a centimetre: 4 m towards an edge, 5.66 m towards a corner. Along one ray the
coordinates of a pixel grow with the distance, so for each azimuth there is one
distance up to which echoes are drawn. That distance is the constant `Reach`, by azimuth;
`ReachAssumption` bounds it by 3999 mm, where a coordinate of 400 already belongs to
the pixel behind the edge, and by 5671 mm, 401 pixels times the square root of 2. The sine, the
cosine and the float arithmetic behind each value are left out. The values of
`MCAgreement` are those that lines 46 to 63 give for its azimuths.

**`SlamReader`.** `phase` is the position in `main`: start (`Construct`), receive,
sleep, and dead, for an exception that `main` does not catch. `buffer` is what
waits in the socket. It is the kernel's: in order, and a datagram that finds it
full is dropped. Each element carries its age. Time goes in ticks, with at most
one datagram in each; `readScan`, printing and the next call of `recvfrom` take no
time beside the sleep of `SleepTicks`. `IncompletePacket` and `RecvError` are the
two halves of the condition on line 57; a longer datagram is cut to the length of
a packet and accepted.

**`ScanStream`.** Datagrams are pending in their order, up to a capacity; the scan of
the first is published, and it is pending no longer; the stream may stop for good.
`SlamReader` implements it with pending = the datagrams of the socket and stopped =
dead. What the kernel drops is not heard; time passes in stuttering steps.

**`PacketReader`.** `phase` is start, listen, or failed (`return -1`); the loop has
no end. Each turn is one action, by the length of the datagram: `Packet`,
`Capture` (headers skipped, no range statistics), `Unexpected` (no call of the
parser, so points and getters stay what they were), `ReceiveError`. The parser is
an instance of `MSOPParser` whose step is part of the first two, and whose
specification is a property of the run. `report` is what was printed last, with
its wording left out. `packet_count` is a signed int; the model follows it past
its overflow, where the compiled increment wraps.

**`Port`.** One process for each program, by name. `status` says where it stands:
in `recv`, busy with a datagram (the sleep of the SLAM reader is part of that),
leaving (the visualizer writes its files with the socket still open), off, and
two states that only `lidar_plotter` can reach, as it looks at neither `socket`
nor `bind`: deaf, in `recv` on a socket that is not bound, and spinning, calling
`recv` without a socket.

| action | code |
|---|---|
| `Start`, `StartRefused` | socket, option, bind; `main` returns when one fails |
| `PlotterUnbound`, `PlotterWithoutSocket` | the plotter goes on |
| `Take` | a `recv` that returns, cut to the room of the buffer |
| `Continue`, `Finish`, `SaveScan`, `Leave` | the loop goes round; a one-shot dump or a SLAM reader with a short datagram ends; the visualizer's budget is spent, and it ends |
| `RecvErrorRetried`, `RecvErrorEnds` | a failed `recv` |
| `Arrive`, `Kill`, `CanBind` | the kernel and the users, outside the code |

The kernel is that of Linux: a bind succeeds when the port is free or when the
new socket and all bound ones set `SO_REUSEADDR`. To which of several bound
sockets a datagram goes is left open. `dump_msop`, `read_packets` and the SLAM
reader take the port from the command line; here it is 2368.

## Runs and bounds

| run | shows |
|---|---|
| `parser` | 13 packets on the limits of the code and refused datagrams, in every order: every echo once, sweeps in order, metadata of the same packet, last packets |
| `angle_bin` | every order of arrival of up to four samples (distances 1 to 9 m, RSSI around each limit): outliers do not win, weak bins are dropped, the distance given up for RSSI is bounded |
| `collector` | the whole program with a budget of three datagrams out of five, either file failing to open or going bad at any point, and Ctrl+C anywhere: seven invariants, the refinement and termination |
| `agreement` | 190 packets (four places to begin, five steps, nine patterns of valid blocks, strange azimuths): same echoes; same angles at the sensor's resolution, and within the rounding of the step in blocks that a valid one follows forwards by half a turn at most; `readScan` like the parser on evenly spaced packets of valid blocks; `isLastPacket` not contradicted, and points from three blocks at most behind the middle of a last packet; what `lakibeam_reader` prints is what the parser reports, and what `lidar_plotter` draws is what that one prints, up to the edge of the canvas |
| `slam_reader` | a socket of three datagrams, a sleep of two ticks, three datagrams in every order, silence and errors anywhere: scans in order, of bounded age, again and again while they arrive; the refinement of `ScanStream` |
| `packet_reader` | eight datagrams (three packets with and without headers, two strays) in every order, counted past the overflow of a small int: reports of one datagram whose numbers add up, and a parser used as specified |
| `port` | every pair of the eight programs, started, stopped and restarted in any order, four lengths, sockets of two datagrams, a visualizer's budget of two: tools alone, only the dumps that end after one datagram, when it is short, look at bytes that they did not receive, a program left alone is served |
| `parser_field_of_view`, `closest_to_median`, `empty_scan`, `files_created`, `listening` | each a counterexample to a sentence of the documentation, see below |

*Why the bounds are enough.* The parser treats measurements independently and
looks at most one block ahead, so the packets of `MCParser` vary what a block's
successor can be: later, earlier, equal, invalid, absent, past 360 degrees, near
65535. The filter has different code for one, two and three or more samples; four
is the first even count with a median, and the first in which the comparison's
missing transitivity and an outlier occur together. Three datagrams fill a bin
beyond three samples, leave another with one and one with none. The code's
budget of 150 only changes how often `Receive` is taken. The steps of
`MCAgreement` are the sensor's own (4 degrees a block), one that 16 does not
divide, a small one, a large one and a backward one, and each starts at four places
of the turn, so that the end of the turn falls into a block, between blocks and
into none. A socket of three and a sleep of two ticks let the buffer fill up and
drop, with a datagram at each place of it. The lengths of `MCPort` are on both sides of 100, a packet, and a packet
with headers, which is longer than the room of three programs; any conflict over
the port is one of two programs, and a third one would only repeat it.
`CountMax` is 7, above the five packets that have statistics and small enough to
overflow. `MaxPackets`, `MaxSamples`, `BufferSize`, `QueueSize`, `MaxRunning` and
`CountMax` are the only bounds of the specifications; the theorems do not restrict
those of their modules.

*Deadlock* is checked in every run: the ends of the visualizer have a
self-loop (`Over`), and so have a full bin (`Full`), a SLAM reader that an
exception ended (`Dead`) and a packet reader that could not bind (`Failed`).

*Fairness.* Only `Terminates`, `KeepsScanning` and `AloneIsServed` use it. `WF_vars(Step)`: a sequential program
that can take its next step takes it. `WF_vars(\E d : Receive(d))`: the sensor
keeps sending and the kernel delivers something; errors may still occur between
two datagrams any finite number of times. Without datagrams `recvfrom` blocks for
ever, and the code promises nothing. `SlamReader` assumes the same: the program
takes its next step, and datagrams arrive again and again. In `Port` every program
is fair by itself, and datagrams arrive at some bound socket: of two programs that
share the port one may starve, and no property says otherwise. Nobody is assumed
to start or stop a program.

Every property of a passing run has a mutant: an operator beside the definition
it changes, marked "Mutant" and used by nothing else, under which the run fails.

## Proofs

TLAPS proves, for every set of datagrams, every budget, bins of any size, every
socket, sleep, angle offset and mounting, and any number of the programs running
at once:

| theorem | says |
|---|---|
| `MSOPParser_proofs!TypeCorrect` | points on the circle and in range, words of their widths |
| `MSOPParser_proofs!MetadataCorrect`, `EchoesCorrect`, `LastPacketCorrect`, `SweepCorrect` | the four invariants of the run `parser` |
| `Collector_proofs!TypeCorrect`, `FilingCorrect`, `ScanCorrect`, `SavingCorrect`, `PrefixCorrect`, `OldScanCorrect`, `ReportCorrect` | the seven invariants of the run `collector` |
| `Collector_proofs!Refinement` | `Spec => KeepsPromise` |
| `SlamReader_proofs!TypeCorrect`, `AgeCorrect`, `OrderCorrect` | the three invariants of the run `slam_reader` |
| `SlamReader_proofs!StreamCorrect` | `Spec => StreamsScans` |
| `PacketReader_proofs!TypeCorrect`, `ReportCorrect`, `ReliableCorrect`, `SumsCorrect` | the four invariants of the run `packet_reader` |
| `PacketReader_proofs!UseCorrect` | `Spec => UsesParser` |
| `AngleBin_proofs!TypeCorrect`, `MajorityCorrect`, `DriftCorrect`, `StrongCorrect` | the four invariants of the run `angle_bin` |
| `Agreement_proofs!TypeCorrect`, `EchoesCorrect`, `AnglesCorrect`, `LagCorrect`, `ScanCorrect`, `LastCorrect`, `LakibeamCorrect`, `PlotterCorrect` | the eight invariants of the run `agreement` |
| `Port_proofs!ToolsCorrect`, `TypeCorrect`, `BytesCorrect` | the three invariants of the run `port` |

*Assumptions.* Datagrams are records of a length and a packet whose fields have
the widths of the structure (`DatagramsAssumption`); `MaxPackets` is a natural
number, `BufferSize` and `SleepTicks` are positive ones, `AngleOffset` is an
integer. In `Port`, lengths are natural numbers, and sockets and budgets are positive.
`CountMax` is positive. `Reach` lies between the two bounds above. A bin of `AngleBin` holds distances of 101 to 13999 mm and
RSSIs of 16 to 255, which is what `Credible` lets into a bin of the collector. Nothing is
assumed of the contents of packets.

*Parser.* The inductive invariant is `TypeOK` and `PointsOfBuffer`: the vector is
empty or is `ParsedPoints` of the buffer, with the buffer's metadata. It is
needed because the properties speak of the packet behind the points. The rest is
about one packet: `SwapRange` and `AzimuthOnCircle` (types through the byte swap
and the 16-bit sum), `SlotInjective` and `EchoesOfOneReading` (an echo has one
position), `LinearInBlock` and `SweepOfPacket` (the angles of a block are an
arithmetic progression that does not reach the next block). The last proof
showed which hypothesis a sweep in order needs: no block within 16 default steps
of the end of the turn, for the last block of a packet as for those before gaps.

*Visualizer.* `IInv` adds to the properties `BinsFinite`, `Chosen` (the scan is
empty or what the filter keeps of the map) and `Progress` (the phase tells how
far file and script are). `RowsArePrefix` needs `Chosen` and `Filed`: a written
row is strictly before the unwritten ones because they come from different bins,
and samples of different bins have different angles. `SavedIsWritten` needs
`Filed`: no row is skipped, because what was filed is within the limits of
`savePointsToCSV`; only a bad stream loses rows. Its other half, that no script of
this run exists while the rows are being written, is part of `Progress`. `ReportCorrect` uses a second invariant, `Counted`, and a
bijection between the bins that contribute and the points. `Refinement` has one
step per action: `Receive` is `Hear`, `SelectPoints` is `Choose`, `WriteRow` is
`Store`, what gives up on the file or ends is `Stop`, the rest stutters.

*SLAM reader.* That a scan is young enough when it is read does not follow from
the ages of those before it. `WaitBounded` bounds every datagram that waits by its
place: each place in front of it is one more sleep, and what is left of this
one. A tick makes it older and the rest of the sleep shorter, a read moves it one
place forward and starts a new sleep, so both keep the bound. `Schedule` says that
nothing is slept in phase receive, where the head of the buffer is then younger
than `BufferSize` sleeps. `ScanTyped` shows that a beam's angle is in the turn and
its place in the vector. `StreamCorrect` goes step by step: `readScan` is
`Publish`, an arrival that finds room is `Hear`, what ends the program is `Stop`, and
the constructor, the clock and a dropped datagram stutter. `ContentsTail` and
`ContentsAged` say that reading and ageing keep the datagrams in their order.

*Port.* `PInv` is the type of `status` with `ToolsAlone`; it is inductive because a
start needs every bound program, and the new one, to share. `TInv` adds the
visualizer's budget to `TypeOK`, as a visualizer that waits must have some of it left.
`BytesCorrect` follows from `TypeOK` by the examined length of each program.

*Packet reader.* Its two sides are the parser, an instance of `MSOPParser`, and the
printed report. The invariant is `Counters`, the parser's `TypeOK` and `LatestReport`:
a report is computed from the latest datagram alone, with statistics only where
there are points. Nothing of an earlier datagram is left in it, although the
vector, the timestamp and the factory word outlive a turn of the loop, because
`Accept` replaces all three before they are printed (`ParsesAll`, `PrintedIsReport`). `SumsCorrect`
counts: `FirstFewCount` finds the number of the examples by induction on the points
(as many as asked for, or all there are), and `RangesOfPoints` shows that minimum, mean
and maximum are of the same points. `UseCorrect` has one step per action: a turn of
the loop is a `parsePacket` or leaves the parser alone.

*One bin.* The invariant says only that the samples are finitely many and told apart by
when they arrived. The work is in two choices of the model of which it must be
shown that they choose something. `UpperMedian`: the smallest value with more than half
of the samples up to it has at most half below it, as those are the samples up
to the value before it (`MedianExists`). `MinElement`: the function
that follows the pass from sample to sample exists, as one for the samples
before the latest extends to all of them (`BestExists`). Both inductions are arguments about a
smallest counterexample (`MinimalSubset`), as the induction theorems of the library
take an operator as a parameter. Then `MajorityCorrect`: a median
cannot be on the far side of more than half of the samples, and, being the upper of
two in the middle, not below exactly half of them either; so it is between the
limits of a majority, and the outlier filter lets nothing through that is
further from the median than half of it. `DriftCorrect` bounds what one comparison gives away
(`PreferredIsNear`) and adds it up over the pass (`BestNotFar`). `StrongCorrect`: a
median RSSI above the limit puts at least half of the samples there.

*Agreement.* The invariant says that the points on each side are those of the
datagram in the buffer, and which were described. The rest is about one
packet. `FlagsAgree`, `BlocksAgree` and `ReturnsAgree` give both parsers the same blocks
and echoes, though their tests are written differently. For angles,
`StepFound` shows that the shorter way round finds the step between two
blocks, `SlamTowards` and `ParserNominal` give each parser's angle in terms of it, and `AnglesLag` takes
their difference, the remainder of a division by 16, which is a bound of `LagBounded`.
`ScanCorrect` needs that on evenly spaced blocks the step that `readScan` takes from the first two
is that of every block (`EvenStep`). `LakibeamCorrect` and `PlotterCorrect` follow one
measurement through the tool and the parser; a point the tool shows and the parser does
not is outside the parser's limits (`LeftOut`). `PlotterCorrect` holds for every `Reach` within its
bounds: an echo nearer than another one on the same ray is drawn if that one is.
In `LastCorrect` the points of the second half come from its valid blocks, six less those
counted by `isLastPacket` (`FewSources`).

Two forms in the modules are there for the provers. `DefaultScan` names
`Scan(packet, 0, FALSE)`, as the encoding of the provers takes no Boolean literal as an argument inside
a set; `MinElement` is a recursive function where a RECURSIVE operator would do, as
no proof can see through one.

*Model-checked only.* `Terminates`, `KeepsScanning` and `AloneIsServed`, which are liveness
under fairness, and the counterexamples. Every invariant, every refinement and every other action
property of a passing run is a theorem as well.

## Where code and documentation disagree

| run | code | says |
|---|---|---|
| `parser_field_of_view` | `isValidAzimuth` accepts the circle | its declaration: 45 to 315 degrees |
| `closest_to_median` | `min_element` drifts from the median, 0.1 m per sample | comment: closest to the median |
| `empty_scan` | `front()`/`back()` of an empty vector when every bin is filtered out | the check and its message "No valid points collected!" |
| `files_created` | the closing message comes also when either file could not be opened | "Files created:" |
| `listening` | the plotter's `socket` and `bind` may fail unnoticed | "Listening and plotting..." |

Seen while reading, without a run:

* `calculateAzimuth` lays falling azimuths out at rising angles; line 163 of the
  README of `reader2.0` says that changes of direction are handled.
* With three samples or more the filter's RSSI limit is on the median and a
  sample of RSSI 16 can be kept; line 149 of that README gives 20 to 25.
* `isLastPacket` of the SLAM parser takes three invalid blocks of six for the "more
  than half" of its comment. `LastPacketsAgree` bounds what follows: up to three
  blocks behind the middle of such a packet still have points.
* The packet reader prints "RSSI>20" (`main.cpp` 94) of points tested for more than
  25 (line 86). `ReliableIsKept` is false of the printed limit.
* `read_packets` wants two arguments (line 10) where its usage names one.
* Two samples need an RSSI above 20 and a single one above 25
  (`lidar_visualizer.cpp` 312 and 323), where lines 158
  and 159 of the README of `reader2.0` give 15 and 20, and its line 150 gives 25.

## What is not modelled

* The trigonometry and the window of `lidar_plotter`, apart from how far its canvas
  reaches; the wording
  of all dumps; usage errors on the command line.
* The two test programs: they print what modelled operations return.
* `printPacketInfo` of the SLAM parser and `test_full_scan`: they print what
  modelled operations return. The destructor that closes the SLAM reader's socket:
  `main` never reaches it.
* The progress line (round numbers), the wording of messages, the text of the
  plotting script, float formatting of rows: no property is about them.
* `points.reserve`, memory exhaustion, and datagrams longer than 2048 bytes, which
  are cut to a length that the programs treat like any other odd one.
* Build files and the log `test.txt`.

## Plan

All programs of the repository are modelled, and all safety properties of the passing
runs are proved. What would add most:

1. An abstract specification of one bin (a sample is chosen among those heard, near
   the median) that `AngleBin` implements, and that `Collector` uses for its bins.
2. The promise of `Collector` for one bin as a theorem about its scan: `MajorityCorrect` and
   `StrongCorrect` for every bin of `angle_map`.
3. The safety halves of the liveness properties: a measure that every step of the
   visualizer lowers, bounded below by zero.
