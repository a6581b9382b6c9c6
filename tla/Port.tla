-------------------------------- MODULE Port --------------------------------
(***************************************************************************)
(* UDP port 2368 and all programs of the repository that receive on it.    *)
(* Each runs at most once; users start programs and stop them with Ctrl+C. *)
(*                                                                         *)
(* What differs between the programs is here: whether they set             *)
(* SO_REUSEADDR, whether they look at the results of their calls, how many *)
(* bytes they have room for and how many they look at, and when they end.  *)
(* What they make of a packet is in the other modules.                     *)
(*                                                                         *)
(* The kernel refuses a bind unless it and every bound program set the     *)
(* option, gives each datagram to one bound socket (which one is open),    *)
(* cuts it to the room of the call and drops it when the socket is full.   *)
(***************************************************************************)
EXTENDS MSOPFormat, Sequences, FiniteSets

CONSTANTS
  Sizes,        \* lengths of the datagrams that arrive
  QueueSize,    \* datagrams that a socket holds
  MaxPackets,   \* the visualizer's budget, 150 in the code
  MaxRunning    \* programs that users run at the same time

ASSUME SizesAssumption      == Sizes \subseteq Nat
ASSUME QueueSizeAssumption  == QueueSize \in Nat \ {0}
ASSUME MaxPacketsAssumption == MaxPackets \in Nat \ {0}
ASSUME MaxRunningAssumption == MaxRunning \in Nat

Programs == {"reader", "visualizer", "slam", "read_packets",
             "lakibeam", "plotter", "dump_packets", "dump_msop"}

\* Mutant: copied into one of the tools.
SharesPortToo(p) == p \in {"reader", "visualizer", "slam", "read_packets", "lakibeam"}

\* SO_REUSEADDR is set before bind.
SharesPort(p) == p \in {"reader", "visualizer", "slam", "read_packets"}

\* A failed recv is tried again; the others end.
Retries(p) == p \in {"reader", "visualizer", "lakibeam", "plotter", "dump_packets"}

OneShot == {"dump_msop", "read_packets"}

Room(p) ==
  CASE p \in {"reader", "visualizer", "lakibeam", "plotter"} -> 2048
    [] p = "dump_packets"                                    -> PacketSize + HeaderSize
    [] p \in {"slam", "dump_msop", "read_packets"}           -> PacketSize

Lesser(a, b) == IF a < b THEN a ELSE b

\* Mutant: a datagram is long enough with the header of a block.
FromHeaderOn(n) == IF n < 4 THEN 0 ELSE 100

\* The tools that interpret the first block want 100 bytes: 4 and 16 * 6.
FirstBlockBytes(n) == IF n < 100 THEN 0 ELSE 100

MSOPLengths == {PacketSize, PacketSize + HeaderSize}

ReaderBytes(n)     == IF n \in MSOPLengths THEN n ELSE Lesser(16, n)
VisualizerBytes(n) == IF n \in MSOPLengths THEN n ELSE 0
SlamBytes(n)       == IF n = PacketSize THEN n ELSE 0
HexDumpBytes(n)    == Lesser(64, n)

\* Four results of each of the twelve blocks, and four of the first.
MSOPDumpBytes == 11 * 100 + 4 + 3 * 6 + 3
RawDumpBytes  == 4 + 3 * 6 + 3

\* How far into its buffer a program looks after receiving n bytes.
Examined(p, n) ==
  CASE p = "reader"                 -> ReaderBytes(n)
    [] p = "visualizer"             -> VisualizerBytes(n)
    [] p = "slam"                   -> SlamBytes(n)
    [] p \in {"lakibeam", "plotter"} -> FirstBlockBytes(n)
    [] p = "dump_packets"           -> HexDumpBytes(n)
    [] p = "dump_msop"              -> MSOPDumpBytes
    [] p = "read_packets"           -> RawDumpBytes

VARIABLES
  status,        \* of each program, see Statuses
  queue,         \* the datagrams that wait in its socket
  len,           \* the bytes it received last, while it looks at them
  packet_count   \* of the visualizer

vars == <<status, queue, len, packet_count>>

BoundStatuses == {"waiting",      \* in recv
                  "busy",         \* looking at a datagram, or asleep after it
                  "leaving"}      \* the visualizer, writing its files

Statuses == BoundStatuses \cup {"off",
                                "deaf",        \* in recv on a socket that is not bound
                                "spinning"}    \* recv without a socket, over and over

Bound == {p \in Programs : status[p] \in BoundStatuses}

Running == {p \in Programs : status[p] # "off"}

-----------------------------------------------------------------------------

Init ==
  /\ status = [p \in Programs |-> "off"]
  /\ queue = [p \in Programs |-> << >>]
  /\ len = [p \in Programs |-> 0]
  /\ packet_count = 0

CanBind(p) == \A q \in Bound : SharesPort(p) /\ SharesPort(q)

Launched(p) == status[p] = "off" /\ Cardinality(Running) < MaxRunning

Become(p, s) == status' = [status EXCEPT ![p] = s] /\ UNCHANGED <<queue, len, packet_count>>

Start(p) == Launched(p) /\ CanBind(p) /\ Become(p, "waiting")

\* socket or bind fails, and main returns.
StartRefused(p) == Launched(p) /\ p # "plotter" /\ UNCHANGED vars

\* lidar_plotter looks at neither result.
PlotterUnbound == Launched("plotter") /\ ~CanBind("plotter") /\ Become("plotter", "deaf")

PlotterWithoutSocket == Launched("plotter") /\ Become("plotter", "spinning")

\* The process is gone, and with it the socket and what waited there.
End(p) ==
  /\ status' = [status EXCEPT ![p] = "off"]
  /\ queue' = [queue EXCEPT ![p] = << >>]
  /\ len' = [len EXCEPT ![p] = 0]
  /\ packet_count' = IF p = "visualizer" THEN 0 ELSE packet_count

Kill(p) == status[p] # "off" /\ End(p)

Arrive(p, size) ==
  /\ p \in Bound
  /\ queue' = IF Len(queue[p]) < QueueSize THEN [queue EXCEPT ![p] = Append(@, size)] ELSE queue
  /\ UNCHANGED <<status, len, packet_count>>

Take(p) ==
  /\ status[p] = "waiting"
  /\ queue[p] # << >>
  /\ status' = [status EXCEPT ![p] = "busy"]
  /\ queue' = [queue EXCEPT ![p] = Tail(@)]
  /\ len' = [len EXCEPT ![p] = Lesser(Head(queue[p]), Room(p))]
  /\ packet_count' = IF p = "visualizer" THEN packet_count + 1 ELSE packet_count

RecvErrorRetried(p) == Retries(p) /\ status[p] \in {"waiting", "spinning"} /\ UNCHANGED vars

RecvErrorEnds(p) == ~Retries(p) /\ status[p] = "waiting" /\ End(p)

\* After one datagram, or one that is not of a packet's length.
EndsNow(p) == p \in OneShot \/ (p = "slam" /\ len[p] # PacketSize)

\* Mutant: the budget is compared before it is counted.
OnePacketMore(p) == p = "visualizer" /\ packet_count > MaxPackets

BudgetSpent(p) == p = "visualizer" /\ packet_count = MaxPackets

Proceed(p, s) ==
  /\ status' = [status EXCEPT ![p] = s]
  /\ len' = [len EXCEPT ![p] = 0]
  /\ UNCHANGED <<queue, packet_count>>

\* Mutant: a datagram that is too short is looked at again.
ContinueSame(p) ==
  /\ status[p] = "busy"
  /\ ~EndsNow(p) /\ ~BudgetSpent(p)
  /\ p \in {"lakibeam", "plotter"} => len[p] >= 100
  /\ Proceed(p, "waiting")

\* The datagram is looked at, and the loop goes round.
Continue(p) ==
  /\ status[p] = "busy"
  /\ ~EndsNow(p) /\ ~BudgetSpent(p)
  /\ Proceed(p, "waiting")

Finish(p) == status[p] = "busy" /\ EndsNow(p) /\ End(p)

\* The visualizer has received its last; the socket stays bound to the end.
SaveScan(p) == status[p] = "busy" /\ BudgetSpent(p) /\ Proceed(p, "leaving")

Leave(p) == status[p] = "leaving" /\ End(p)

Work(p) == Take(p) \/ Continue(p) \/ Finish(p) \/ SaveScan(p) \/ Leave(p)

User(p) == Start(p) \/ StartRefused(p) \/ Kill(p)

Delivery == \E p \in Programs, size \in Sizes : Arrive(p, size)

Next ==
  \/ \E p \in Programs : Work(p) \/ User(p) \/ RecvErrorRetried(p) \/ RecvErrorEnds(p)
  \/ PlotterUnbound
  \/ PlotterWithoutSocket
  \/ Delivery

Spec == Init /\ [][Next]_vars

\* A running program takes its steps, and datagrams come; nobody has to start
\* or stop anything.
Fairness == WF_vars(Delivery) /\ \A p \in Programs : WF_vars(Work(p))

FairSpec == Spec /\ Fairness

-----------------------------------------------------------------------------

(***************************************************************************)
(* A program that is not bound has nothing waiting, a restarted one begins *)
(* with an empty socket, and the visualizer stays within its budget.       *)
(***************************************************************************)
TypeOK ==
  /\ status \in [Programs -> Statuses]
  /\ queue \in [Programs -> Seq(Sizes)]
  /\ len \in [Programs -> Nat]
  /\ packet_count \in 0 .. MaxPackets
  /\ \A p \in Programs :
       /\ Len(queue[p]) <= QueueSize
       /\ p \notin Bound => queue[p] = << >>
       /\ status[p] # "busy" => len[p] = 0
       /\ len[p] <= Room(p)

(***************************************************************************)
(* A tool that does not set SO_REUSEADDR has the port to itself, whatever  *)
(* is started before it and after it: no datagram is missing from a dump   *)
(* because another program got it.                                         *)
(***************************************************************************)
ToolsAlone ==
  \A p \in {"lakibeam", "plotter", "dump_packets", "dump_msop"} : p \in Bound => Bound = {p}

(***************************************************************************)
(* No program looks at bytes that it has not received, whatever the length *)
(* of the datagram and of its buffer.  The two one-shot dumps print their  *)
(* structure whatever arrived: they need a whole packet for it.            *)
(***************************************************************************)
ReceivedBytesOnly ==
  \A p \in Programs :
    (/\ status[p] = "busy"
     /\ p \in OneShot => len[p] >= PacketSize)
      => Examined(p, len[p]) <= len[p]

(***************************************************************************)
(* A program that has the port to itself from some time on receives again  *)
(* and again, and is back in recv again and again, whatever lengths arrive *)
(* and however it shared the port before.  (Two that share it have no such *)
(* promise: the kernel may give everything to one.)                        *)
(***************************************************************************)
AloneIsServed ==
  \A p \in Programs :
    <>[](Bound = {p}) => []<>(status[p] = "busy") /\ []<>(status[p] = "waiting")

-----------------------------------------------------------------------------
(* What a program says and does not do.                                    *)

(***************************************************************************)
(* "Listening and plotting...", lidar_plotter.cpp line 28: the plotter     *)
(* that prints it is bound to the port.                                    *)
(***************************************************************************)
ListeningIsBound == status["plotter"] # "off" => "plotter" \in Bound

=============================================================================
