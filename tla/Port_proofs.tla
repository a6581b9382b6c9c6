---------------------------- MODULE Port_proofs -----------------------------
(***************************************************************************)
(* Who holds the port, for every set of lengths, every socket, every       *)
(* budget and any number of programs at a time.                            *)
(***************************************************************************)
EXTENDS Port, TLAPS

\* The programs' states alone: all that binding depends on.
StatusOK == status \in [Programs -> Statuses]

Tools == {"lakibeam", "plotter", "dump_packets", "dump_msop"}

PInv == StatusOK /\ ToolsAlone

\* A tool does not share the port, so nobody is bound when it binds.
LEMMA ToolsDoNotShare == \A p \in Tools : p \in Programs /\ ~SharesPort(p)
  BY DEF Tools, Programs, SharesPort

\* Nobody is bound when nothing runs.
LEMMA InitAlone == Init => PInv
<1> SUFFICES ASSUME Init PROVE PInv
  OBVIOUS
<1>1. StatusOK
  BY DEF Init, StatusOK, Statuses
<1>2. Bound = {}
  BY DEF Init, Bound, BoundStatuses
<1> QED BY <1>1, <1>2 DEF PInv, ToolsAlone

\* A step that binds no program keeps the tools alone: the bound programs
\* afterwards are among those before.
LEMMA FewerBound ==
  ASSUME PInv, StatusOK', Bound' \subseteq Bound
  PROVE  PInv'
<1>1. ASSUME NEW p \in Tools, p \in Bound'
      PROVE  Bound' = {p}
  <2>1. Bound = {p}
    BY <1>1 DEF PInv, ToolsAlone, Tools
  <2> QED BY <1>1, <2>1
<1> QED BY <1>1 DEF PInv, ToolsAlone, Tools

\* The status of one program changes to s.
LEMMA OneChanges ==
  ASSUME PInv, NEW p \in Programs, NEW s \in Statuses,
         status' = [status EXCEPT ![p] = s],
         s \in BoundStatuses => p \in Bound
  PROVE  PInv'
<1>1. StatusOK'
  BY DEF PInv, StatusOK
<1>2. Bound' \subseteq Bound
  BY DEF PInv, StatusOK, Bound
<1> QED BY <1>1, <1>2, FewerBound

\* A program that starts: if anyone is bound, it and they share the port.
LEMMA StartAlone ==
  ASSUME PInv, NEW p \in Programs, Start(p)
  PROVE  PInv'
<1>1. StatusOK' /\ Bound' = Bound \cup {p} /\ CanBind(p)
  BY DEF PInv, StatusOK, Start, Become, Statuses, BoundStatuses, Bound
<1>2. ASSUME NEW t \in Tools, t \in Bound'
      PROVE  Bound' = {t}
  <2>1. ASSUME NEW q \in Bound
        PROVE  FALSE
    <3>1. SharesPort(p) /\ SharesPort(q)
      BY <1>1, <2>1 DEF CanBind
    <3>2. t # p /\ t \in Bound
      BY <1>1, <1>2, <3>1, ToolsDoNotShare
    <3>3. Bound = {t}
      BY <1>2, <3>2 DEF PInv, ToolsAlone, Tools
    <3>4. SharesPort(t)
      BY <2>1, <3>1, <3>3
    <3> QED BY <3>4, ToolsDoNotShare
  <2>2. Bound = {}
    BY <2>1
  <2> QED BY <1>1, <1>2, <2>2
<1> QED BY <1>1, <1>2 DEF PInv, ToolsAlone, Tools

LEMMA StepAlone == PInv /\ [Next]_vars => PInv'
<1> SUFFICES ASSUME PInv, [Next]_vars
             PROVE  PInv'
  OBVIOUS
<1>a. ASSUME UNCHANGED status
      PROVE  PInv'
  BY <1>a DEF PInv, StatusOK, ToolsAlone, Bound
<1>b. ASSUME NEW p \in Programs, End(p)
      PROVE  PInv'
  <2>1. status' = [status EXCEPT ![p] = "off"]
    BY <1>b DEF End
  <2> QED BY <2>1, OneChanges DEF Statuses, BoundStatuses
<1>1. CASE UNCHANGED vars
  BY <1>1, <1>a DEF vars
<1>2. ASSUME NEW p \in Programs, Work(p)
      PROVE  PInv'
  <2>1. CASE Take(p)
    <3>1. status' = [status EXCEPT ![p] = "busy"] /\ p \in Bound
      BY <2>1 DEF Take, Bound, BoundStatuses
    <3> QED BY <3>1, OneChanges DEF Statuses, BoundStatuses
  <2>2. CASE Continue(p)
    <3>1. status' = [status EXCEPT ![p] = "waiting"] /\ p \in Bound
      BY <2>2 DEF Continue, Proceed, Bound, BoundStatuses
    <3> QED BY <3>1, OneChanges DEF Statuses, BoundStatuses
  <2>3. CASE SaveScan(p)
    <3>1. status' = [status EXCEPT ![p] = "leaving"] /\ p \in Bound
      BY <2>3 DEF SaveScan, Proceed, Bound, BoundStatuses
    <3> QED BY <3>1, OneChanges DEF Statuses, BoundStatuses
  <2>4. CASE Finish(p) \/ Leave(p)
    BY <2>4, <1>b DEF Finish, Leave
  <2> QED BY <1>2, <2>1, <2>2, <2>3, <2>4 DEF Work
<1>3. ASSUME NEW p \in Programs, User(p)
      PROVE  PInv'
  <2>1. CASE Start(p)
    BY <2>1, StartAlone
  <2>2. CASE StartRefused(p)
    BY <2>2, <1>a DEF StartRefused, vars
  <2>3. CASE Kill(p)
    BY <2>3, <1>b DEF Kill
  <2> QED BY <1>3, <2>1, <2>2, <2>3 DEF User
<1>4. ASSUME NEW p \in Programs, RecvErrorRetried(p) \/ RecvErrorEnds(p)
      PROVE  PInv'
  BY <1>4, <1>a, <1>b DEF RecvErrorRetried, RecvErrorEnds, vars
<1>5. CASE PlotterUnbound \/ PlotterWithoutSocket
  <2>1. PICK s \in {"deaf", "spinning"} : status' = [status EXCEPT !["plotter"] = s]
    BY <1>5 DEF PlotterUnbound, PlotterWithoutSocket, Become
  <2>2. "plotter" \in Programs /\ s \in Statuses /\ s \notin BoundStatuses
    BY DEF Programs, Statuses, BoundStatuses
  <2> QED BY <2>1, <2>2, OneChanges
<1>6. CASE Delivery
  BY <1>6, <1>a DEF Delivery, Arrive
<1> QED BY <1>1, <1>2, <1>3, <1>4, <1>5, <1>6 DEF Next

(***************************************************************************)
(* A tool without SO_REUSEADDR has port 2368 to itself while it is bound,  *)
(* whatever is started, killed and restarted, and whoever fails.           *)
(***************************************************************************)
THEOREM ToolsCorrect == Spec => []ToolsAlone
<1>1. PInv => ToolsAlone
  BY DEF PInv
<1> QED BY <1>1, InitAlone, StepAlone, PTL DEF Spec

-----------------------------------------------------------------------------
(* Types, and the visualizer's budget.                                     *)

\* What the visualizer has received so far fits its state.
Budget ==
  /\ status["visualizer"] = "waiting" => packet_count < MaxPackets
  /\ status["visualizer"] = "off" => packet_count = 0

TInv == TypeOK /\ Budget

\* The room of each program is a length.
LEMMA RoomNat == \A p \in Programs : Room(p) \in Nat
  BY DEF Programs, Room, PacketSize, HeaderSize

LEMMA InitTyped == Init => TInv
<1> SUFFICES ASSUME Init PROVE TInv
  OBVIOUS
<1>1. \A p \in Programs : status[p] = "off" /\ queue[p] = << >> /\ len[p] = 0
  BY DEF Init
<1>2. status \in [Programs -> Statuses] /\ len \in [Programs -> Nat]
  BY DEF Init, Statuses
<1>3. queue \in [Programs -> Seq(Sizes)]
  BY DEF Init
<1>4. \A p \in Programs : Len(queue[p]) <= QueueSize /\ len[p] <= Room(p)
  BY <1>1, RoomNat, QueueSizeAssumption
<1>5. packet_count = 0 /\ status["visualizer"] = "off"
  BY <1>1 DEF Init, Programs
<1> QED BY <1>1, <1>2, <1>3, <1>4, <1>5, MaxPacketsAssumption DEF TInv, TypeOK, Budget

\* The end of a program leaves nothing behind.
LEMMA EndTyped ==
  ASSUME TInv, NEW p \in Programs, End(p)
  PROVE  TInv'
<1>1. /\ status' \in [Programs -> Statuses] /\ queue' \in [Programs -> Seq(Sizes)]
      /\ len' \in [Programs -> Nat] /\ packet_count' \in 0 .. MaxPackets
  BY MaxPacketsAssumption DEF TInv, TypeOK, End, Statuses
<1>2. ASSUME NEW q \in Programs
      PROVE  /\ Len(queue'[q]) <= QueueSize
             /\ q \notin Bound' => queue'[q] = << >>
             /\ status'[q] # "busy" => len'[q] = 0
             /\ len'[q] <= Room(q)
  <2>1. CASE q = p
    <3>1. status'[q] = "off" /\ queue'[q] = << >> /\ len'[q] = 0
      BY <2>1 DEF TInv, TypeOK, End
    <3> QED BY <3>1, RoomNat, QueueSizeAssumption
  <2>2. CASE q # p
    <3>1. status'[q] = status[q] /\ queue'[q] = queue[q] /\ len'[q] = len[q]
      BY <2>2 DEF TInv, TypeOK, End
    <3> QED BY <3>1 DEF TInv, TypeOK, Bound
  <2> QED BY <2>1, <2>2
<1>3. Budget'
  BY MaxPacketsAssumption DEF TInv, TypeOK, Budget, End, Programs
<1> QED BY <1>1, <1>2, <1>3 DEF TInv, TypeOK

\* A program without a datagram in hand changes its state and keeps its socket.
LEMMA ChangeTyped ==
  ASSUME TInv, NEW p \in Programs, NEW s \in Statuses \ {"busy"},
         status' = [status EXCEPT ![p] = s], len' = [len EXCEPT ![p] = 0],
         UNCHANGED <<queue, packet_count>>,
         s \in BoundStatuses \/ queue[p] = << >>,
         s = "off" => FALSE,
         (p = "visualizer" /\ s = "waiting") => packet_count < MaxPackets
  PROVE  TInv'
<1>1. /\ status' \in [Programs -> Statuses] /\ queue' \in [Programs -> Seq(Sizes)]
      /\ len' \in [Programs -> Nat] /\ packet_count' \in 0 .. MaxPackets
  BY DEF TInv, TypeOK
<1>2. ASSUME NEW q \in Programs
      PROVE  /\ Len(queue'[q]) <= QueueSize
             /\ q \notin Bound' => queue'[q] = << >>
             /\ status'[q] # "busy" => len'[q] = 0
             /\ len'[q] <= Room(q)
  <2>1. CASE q = p
    <3>1. status'[q] = s /\ queue'[q] = queue[q] /\ len'[q] = 0
      BY <2>1 DEF TInv, TypeOK
    <3> QED BY <2>1, <3>1, RoomNat DEF TInv, TypeOK, Bound
  <2>2. CASE q # p
    <3>1. status'[q] = status[q] /\ queue'[q] = queue[q] /\ len'[q] = len[q]
      BY <2>2 DEF TInv, TypeOK
    <3> QED BY <3>1 DEF TInv, TypeOK, Bound
  <2> QED BY <2>1, <2>2
<1>3. Budget'
  BY DEF TInv, TypeOK, Budget, Programs
<1> QED BY <1>1, <1>2, <1>3 DEF TInv, TypeOK

\* A datagram in hand is no longer than the room for it.
LEMMA TakeTyped ==
  ASSUME TInv, NEW p \in Programs, Take(p)
  PROVE  TInv'
<1>1. /\ Head(queue[p]) \in Sizes /\ Tail(queue[p]) \in Seq(Sizes)
      /\ Len(Tail(queue[p])) <= QueueSize
  BY QueueSizeAssumption DEF TInv, TypeOK, Take
<1>2. PICK n \in Nat : n = Lesser(Head(queue[p]), Room(p)) /\ n <= Room(p)
  <2>1. PICK a \in Nat : a = Head(queue[p])
    BY <1>1, SizesAssumption
  <2>2. PICK b \in Nat : b = Room(p)
    BY RoomNat
  <2>3. Lesser(a, b) \in Nat /\ Lesser(a, b) <= b
    BY DEF Lesser
  <2> QED BY <2>1, <2>2, <2>3
<1>3. p = "visualizer" => packet_count + 1 \in 0 .. MaxPackets
  BY MaxPacketsAssumption DEF TInv, TypeOK, Budget, Take
<1>4. /\ status' \in [Programs -> Statuses] /\ queue' \in [Programs -> Seq(Sizes)]
      /\ len' \in [Programs -> Nat] /\ packet_count' \in 0 .. MaxPackets
  BY <1>1, <1>2, <1>3 DEF TInv, TypeOK, Take, Statuses, BoundStatuses
<1>5. ASSUME NEW q \in Programs
      PROVE  /\ Len(queue'[q]) <= QueueSize
             /\ q \notin Bound' => queue'[q] = << >>
             /\ status'[q] # "busy" => len'[q] = 0
             /\ len'[q] <= Room(q)
  <2>1. CASE q = p
    <3>1. status'[q] = "busy" /\ queue'[q] = Tail(queue[p]) /\ len'[q] = n
      BY <2>1, <1>2 DEF TInv, TypeOK, Take
    <3> QED BY <2>1, <3>1, <1>1, <1>2 DEF Bound, BoundStatuses
  <2>2. CASE q # p
    <3>1. status'[q] = status[q] /\ queue'[q] = queue[q] /\ len'[q] = len[q]
      BY <2>2 DEF TInv, TypeOK, Take
    <3> QED BY <3>1 DEF TInv, TypeOK, Bound
  <2> QED BY <2>1, <2>2
<1>6. Budget'
  BY DEF TInv, TypeOK, Budget, Take, Programs
<1> QED BY <1>4, <1>5, <1>6 DEF TInv, TypeOK

\* A datagram that arrives finds room or is dropped.
LEMMA ArriveTyped ==
  ASSUME TInv, NEW p \in Programs, NEW size \in Sizes, Arrive(p, size)
  PROVE  TInv'
<1>1. CASE Len(queue[p]) < QueueSize
  <2>1. queue' = [queue EXCEPT ![p] = Append(queue[p], size)] /\ p \in Bound
    BY <1>1 DEF Arrive
  <2>2. queue[p] \in Seq(Sizes)
    BY DEF TInv, TypeOK
  <2>3. Append(queue[p], size) \in Seq(Sizes) /\ Len(Append(queue[p], size)) <= QueueSize
    BY <1>1, <2>2, QueueSizeAssumption
  <2>4. queue' \in [Programs -> Seq(Sizes)]
    BY <2>1, <2>3 DEF TInv, TypeOK
  <2>5. ASSUME NEW q \in Programs
        PROVE  Len(queue'[q]) <= QueueSize /\ (q \notin Bound' => queue'[q] = << >>)
    <3>1. Bound' = Bound
      BY DEF Arrive, Bound
    <3>2. CASE q = p
      BY <2>1, <2>3, <3>1, <3>2 DEF TInv, TypeOK
    <3>3. CASE q # p
      BY <2>1, <3>1, <3>3 DEF TInv, TypeOK
    <3> QED BY <3>2, <3>3
  <2> QED BY <2>4, <2>5 DEF TInv, TypeOK, Budget, Arrive
<1>2. CASE ~(Len(queue[p]) < QueueSize)
  BY <1>2 DEF Arrive, TInv, TypeOK, Budget, Bound
<1> QED BY <1>1, <1>2

LEMMA StepTyped == TInv /\ [Next]_vars => TInv'
<1> SUFFICES ASSUME TInv, [Next]_vars
             PROVE  TInv'
  OBVIOUS
<1>0. ASSUME UNCHANGED vars
      PROVE  TInv'
  BY <1>0 DEF vars, TInv, TypeOK, Budget, Bound
<1>1. ASSUME NEW p \in Programs, NEW s \in Statuses \ {"busy", "off"}, Launched(p), Become(p, s),
             p = "visualizer" => s = "waiting"
      PROVE  TInv'
  <2>1. status[p] = "off" /\ queue[p] = << >> /\ len[p] = 0
    BY <1>1 DEF Launched, TInv, TypeOK, Bound, BoundStatuses
  <2>2. len' = [len EXCEPT ![p] = 0]
    BY <1>1, <2>1 DEF Become, TInv, TypeOK
  <2>3. p = "visualizer" => packet_count < MaxPackets
    BY <2>1, MaxPacketsAssumption DEF TInv, Budget
  <2> QED BY <1>1, <2>1, <2>2, <2>3, ChangeTyped DEF Become
<1>2. ASSUME NEW p \in Programs, NEW s \in {"waiting", "leaving"}, Proceed(p, s),
             s = "waiting" => ~BudgetSpent(p)
      PROVE  TInv'
  <2>1. s \in Statuses \ {"busy"} /\ s \in BoundStatuses
    BY DEF Statuses, BoundStatuses
  <2>2. (p = "visualizer" /\ s = "waiting") => packet_count < MaxPackets
    BY <1>2, MaxPacketsAssumption DEF BudgetSpent, TInv, TypeOK
  <2> QED BY <1>2, <2>1, <2>2, ChangeTyped DEF Proceed
<1>3. ASSUME NEW p \in Programs, Work(p)
      PROVE  TInv'
  <2>1. CASE Take(p)
    BY <2>1, TakeTyped
  <2>2. CASE Continue(p)
    BY <2>2, <1>2 DEF Continue
  <2>3. CASE SaveScan(p)
    BY <2>3, <1>2 DEF SaveScan
  <2>4. CASE Finish(p) \/ Leave(p)
    BY <2>4, EndTyped DEF Finish, Leave
  <2> QED BY <1>3, <2>1, <2>2, <2>3, <2>4 DEF Work
<1>4. ASSUME NEW p \in Programs, User(p)
      PROVE  TInv'
  <2>1. CASE Start(p)
    BY <2>1, <1>1 DEF Start, Statuses, BoundStatuses
  <2>2. CASE StartRefused(p)
    BY <2>2, <1>0 DEF StartRefused
  <2>3. CASE Kill(p)
    BY <2>3, EndTyped DEF Kill
  <2> QED BY <1>4, <2>1, <2>2, <2>3 DEF User
<1>5. ASSUME NEW p \in Programs, RecvErrorRetried(p) \/ RecvErrorEnds(p)
      PROVE  TInv'
  BY <1>5, <1>0, EndTyped DEF RecvErrorRetried, RecvErrorEnds
<1>6. CASE PlotterUnbound \/ PlotterWithoutSocket
  <2>1. PICK s \in {"deaf", "spinning"} : Launched("plotter") /\ Become("plotter", s)
    BY <1>6 DEF PlotterUnbound, PlotterWithoutSocket
  <2>2. "plotter" \in Programs /\ s \in Statuses \ {"busy", "off"}
    BY DEF Programs, Statuses, BoundStatuses
  <2> QED BY <2>1, <2>2, <1>1
<1>7. CASE Delivery
  BY <1>7, ArriveTyped DEF Delivery
<1> QED BY <1>0, <1>3, <1>4, <1>5, <1>6, <1>7 DEF Next

(***************************************************************************)
(* Nothing waits for a program that is not bound, every socket and every   *)
(* buffer keeps its limit, and the visualizer its budget.                  *)
(***************************************************************************)
THEOREM TypeCorrect == Spec => []TypeOK
<1>1. TInv => TypeOK
  BY DEF TInv
<1> QED BY <1>1, InitTyped, StepTyped, PTL DEF Spec

\* The one-shot dumps need less than a packet, the others less than they got.
LEMMA ExaminedReceived ==
  ASSUME NEW p \in Programs, NEW n \in Nat, p \in OneShot => n >= PacketSize
  PROVE  Examined(p, n) <= n
<1>1. ReaderBytes(n) <= n /\ VisualizerBytes(n) <= n /\ SlamBytes(n) <= n /\ HexDumpBytes(n) <= n
  BY DEF ReaderBytes, VisualizerBytes, SlamBytes, HexDumpBytes, Lesser
<1>2. FirstBlockBytes(n) <= n
  BY DEF FirstBlockBytes
<1>3. n >= PacketSize => MSOPDumpBytes <= n /\ RawDumpBytes <= n
  BY DEF PacketSize, MSOPDumpBytes, RawDumpBytes
<1>4. CASE p \in OneShot
  BY <1>3, <1>4 DEF OneShot, Examined
<1>5. CASE p \notin OneShot
  BY <1>1, <1>2, <1>5 DEF OneShot, Programs, Examined
<1> QED BY <1>4, <1>5

(***************************************************************************)
(* No program looks past the bytes it received, apart from a one-shot dump *)
(* that received less than a packet.                                       *)
(***************************************************************************)
THEOREM BytesCorrect == Spec => []ReceivedBytesOnly
<1>1. TypeOK => ReceivedBytesOnly
  BY ExaminedReceived DEF TypeOK, ReceivedBytesOnly
<1> QED BY <1>1, TypeCorrect, PTL

=============================================================================
