----------------------------- MODULE SlamReader -----------------------------
(***************************************************************************)
(* The program of slam_lidar_cpp/src/main.cpp: readScan takes one datagram *)
(* from the socket, the scan is printed, and the program sleeps for 200 ms *)
(* while the sensor goes on sending.  What waits in the socket is the      *)
(* program's unseen state: the kernel keeps datagrams in their order and   *)
(* drops new ones when its buffer is full.                                 *)
(*                                                                         *)
(* Time goes in ticks; at most one datagram arrives in each (another tick  *)
(* without one is a loss, a datagram out of turn a repetition or a change  *)
(* of order on the way).  Reading and printing take no time beside the     *)
(* sleep.                                                                  *)
(***************************************************************************)
EXTENDS SlamScan, Sequences

CONSTANTS Datagrams,
          BufferSize,     \* datagrams that the socket holds
          SleepTicks,     \* sleep_for(200 ms)
          AngleOffset,    \* arguments of the program
          Inverted

ASSUME DatagramsAssumption   == Datagrams \subseteq Datagram
ASSUME BufferSizeAssumption  == BufferSize \in Nat \ {0}
ASSUME SleepTicksAssumption  == SleepTicks \in Nat \ {0}
ASSUME AngleOffsetAssumption == AngleOffset \in Int
ASSUME InvertedAssumption    == Inverted \in BOOLEAN

VARIABLES
  phase,      \* "start", "receive", "sleep", or "dead"
  timer,      \* ticks left to sleep
  buffer,     \* what waits in the socket, with its age in ticks
  scan,       \* the scan printed last
  scan_age    \* how old its datagram was when it was read

vars == <<phase, timer, buffer, scan, scan_age>>

NoScan == [idx \in {} |-> 0]

Init ==
  /\ phase = "start"
  /\ timer = 0
  /\ buffer = << >>
  /\ scan = NoScan
  /\ scan_age = 0

\* socket and bind, and the exception of either, which main does not catch.
Construct ==
  /\ phase = "start"
  /\ phase' \in {"receive", "dead"}
  /\ UNCHANGED <<timer, buffer, scan, scan_age>>

Waiting == phase = "receive" /\ buffer # << >>

\* Mutant: the newest datagram is taken.
ReadNewest ==
  /\ Waiting
  /\ LET newest == buffer[Len(buffer)] IN
       /\ newest.datagram.size >= PacketSize
       /\ scan' = Scan(newest.datagram.packet, AngleOffset, Inverted)
       /\ scan_age' = newest.age
  /\ buffer' = SubSeq(buffer, 1, Len(buffer) - 1)
  /\ timer' = SleepTicks
  /\ phase' = "sleep"

\* Mutant: the program sleeps before reading, too.
ReadSlowly ==
  /\ Waiting
  /\ Head(buffer).datagram.size >= PacketSize
  /\ scan' = Scan(Head(buffer).datagram.packet, AngleOffset, Inverted)
  /\ scan_age' = Head(buffer).age
  /\ buffer' = Tail(buffer)
  /\ timer' = 2 * SleepTicks
  /\ phase' = "sleep"

\* Mutant: the constructor does not store its arguments.
ReadPlain ==
  /\ Waiting
  /\ Head(buffer).datagram.size >= PacketSize
  /\ scan' = DefaultScan(Head(buffer).datagram.packet)
  /\ scan_age' = Head(buffer).age
  /\ buffer' = Tail(buffer)
  /\ timer' = SleepTicks
  /\ phase' = "sleep"

\* recvfrom with room for one packet: a longer datagram is cut and accepted.
readScan ==
  /\ Waiting
  /\ Head(buffer).datagram.size >= PacketSize
  /\ scan' = Scan(Head(buffer).datagram.packet, AngleOffset, Inverted)
  /\ scan_age' = Head(buffer).age
  /\ buffer' = Tail(buffer)
  /\ timer' = SleepTicks
  /\ phase' = "sleep"

\* Mutant: the exception is caught and the call repeated, on the same bytes.
RetryShort ==
  /\ Waiting
  /\ Head(buffer).datagram.size < PacketSize
  /\ UNCHANGED vars

\* A shorter one is an exception, and main has no handler.
IncompletePacket ==
  /\ Waiting
  /\ Head(buffer).datagram.size < PacketSize
  /\ buffer' = Tail(buffer)
  /\ phase' = "dead"
  /\ UNCHANGED <<timer, scan, scan_age>>

\* So is a failed or interrupted call.
RecvError ==
  /\ phase = "receive"
  /\ phase' = "dead"
  /\ UNCHANGED <<timer, buffer, scan, scan_age>>

\* The buffer a tick later, and with a datagram that has just arrived.
Aged == [i \in 1 .. Len(buffer) |-> [buffer[i] EXCEPT !.age = @ + 1]]

Arrive(d) ==
  IF Len(buffer) < BufferSize
  THEN Append(Aged, [age |-> 0, datagram |-> d])
  ELSE Aged

\* Time passes while the program sleeps or has nothing to receive.
Wait ==
  /\ phase = "sleep" \/ (phase = "receive" /\ buffer = << >>)
  /\ timer' = IF timer > 0 THEN timer - 1 ELSE 0
  /\ phase' = IF timer <= 1 THEN "receive" ELSE "sleep"
  /\ UNCHANGED <<scan, scan_age>>

Silence == Wait /\ buffer' = Aged

Arrival(d) == Wait /\ buffer' = Arrive(d)

Dead == phase = "dead" /\ UNCHANGED vars

Step == Construct \/ readScan \/ IncompletePacket

Next ==
  \/ Step
  \/ RecvError
  \/ Silence
  \/ \E d \in Datagrams : Arrival(d)
  \/ Dead

Spec == Init /\ [][Next]_vars

\* The program runs, and the sensor goes on sending.
Fairness == WF_vars(Step) /\ WF_vars(\E d \in Datagrams : Arrival(d))

FairSpec == Spec /\ Fairness

-----------------------------------------------------------------------------

(***************************************************************************)
(* The buffer never holds more than its size, and every beam of a scan is  *)
(* at an angle of the turn, whatever offset was asked for.                 *)
(***************************************************************************)
BeamType == [angle : 0 .. FineTurn - 1, range : 0 .. Infinite, intensity : UInt8]

TypeOK ==
  /\ phase \in {"start", "receive", "sleep", "dead"}
  /\ timer \in 0 .. SleepTicks
  /\ buffer \in Seq([age : Nat, datagram : Datagrams])
  /\ Len(buffer) <= BufferSize
  /\ scan = NoScan \/ scan \in [Beams -> BeamType]
  /\ scan_age \in Nat

(***************************************************************************)
(* How old a scan can be when it is read: a full buffer is emptied by one  *)
(* datagram for each sleep, so what arrives last waits for all of them.    *)
(* At 200 ms and some ninety datagrams that is eighteen seconds; it is     *)
(* never more.                                                             *)
(***************************************************************************)
AgeBounded == scan_age < BufferSize * SleepTicks

(***************************************************************************)
(* Scans come out in the order in which their datagrams arrived, and none  *)
(* twice: all that waits is younger than what was read, and the elements   *)
(* of the buffer are younger from its head to its end.                     *)
(***************************************************************************)
Asleep == SleepTicks - timer

OrderKept ==
  /\ \A i, j \in 1 .. Len(buffer) : i < j => buffer[j].age < buffer[i].age
  /\ scan # NoScan =>
       \A i \in 1 .. Len(buffer) : buffer[i].age < scan_age + Asleep

(***************************************************************************)
(* The program publishes a ScanStream: each scan printed is the scan, with *)
(* the offset and the mounting it was started with, of the datagram that   *)
(* waited longest, and of none a second one; the sleep, the clock and the  *)
(* errors add nothing to that.  A datagram shorter than a packet has no    *)
(* scan: the stream ends there, and no part of it is printed.              *)
(***************************************************************************)
Pending == IF phase = "dead" THEN << >> ELSE [i \in 1 .. Len(buffer) |-> buffer[i].datagram]

Stream == INSTANCE ScanStream WITH
  Capacity <- BufferSize,
  ScanOf   <- [d \in {x \in Datagrams : x.size >= PacketSize} |->
                 Scan(d.packet, AngleOffset, Inverted)],
  Nothing  <- NoScan,
  pending  <- Pending,
  stopped  <- phase = "dead"

StreamsScans == Stream!Spec

(***************************************************************************)
(* While datagrams arrive, scans are printed again and again, unless the   *)
(* program has died of a short datagram or of a failed call.               *)
(***************************************************************************)
KeepsScanning == <>(phase = "dead") \/ []<>(phase = "sleep")

=============================================================================
