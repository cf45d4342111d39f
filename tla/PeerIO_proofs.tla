--------------------------- MODULE PeerIO_proofs ---------------------------
(***************************************************************************)
(* Proofs about the messages between a peer's queueHandler and outHandler, *)
(* about the listeners that wait for one and about how the goroutines end  *)
(* after Disconnect, for channels of any capacity and any number of        *)
(* messages.                                                               *)
(***************************************************************************)
EXTENDS PeerIO, SequenceTheorems, TLAPS

\* A message is a set of numbers.
Packet == SUBSET Nat

Types ==
    /\ outputQueue \in Seq(Packet)
    /\ outputInvChan \in Seq({"block", "tx"} \X Nat)
    /\ sendQueue \in {<<>>} \cup {<<m>> : m \in Packet}
    /\ sendDoneQueue \in 0..1
    /\ queue \in {"run", "put", "drain", "done"}
    /\ held \in Packet /\ waiting \in BOOLEAN
    /\ pendingMsgs \in Seq(Packet) /\ invSendQueue \in Packet
    /\ out \in {"run", "note", "write", "writing", "sent", "failed", "drain", "done"}
    /\ sending \in Packet
    /\ ext \in {"none", "message", "block", "tx"} /\ next \in Nat
    /\ unsent \in Seq(Packet)

\* As long as queueHandler does not wait for outHandler, nothing is on its way
\* to it, nothing waits for its turn and everything is written.
Idle == ~waiting => InFlight = 0 /\ pendingMsgs = <<>>

\* The message on its way that is not written yet.
Flight ==
    IF queue = "put" THEN <<held>>
    ELSE IF sendQueue # <<>> THEN sendQueue
    ELSE IF out \in {"note", "write", "writing"} THEN <<sending>> ELSE <<>>

\* What is not written yet is the message on its way and then those that wait
\* for their turn.  That ends when a write fails, after which there is nothing
\* on its way and never will be, and the part about those that wait ends when
\* queueHandler empties its queues.
Lined ==
    ~waiting \/ InFlight = 1 =>
        IF queue \in {"run", "put"} THEN unsent = Flight \o pendingMsgs
        ELSE Flight # <<>> => unsent # <<>> /\ Head(unsent) = Head(Flight)

\* The inductive invariant.
IOInv == Types /\ Idle /\ OneInFlight /\ Lined

-----------------------------------------------------------------------------
\* A sequence of one element.
LEMMA Singleton ==
    ASSUME NEW S, NEW m \in S
    PROVE  /\ <<m>> \in Seq(S) /\ Len(<<m>>) = 1 /\ <<m>> # <<>>
           /\ <<m>>[1] = m /\ Head(<<m>>) = m
OBVIOUS

\* Appending to the second of two parts is appending to the whole.
LEMMA AppendToSecond ==
    ASSUME NEW s \in Seq(Packet), NEW t \in Seq(Packet), NEW m \in Packet
    PROVE  Append(s \o t, m) = s \o Append(t, m)
<1>1. <<m>> \in Seq(Packet) /\ s \o t \in Seq(Packet)
  BY Singleton, ConcatProperties
<1>2. Append(s \o t, m) = (s \o t) \o <<m>> /\ Append(t, m) = t \o <<m>>
  BY <1>1, AppendIsConcat, Zenon
<1>3. (s \o t) \o <<m>> = s \o (t \o <<m>>)
  BY <1>1, ConcatAssociative, SMTT(30)
<1>4. QED
  BY <1>2, <1>3, Zenon

\* A sequence with a first element.
LEMMA FirstAndRest ==
    ASSUME NEW m \in Packet, NEW t \in Seq(Packet)
    PROVE  /\ <<m>> \o t \in Seq(Packet) /\ <<m>> \o t # <<>>
           /\ Head(<<m>> \o t) = m /\ Tail(<<m>> \o t) = t
<1> DEFINE s == <<m>> \o t
<1>1. /\ s \in Seq(Packet) /\ Len(s) = 1 + Len(t) /\ Len(t) \in Nat /\ s[1] = m
      /\ \A i \in 1 .. Len(t) : s[i + 1] = t[i]
  BY Singleton, ConcatProperties, LenProperties
<1> HIDE DEF s
<1>2. s # <<>> /\ Head(s) = m
  BY <1>1
<1>3. Tail(s) \in Seq(Packet) /\ Len(Tail(s)) = Len(t)
      /\ \A i \in 1 .. Len(t) : Tail(s)[i] = t[i]
  BY <1>1, <1>2, HeadTailProperties
<1>4. Tail(s) = t
  BY <1>3, SeqEqual, SMTT(30)
<1>5. QED
  BY <1>1, <1>2, <1>4 DEF s

\* Taking a sequence apart and putting it together.
LEMMA HeadAndTail ==
    ASSUME NEW s \in Seq(Packet), s # <<>>
    PROVE  /\ Head(s) \in Packet /\ Tail(s) \in Seq(Packet)
           /\ <<Head(s)>> \o Tail(s) = s
<1> DEFINE r == <<Head(s)>> \o Tail(s)
<1>1. /\ Head(s) \in Packet /\ Tail(s) \in Seq(Packet) /\ Len(Tail(s)) = Len(s) - 1
      /\ \A i \in 1 .. Len(s) - 1 : Tail(s)[i] = s[i + 1]
      /\ Len(s) \in Nat \ {0} /\ Head(s) = s[1]
  BY HeadTailProperties, EmptySeq
<1>2. /\ r \in Seq(Packet) /\ Len(r) = Len(s)
      /\ \A i \in 1 .. Len(s) : r[i] = IF i <= 1 THEN <<Head(s)>>[i] ELSE Tail(s)[i - 1]
  BY <1>1, Singleton, ConcatProperties
<1> HIDE DEF r
<1>3. \A i \in 1 .. Len(s) : r[i] = s[i]
  <2> TAKE i \in 1 .. Len(s)
  <2>1. CASE i = 1
    BY <1>1, <1>2, <2>1
  <2>2. CASE i # 1
    <3>1. i - 1 \in 1 .. Len(s) - 1 /\ (i - 1) + 1 = i
      BY <1>1, <2>2
    <3>2. QED
      BY <1>1, <1>2, <2>2, <3>1
  <2>3. QED
    BY <2>1, <2>2
<1>4. r = s
  BY <1>2, <1>3, SeqEqual
<1>5. QED
  BY <1>1, <1>4 DEF r

-----------------------------------------------------------------------------
\* Nothing is on its way at the start.
LEMMA InitInv == Init => IOInv
<1> SUFFICES ASSUME Init PROVE IOInv
  OBVIOUS
<1>1. Types
  <2>1. {} \in Packet
    BY DEF Packet
  <2>2. <<>> \in Seq(Packet) /\ <<>> \in Seq({"block", "tx"} \X Nat)
    BY EmptySeq
  <2>3. /\ outputQueue = <<>> /\ outputInvChan = <<>> /\ sendQueue = <<>>
        /\ pendingMsgs = <<>> /\ unsent = <<>>
        /\ held = {} /\ invSendQueue = {} /\ sending = {}
    BY DEF Init
  <2>4. /\ sendDoneQueue = 0 /\ next = 1 /\ waiting = FALSE
        /\ queue = "run" /\ out = "run" /\ ext = "none"
    BY DEF Init
  <2>6. 0 \in 0..1 /\ 1 \in Nat
    OBVIOUS
  <2>5. QED
    BY <2>1, <2>2, <2>3, <2>4, <2>6, Zenon DEF Types
<1>2. InFlight = 0 /\ Flight = <<>>
  BY DEF Init, InFlight, Flight
<1>3. Idle /\ OneInFlight
  BY <1>2 DEF Init, Idle, OneInFlight
<1>4. Lined
  BY <1>2 DEF Init, Lined
<1>5. QED
  BY <1>1, <1>3, <1>4 DEF IOInv

\* sendQueue is a channel with room for one message.
LEMMA SendQueue ==
    ASSUME Types
    PROVE  /\ Len(sendQueue) \in 0..1
           /\ sendQueue = <<>> <=> Len(sendQueue) = 0
           /\ sendQueue # <<>> => Head(sendQueue) \in Packet
                                /\ sendQueue = <<Head(sendQueue)>>
<1>1. CASE sendQueue = <<>>
  BY <1>1
<1>2. ASSUME NEW m \in Packet, sendQueue = <<m>>
      PROVE  Len(sendQueue) = 1 /\ sendQueue # <<>> /\ Head(sendQueue) = m
  BY <1>2
<1>3. QED
  BY <1>1, <1>2 DEF Types

\* At most one message is on its way.
LEMMA FlightIsSeq ==
    ASSUME Types
    PROVE  Flight \in Seq(Packet)
<1>1. <<>> \in Seq(Packet) /\ \A m \in Packet : <<m>> \in Seq(Packet)
  BY Singleton, EmptySeq
<1>2. /\ sendQueue \in {<<>>} \cup {<<m>> : m \in Packet}
      /\ held \in Packet /\ sending \in Packet
  BY DEF Types
<1>3. QED
  BY <1>1, <1>2, Zenon DEF Flight

\* Steps after which the same message is on its way.
LEMMA SameFlight ==
    ASSUME IOInv, InFlight' = InFlight, Flight' = Flight,
           UNCHANGED <<waiting, pendingMsgs, unsent>>,
           queue' \in {"run", "put"} <=> queue \in {"run", "put"}
    PROVE  Idle' /\ OneInFlight' /\ Lined'
BY Zenon DEF IOInv, Idle, OneInFlight, Lined

\* Steps that leave queueHandler, outHandler and the channel between them alone.
LEMMA ElsewhereInv ==
    ASSUME IOInv, UNCHANGED <<qVars, oVars, sendQueue, sendDoneQueue, unsent>>,
           outputQueue' \in Seq(Packet),
           outputInvChan' \in Seq({"block", "tx"} \X Nat),
           ext' \in {"none", "message", "block", "tx"}, next' \in Nat
    PROVE  IOInv'
<1>1. Types'
  BY DEF IOInv, Types, qVars, oVars
<1>2. InFlight' = InFlight /\ Flight' = Flight
  BY DEF InFlight, Flight, qVars, oVars
<1>3. Idle' /\ OneInFlight' /\ Lined'
  BY <1>2, SameFlight DEF qVars
<1>4. QED
  BY <1>1, <1>3 DEF IOInv

\* queueHandler keeps inventory for the next trickle, or finds nothing to send.
LEMMA TrickleLaterInv ==
    ASSUME IOInv, UNCHANGED <<queue, held, waiting, pendingMsgs, unsent>>,
           UNCHANGED <<oVars, eVars, outputQueue, sendQueue, sendDoneQueue>>,
           invSendQueue' \in Packet,
           outputInvChan' \in Seq({"block", "tx"} \X Nat)
    PROVE  IOInv'
<1>1. Types'
  BY DEF IOInv, Types, oVars, eVars
<1>2. InFlight' = InFlight /\ Flight' = Flight
  BY DEF InFlight, Flight, oVars
<1>3. QED
  BY <1>1, <1>2, SameFlight DEF IOInv

\* queueHandler makes a packet: it goes on its way when nothing else is, and
\* otherwise behind the others.
LEMMA queuePacketInv ==
    ASSUME IOInv, queue = "run", NEW m \in Packet, queuePacket(m),
           UNCHANGED <<oVars, eVars, sendQueue, sendDoneQueue>>,
           outputQueue' \in Seq(Packet), invSendQueue' \in Packet,
           outputInvChan' \in Seq({"block", "tx"} \X Nat)
    PROVE  IOInv'
<1>1. Types /\ Idle /\ OneInFlight /\ Lined
  BY DEF IOInv
<1>2. unsent' = Append(unsent, m) /\ waiting'
  BY DEF queuePacket
<1>3. CASE waiting
  <2>1. pendingMsgs' = Append(pendingMsgs, m) /\ UNCHANGED <<queue, held>>
    BY <1>3 DEF queuePacket
  <2>2. Types'
    BY <1>1, <1>2, <2>1 DEF Types, oVars, eVars
  <2>3. InFlight' = InFlight /\ Flight' = Flight
    BY <2>1 DEF InFlight, Flight, oVars
  <2>4. Flight \in Seq(Packet)
    BY <1>1, FlightIsSeq
  <2>5. Append(Flight \o pendingMsgs, m) = Flight \o Append(pendingMsgs, m)
    <3>1. pendingMsgs \in Seq(Packet)
      BY <1>1 DEF Types
    <3>2. QED
      BY <2>4, <3>1, AppendToSecond, ZenonT(60)
  <2>6. Lined'
    BY <1>1, <1>2, <1>3, <2>1, <2>3, <2>5, Zenon DEF Lined
  <2>7. QED
    BY <1>1, <1>2, <2>2, <2>3, <2>6 DEF IOInv, Idle, OneInFlight
<1>4. CASE ~waiting
  <2>1. queue' = "put" /\ held' = m /\ UNCHANGED pendingMsgs
    BY <1>4 DEF queuePacket
  <2>2. InFlight = 0 /\ pendingMsgs = <<>>
    BY <1>1, <1>4 DEF Idle
  <2>3. Types'
    BY <1>1, <1>2, <2>1 DEF Types, oVars, eVars
  <2>4. sendQueue = <<>> /\ out \notin {"note", "write", "writing", "sent"}
    BY <1>1, <2>2, SendQueue DEF InFlight, Types
  <2>5. InFlight' = 1
    BY <1>1, <2>1, <2>2, SendQueue DEF InFlight, Types, oVars
  <2>6. Flight = <<>> /\ Flight' = <<m>>
    BY <2>1, <2>4 DEF Flight
  <2>7. unsent = <<>>
    BY <1>1, <1>4, <2>2, <2>6 DEF Lined
  <2>8. Lined'
    BY <1>2, <2>1, <2>2, <2>6, <2>7 DEF Lined
  <2>9. QED
    BY <1>2, <2>3, <2>5, <2>8 DEF IOInv, Idle, OneInFlight
<1>5. QED
  BY <1>3, <1>4

-----------------------------------------------------------------------------
\* The message on its way is one message.
LEMMA FlightHead ==
    ASSUME IOInv, Flight # <<>>
    PROVE  \E x \in Packet : Flight = <<x>>
<1>1. /\ sendQueue \in {<<>>} \cup {<<m>> : m \in Packet}
      /\ held \in Packet /\ sending \in Packet
  BY DEF IOInv, Types
<1>2. QED
  BY <1>1, Zenon DEF Flight

\* What is written next is what outHandler has in its hand.
LEMMA WriteNext ==
    ASSUME IOInv, out \in {"write", "writing"}
    PROVE  /\ InFlight = 1 /\ waiting /\ queue # "put" /\ sendQueue = <<>>
           /\ Flight = <<sending>> /\ sending \in Packet
           /\ unsent # <<>> /\ Head(unsent) = sending
           /\ queue = "run" => Tail(unsent) = pendingMsgs
<1>1. Types /\ Idle /\ OneInFlight /\ Lined
  BY DEF IOInv
<1>2. /\ InFlight = 1 /\ queue # "put" /\ Len(sendQueue) = 0
  <2>1. Len(sendQueue) \in 0..1 /\ sendDoneQueue \in 0..1
    BY <1>1, SendQueue, Zenon DEF Types
  <2>2. (IF out \in {"note", "write", "writing", "sent"} THEN 1 ELSE 0) = 1
    BY Zenon
  <2>3. InFlight = (IF queue = "put" THEN 1 ELSE 0) + Len(sendQueue) + 1 + sendDoneQueue
    BY <2>2, Zenon DEF InFlight
  <2>4. QED
    BY <1>1, <2>1, <2>3, SMT DEF OneInFlight
<1>3. sendQueue = <<>> /\ waiting
  BY <1>1, <1>2, SendQueue DEF Idle
<1>4. Flight = <<sending>> /\ sending \in Packet /\ pendingMsgs \in Seq(Packet)
  BY <1>1, <1>2, <1>3 DEF Flight, Types
<1>5. Flight # <<>> /\ Head(Flight) = sending
  BY <1>4, Singleton
<1>6. CASE queue \in {"run", "put"}
  <2>1. unsent = <<sending>> \o pendingMsgs
    BY <1>1, <1>2, <1>4, <1>6 DEF Lined
  <2>2. unsent # <<>> /\ Head(unsent) = sending /\ Tail(unsent) = pendingMsgs
    BY <1>4, <2>1, FirstAndRest, Zenon
  <2>3. QED
    BY <1>2, <1>3, <1>4, <2>2
<1>7. CASE queue \notin {"run", "put"}
  BY <1>1, <1>2, <1>3, <1>4, <1>5, <1>7 DEF Lined
<1>8. QED
  BY <1>6, <1>7

\* queueHandler learns that outHandler is done with a message.
LEMMA QueueSendDoneInv ==
    ASSUME IOInv, QueueSendDone
    PROVE  IOInv'
<1>1. Types /\ Idle /\ OneInFlight /\ Lined
  BY DEF IOInv
<1>2. /\ queue = "run" /\ sendDoneQueue = 1 /\ sendDoneQueue' = 0
      /\ UNCHANGED <<invSendQueue, oVars, eVars, outputQueue, outputInvChan,
                     sendQueue, unsent>>
  BY DEF QueueSendDone, notes
<1>3. /\ InFlight = 1 /\ Len(sendQueue) = 0 /\ out \notin {"note", "write", "writing", "sent"}
  BY <1>1, <1>2, SendQueue DEF InFlight, OneInFlight, Types
<1>4. sendQueue = <<>> /\ waiting
  BY <1>1, <1>3, SendQueue DEF Idle
<1>5. Flight = <<>> /\ pendingMsgs \in Seq(Packet)
  BY <1>1, <1>2, <1>3, <1>4 DEF Flight, Types
<1>6. unsent = pendingMsgs
  <2>1. unsent = <<>> \o pendingMsgs
    BY <1>1, <1>2, <1>3, <1>5 DEF Lined
  <2>2. QED
    BY <1>5, <2>1, ConcatEmptySeq
<1>7. CASE pendingMsgs = <<>>
  <2>1. waiting' = FALSE /\ UNCHANGED <<queue, held, pendingMsgs>>
    BY <1>7 DEF QueueSendDone
  <2>2. Types'
    <3>1. waiting' \in BOOLEAN
      BY <2>1, Zenon
    <3>2. UNCHANGED <<queue, held, pendingMsgs>>
      BY <2>1
    <3>3. QED
      BY <1>1, <1>2, <3>1, <3>2 DEF Types, oVars, eVars
  <2>3. InFlight' = 0 /\ Flight' = <<>>
    BY <1>2, <1>3, <1>4, <2>1 DEF InFlight, Flight, oVars
  <2>4. Lined'
    BY <1>2, <1>6, <1>7, <2>1, <2>3 DEF Lined
  <2>5. QED
    BY <1>7, <2>1, <2>2, <2>3, <2>4 DEF IOInv, Idle, OneInFlight
<1>8. CASE pendingMsgs # <<>>
  <2>1. /\ queue' = "put" /\ held' = Head(pendingMsgs)
        /\ pendingMsgs' = Tail(pendingMsgs) /\ UNCHANGED waiting
    BY <1>8 DEF QueueSendDone
  <2>2. /\ Head(pendingMsgs) \in Packet /\ Tail(pendingMsgs) \in Seq(Packet)
        /\ <<Head(pendingMsgs)>> \o Tail(pendingMsgs) = pendingMsgs
    BY <1>5, <1>8, HeadAndTail, Zenon
  <2>3. Types'
    BY <1>1, <1>2, <2>1, <2>2 DEF Types, oVars, eVars
  <2>4. InFlight' = 1 /\ Flight' = <<Head(pendingMsgs)>>
    BY <1>2, <1>3, <2>1 DEF InFlight, Flight, oVars
  <2>5. Lined'
    BY <1>2, <1>6, <2>1, <2>2, <2>4, Zenon DEF Lined
  <2>6. QED
    BY <1>4, <2>1, <2>3, <2>4, <2>5 DEF IOInv, Idle, OneInFlight
<1>9. QED
  BY <1>7, <1>8

\* The message in queueHandler's hand moves into sendQueue.
LEMMA QueuePutsInv ==
    ASSUME IOInv, QueuePuts
    PROVE  IOInv'
<1>1. Types /\ Idle /\ OneInFlight /\ Lined
  BY DEF IOInv
<1>2. /\ queue = "put" /\ queue' = "run" /\ held' = {}
      /\ sendQueue = <<>> /\ sendQueue' = <<held>>
      /\ UNCHANGED <<waiting, pendingMsgs, invSendQueue, oVars, eVars,
                     outputQueue, outputInvChan, sendDoneQueue, unsent>>
  BY DEF QueuePuts, notes
<1>3. held \in Packet /\ {} \in Packet
  BY <1>1 DEF Types, Packet
<1>4. Types'
  BY <1>1, <1>2, <1>3 DEF Types, oVars, eVars
<1>5. Flight' = Flight
  BY <1>2, <1>3, Singleton DEF Flight
<1>6. InFlight' = InFlight
  BY <1>1, <1>2, <1>3, Singleton, SendQueue DEF InFlight, oVars
<1>7. Idle' /\ OneInFlight' /\ Lined'
  BY <1>2, <1>5, <1>6, SameFlight
<1>8. QED
  BY <1>4, <1>7 DEF IOInv

\* queueHandler finds quit closed.
LEMMA QueueQuitsInv ==
    ASSUME IOInv, QueueQuits
    PROVE  IOInv'
<1>1. Types /\ Idle /\ OneInFlight /\ Lined
  BY DEF IOInv
<1>2. /\ queue = "run" /\ queue' = "drain"
      /\ UNCHANGED <<held, waiting, pendingMsgs, invSendQueue, oVars, eVars,
                     outputQueue, outputInvChan, sendQueue, sendDoneQueue, unsent>>
  BY DEF QueueQuits, notes, chans
<1>3. Types'
  BY <1>1, <1>2 DEF Types, oVars, eVars
<1>4. Flight' = Flight /\ InFlight' = InFlight
  BY <1>2 DEF Flight, InFlight, oVars
<1>5. Lined'
  <2> SUFFICES ASSUME ~waiting \/ InFlight = 1, Flight # <<>>
               PROVE  unsent # <<>> /\ Head(unsent) = Head(Flight)
    BY <1>2, <1>4, Zenon DEF Lined
  <2>1. unsent = Flight \o pendingMsgs /\ pendingMsgs \in Seq(Packet)
    BY <1>1, <1>2 DEF Lined, Types
  <2>2. PICK x \in Packet : Flight = <<x>>
    BY FlightHead
  <2>3. Head(Flight) = x
    BY <2>2, Singleton
  <2>4. QED
    BY <2>1, <2>2, <2>3, FirstAndRest, Zenon
<1>6. QED
  BY <1>1, <1>2, <1>3, <1>4, <1>5 DEF IOInv, Idle, OneInFlight

\* queueHandler empties what it has.
LEMMA QueueDrainsInv ==
    ASSUME IOInv, QueueDrains
    PROVE  IOInv'
<1>1. Types /\ Idle /\ OneInFlight /\ Lined
  BY DEF IOInv
<1>2. /\ queue = "drain" /\ queue' \in {"drain", "done"}
      /\ UNCHANGED <<held, waiting, invSendQueue, oVars, eVars, sendQueue,
                     sendDoneQueue, unsent>>
      /\ \/ pendingMsgs # <<>> /\ pendingMsgs' = Tail(pendingMsgs)
         \/ pendingMsgs' = pendingMsgs
      /\ \/ outputQueue # <<>> /\ outputQueue' = Tail(outputQueue)
         \/ outputQueue' = outputQueue
      /\ \/ outputInvChan # <<>> /\ outputInvChan' = Tail(outputInvChan)
         \/ outputInvChan' = outputInvChan
  BY DEF QueueDrains
<1>3. /\ pendingMsgs' \in Seq(Packet) /\ outputQueue' \in Seq(Packet)
      /\ outputInvChan' \in Seq({"block", "tx"} \X Nat)
  <2>1. /\ pendingMsgs \in Seq(Packet) /\ outputQueue \in Seq(Packet)
        /\ outputInvChan \in Seq({"block", "tx"} \X Nat)
    BY <1>1 DEF Types
  <2>2. QED
    BY <1>2, <2>1, HeadTailProperties, ZenonT(60)
<1>4. Types'
  BY <1>1, <1>2, <1>3 DEF Types, oVars, eVars
<1>5. Flight' = Flight /\ InFlight' = InFlight
  BY <1>2, Zenon DEF Flight, InFlight, oVars
<1>6. Lined'
  BY <1>1, <1>2, <1>5, Zenon DEF Lined
<1>7. Idle' /\ OneInFlight'
  BY <1>1, <1>2, <1>5 DEF Idle, OneInFlight
<1>8. QED
  BY <1>4, <1>6, <1>7 DEF IOInv

\* outHandler takes the message, notes it, begins to write it, is done with one
\* that failed, acknowledges one that was written and finds quit closed: the
\* same message stays on its way.
LEMMA OutKeepsInv ==
    ASSUME IOInv,
           \/ OutTakes \/ OutNotes \/ OutBegins \/ OutFailed \/ OutAcknowledges
           \/ OutQuits
    PROVE  IOInv'
<1>1. Types /\ OneInFlight
  BY DEF IOInv
<1>2. /\ UNCHANGED <<qVars, eVars, outputQueue, outputInvChan, unsent>>
      /\ out' \in {"run", "note", "write", "writing", "drain"}
  BY DEF OutTakes, OutNotes, OutBegins, OutFailed, OutAcknowledges, OutQuits, notes, chans
<1>3. /\ sendQueue' = sendQueue \/ sendQueue' = <<>>
      /\ sendDoneQueue' \in 0..1
      /\ sending' \in Packet
  <2>1. /\ {} \in Packet /\ sending \in Packet /\ sendDoneQueue \in 0..1
        /\ sendQueue # <<>> => Head(sendQueue) \in Packet
    BY <1>1, SendQueue DEF Types, Packet
  <2>2. sendDoneQueue' = sendDoneQueue \/ sendDoneQueue' = 1
    BY DEF OutTakes, OutNotes, OutBegins, OutFailed, OutAcknowledges, OutQuits, chans
  <2>3. /\ sendQueue' = sendQueue \/ sendQueue' = <<>>
        /\ \/ sendQueue # <<>> /\ sending' = Head(sendQueue)
           \/ sending' = sending \/ sending' = {}
    BY DEF OutTakes, OutNotes, OutBegins, OutFailed, OutAcknowledges, OutQuits, chans
  <2>4. sendDoneQueue' \in 0..1
    BY <2>1, <2>2
  <2>5. QED
    BY <2>1, <2>3, <2>4, Zenon
<1>4. Types'
  BY <1>1, <1>2, <1>3 DEF Types, qVars, eVars
<1>5. InFlight' = InFlight /\ Flight' = Flight
  <2>1. CASE OutTakes
    <3>1. /\ out = "run" /\ sendQueue # <<>> /\ sending' = Head(sendQueue)
          /\ sendQueue' = <<>> /\ out' = "note"
          /\ UNCHANGED <<qVars, sendDoneQueue>>
      BY <2>1 DEF OutTakes
    <3>2. Len(sendQueue) = 1 /\ sendQueue = <<Head(sendQueue)>> /\ Len(<<>>) = 0
      BY <1>1, <3>1, SendQueue
    <3>3. queue # "put"
      BY <1>1, <3>1, <3>2 DEF OneInFlight, InFlight, Types
    <3>4. QED
      BY <3>1, <3>2, <3>3 DEF InFlight, Flight, qVars
  <2>2. CASE OutNotes
    BY <2>2 DEF OutNotes, InFlight, Flight, qVars
  <2>7. CASE OutBegins
    BY <2>7 DEF OutBegins, InFlight, Flight, qVars, chans
  <2>3. CASE OutFailed
    BY <2>3 DEF OutFailed, InFlight, Flight, qVars, chans
  <2>4. CASE OutAcknowledges
    <3>1. /\ out = "sent" /\ sendDoneQueue = 0 /\ sendDoneQueue' = 1
          /\ out' = "run" /\ UNCHANGED <<queue, held, sending, sendQueue>>
      BY <2>4 DEF OutAcknowledges, qVars
    <3>2. Len(sendQueue) \in Nat
      BY <1>1, SendQueue
    <3>3. InFlight' = InFlight
      BY <3>1, <3>2 DEF InFlight
    <3>4. Flight' = Flight
      BY <3>1 DEF Flight
    <3>5. QED
      BY <3>3, <3>4
  <2>5. CASE OutQuits
    BY <2>5 DEF OutQuits, InFlight, Flight, qVars, chans
  <2>6. QED
    BY <2>1, <2>2, <2>3, <2>4, <2>5, <2>7
<1>6. Idle' /\ OneInFlight' /\ Lined'
  BY <1>2, <1>5, SameFlight DEF qVars
<1>7. QED
  BY <1>4, <1>6 DEF IOInv

\* A message is written, or passed over: it is the first of those that were
\* not.
LEMMA OutWritesInv ==
    ASSUME IOInv, OutSkips \/ OutWrites
    PROVE  IOInv'
<1>1. Types /\ Idle /\ OneInFlight
  BY DEF IOInv
<1>2. /\ out \in {"write", "writing"} /\ out' = "sent"
      /\ unsent' = Tail(unsent) /\ sending' = {}
      /\ UNCHANGED <<qVars, eVars, chans>>
  BY DEF OutSkips, OutWrites
<1>3. /\ InFlight = 1 /\ waiting /\ queue # "put" /\ sendQueue = <<>>
      /\ unsent # <<>> /\ (queue = "run" => Tail(unsent) = pendingMsgs)
  BY <1>2, WriteNext
<1>4. Tail(unsent) \in Seq(Packet) /\ pendingMsgs \in Seq(Packet) /\ {} \in Packet
  BY <1>1, <1>3, HeadTailProperties DEF Types, Packet
<1>5. Types'
  BY <1>1, <1>2, <1>4 DEF Types, qVars, eVars, chans
<1>6. InFlight' = 1 /\ Flight' = <<>>
  BY <1>2, <1>3 DEF InFlight, Flight, qVars, chans
<1>7. Lined'
  <2>1. <<>> \o pendingMsgs = pendingMsgs
    BY <1>4, ConcatEmptySeq
  <2>2. QED
    BY <1>2, <1>3, <1>6, <2>1, Zenon DEF Lined, qVars
<1>8. QED
  BY <1>2, <1>3, <1>5, <1>6, <1>7 DEF IOInv, Idle, OneInFlight, qVars

\* A message is given up: nothing will be on its way any more.
LEMMA GivenUpInv ==
    ASSUME IOInv, Types', waiting, InFlight' = 0, UNCHANGED waiting
    PROVE  IOInv'
BY DEF IOInv, Idle, OneInFlight, Lined

\* Writing fails.
LEMMA OutWriteFailsInv ==
    ASSUME IOInv, OutWriteFails
    PROVE  IOInv'
<1>1. Types /\ waiting /\ InFlight = 1
  BY WriteNext DEF IOInv, OutWriteFails
<1>2. /\ out = "writing" /\ out' = "failed"
      /\ UNCHANGED <<qVars, sending, eVars, chans, unsent>>
  BY DEF OutWriteFails, notes
<1>3. Types'
  BY <1>1, <1>2 DEF Types, qVars, eVars, chans
<1>4. InFlight' = 0
  <2>1. Len(sendQueue) \in Nat /\ sendDoneQueue \in Nat
    BY <1>1, SendQueue DEF Types
  <2>2. QED
    BY <1>1, <1>2, <2>1 DEF InFlight, qVars, chans
<1>5. QED
  BY <1>1, <1>2, <1>3, <1>4, GivenUpInv DEF qVars

\* outHandler empties sendQueue and ends.
LEMMA OutDrainsInv ==
    ASSUME IOInv, OutDrains
    PROVE  IOInv'
<1>1. Types /\ Idle /\ OneInFlight
  BY DEF IOInv
<1>2. /\ out = "drain" /\ queue = "done" /\ out' \in {"drain", "done"}
      /\ UNCHANGED <<qVars, sending, eVars, outputQueue, outputInvChan,
                     sendDoneQueue, unsent>>
      /\ \/ sendQueue # <<>> /\ sendQueue' = <<>>
         \/ sendQueue' = sendQueue
  BY DEF OutDrains
<1>3. Types'
  BY <1>1, <1>2 DEF Types, qVars, eVars
<1>4. CASE sendQueue' = sendQueue
  <2>1. InFlight' = InFlight /\ Flight' = Flight
    BY <1>2, <1>4 DEF InFlight, Flight, qVars
  <2>2. QED
    BY <1>2, <1>3, <2>1, SameFlight DEF IOInv, qVars
<1>5. CASE sendQueue # <<>> /\ sendQueue' = <<>>
  <2>1. Len(sendQueue) = 1
    BY <1>1, <1>5, SendQueue
  <2>2. InFlight = 1 /\ sendDoneQueue = 0
    BY <1>1, <1>2, <2>1 DEF InFlight, OneInFlight, Types
  <2>3. InFlight' = 0
    BY <1>2, <1>5, <2>2 DEF InFlight, qVars
  <2>4. QED
    BY <1>1, <1>2, <1>3, <2>2, <2>3, GivenUpInv DEF Idle, qVars
<1>6. QED
  BY <1>2, <1>4, <1>5

-----------------------------------------------------------------------------
\* Every step keeps the invariant.
LEMMA StepInv ==
    ASSUME IOInv, [Next]_vars
    PROVE  IOInv'
<1>1. /\ Types /\ outputQueue \in Seq(Packet)
      /\ outputInvChan \in Seq({"block", "tx"} \X Nat)
      /\ invSendQueue \in Packet /\ next \in Nat
      /\ ext \in {"none", "message", "block", "tx"}
  BY DEF IOInv, Types
<1>2. CASE UNCHANGED <<qVars, oVars, eVars, outputQueue, outputInvChan, sendQueue,
                       sendDoneQueue, unsent>>
  BY <1>1, <1>2, ElsewhereInv DEF eVars
<1>3. CASE Close \/ ExtDisconnects \/ StallDisconnects
  BY <1>2, <1>3 DEF Close, CloseConn, CloseQuit, ExtDisconnects, StallDisconnects,
                    chans, notes
<1>4. CASE ExtChecks
  BY <1>1, <1>4, ElsewhereInv DEF ExtChecks, chans, notes
<1>5. {next} \in Packet /\ next + 1 \in Nat
  BY <1>1 DEF Packet
<1>6. CASE ExtSends
  <2>1. /\ UNCHANGED <<qVars, oVars, sendQueue, sendDoneQueue, unsent>>
        /\ ext' = "none" /\ next' = next + 1
        /\ outputQueue' \in {outputQueue, Append(outputQueue, {next})}
        /\ \/ outputInvChan' = outputInvChan
           \/ ext \in {"block", "tx"}
              /\ outputInvChan' = Append(outputInvChan, <<ext, next>>)
    BY <1>6 DEF ExtSends, notes
  <2>2. outputQueue' \in Seq(Packet)
    <3>1. Append(outputQueue, {next}) \in Seq(Packet)
      BY <1>1, <1>5, AppendProperties
    <3>2. QED
      BY <1>1, <2>1, <3>1, Zenon
  <2>3. outputInvChan' \in Seq({"block", "tx"} \X Nat)
    <3>1. ASSUME ext \in {"block", "tx"}
          PROVE  Append(outputInvChan, <<ext, next>>) \in Seq({"block", "tx"} \X Nat)
      <4>1. <<ext, next>> \in {"block", "tx"} \X Nat
        BY <1>1, <3>1
      <4>2. QED
        BY <1>1, <4>1, AppendProperties
    <3>2. QED
      BY <1>1, <2>1, <3>1, Zenon
  <2>4. QED
    BY <1>5, <2>1, <2>2, <2>3, ElsewhereInv
<1>7. CASE InSends
  <2>1. /\ UNCHANGED <<qVars, oVars, sendQueue, sendDoneQueue, unsent>>
        /\ ext' = ext /\ next' = next + 1 /\ outputInvChan' = outputInvChan
        /\ outputQueue' = Append(outputQueue, {next})
    BY <1>7 DEF InSends, notes
  <2>2. outputQueue' \in Seq(Packet)
    BY <1>1, <1>5, <2>1, AppendProperties
  <2>3. QED
    BY <1>1, <1>5, <2>1, <2>2, ElsewhereInv
<1>8. CASE In /\ ~InSends
  BY <1>2, <1>8 DEF In, InLoops, InReads, InReadFails, InNotes, InHandles, InChecks,
                    InAnswered, InExits, InQuits, chans, notes
<1>9. CASE Stall
  BY <1>2, <1>9, Zenon DEF Stall, StallListens, StallStops, notes
<1>10. CASE QueueTakes
  <2>1. /\ queue = "run" /\ outputQueue # <<>>
        /\ queuePacket(Head(outputQueue)) /\ outputQueue' = Tail(outputQueue)
        /\ UNCHANGED <<oVars, eVars, invSendQueue, outputInvChan, sendQueue,
                       sendDoneQueue>>
    BY <1>10 DEF QueueTakes
  <2>2. Head(outputQueue) \in Packet /\ Tail(outputQueue) \in Seq(Packet)
    BY <1>1, <2>1, HeadTailProperties
  <2>3. QED
    BY <1>1, <2>1, <2>2, queuePacketInv
<1>11. CASE QueueTakesInv
  <2> DEFINE iv == Head(outputInvChan)
  <2>1. /\ queue = "run" /\ outputInvChan # <<>>
        /\ outputInvChan' = Tail(outputInvChan)
        /\ UNCHANGED <<oVars, eVars, outputQueue, sendQueue, sendDoneQueue>>
    BY <1>11 DEF QueueTakesInv
  <2>2. iv \in {"block", "tx"} \X Nat
        /\ Tail(outputInvChan) \in Seq({"block", "tx"} \X Nat)
    BY <1>1, <2>1, HeadTailProperties
  <2>3. {iv[2]} \in Packet /\ invSendQueue \cup {iv[2]} \in Packet
    BY <1>1, <2>2, Zenon DEF Packet
  <2>4. CASE iv[1] = "block"
    <3>1. queuePacket({iv[2]}) /\ UNCHANGED invSendQueue
      BY <1>11, <2>4 DEF QueueTakesInv
    <3>2. QED
      BY <1>1, <2>1, <2>2, <2>3, <3>1, queuePacketInv
  <2>5. CASE iv[1] # "block"
    <3>1. /\ invSendQueue' = invSendQueue \cup {iv[2]}
          /\ UNCHANGED <<queue, held, waiting, pendingMsgs, unsent>>
      BY <1>11, <2>5 DEF QueueTakesInv
    <3>2. QED
      BY <1>1, <2>1, <2>2, <2>3, <3>1, TrickleLaterInv
  <2>6. QED
    BY <2>4, <2>5
<1>12. CASE QueueTrickles
  <2>1. /\ queue = "run" /\ invSendQueue' = {}
        /\ UNCHANGED <<oVars, eVars, outputQueue, outputInvChan, sendQueue,
                       sendDoneQueue>>
    BY <1>12 DEF QueueTrickles, chans
  <2>2. {} \in Packet
    BY DEF Packet
  <2>3. CASE \E m \in (SUBSET invSendQueue) \ {{}} : queuePacket(m)
    <3>1. PICK m \in SUBSET invSendQueue : queuePacket(m)
      BY <2>3
    <3>2. m \in Packet
      BY <1>1, <3>1 DEF Packet
    <3>3. QED
      BY <1>1, <2>1, <2>2, <3>1, <3>2, queuePacketInv
  <2>4. CASE UNCHANGED <<queue, held, waiting, pendingMsgs, unsent>>
    BY <1>1, <2>1, <2>2, <2>4, TrickleLaterInv
  <2>5. QED
    BY <1>12, <2>3, <2>4 DEF QueueTrickles
<1>13. CASE QueueSendDone \/ QueuePuts \/ QueueQuits \/ QueueDrains
  BY <1>13, QueueSendDoneInv, QueuePutsInv, QueueQuitsInv, QueueDrainsInv
<1>14. CASE Out
  BY <1>14, OutKeepsInv, OutWritesInv, OutWriteFailsInv, OutDrainsInv DEF Out
<1>15. CASE UNCHANGED vars
  BY <1>2, <1>15 DEF vars, chans, notes
<1>16. QED
  BY <1>3, <1>4, <1>6, <1>7, <1>8, <1>9, <1>10, <1>11, <1>12, <1>13, <1>14, <1>15
     DEF Next, Queue

\* The inductive invariant always holds.
THEOREM IOInvariant == Spec => []IOInv
BY InitInv, StepInv, PTL DEF Spec

\* Never are two messages between queueHandler and outHandler, counting the
\* acknowledgement: a send on one of their channels never blocks for good.
THEOREM OneAlwaysInFlight == Spec => []OneInFlight
<1>1. IOInv => OneInFlight
  BY DEF IOInv
<1>2. QED
  BY <1>1, IOInvariant, PTL

\* outHandler writes packets in the order in which queueHandler made them.
THEOREM WrittenInOrder == Spec => WireOrder
<1>1. IOInv /\ [Next]_vars
      => [(out = "writing" /\ out' = "sent") => sending = Head(unsent)]_vars
  BY WriteNext
<1>2. QED
  BY <1>1, IOInvariant, PTL DEF Spec, WireOrder
-----------------------------------------------------------------------------
\* Some message of s has the number x; only one of them has.
Holds(s, x) == \E i \in DOMAIN s : x \in s[i]

Once(s, x) == \A i, j \in DOMAIN s : x \in s[i] /\ x \in s[j] => i = j

\* The message with the number x is with queueHandler or outHandler, or between
\* somebody who queued it and them.
OnItsWay(x) ==
    \/ Holds(outputQueue, x) \/ x \in held \/ Holds(pendingMsgs, x)
    \/ Holds(sendQueue, x) \/ x \in sending

\* ... in one place only.
OnePlace(x) ==
    /\ Once(outputQueue, x) /\ Once(pendingMsgs, x)
    /\ Holds(outputQueue, x) => x \notin held /\ ~Holds(pendingMsgs, x)
    /\ Holds(outputQueue, x) \/ x \in held \/ Holds(pendingMsgs, x) =>
         ~Holds(sendQueue, x) /\ x \notin sending
    /\ x \in held => ~Holds(pendingMsgs, x)
    /\ Holds(sendQueue, x) => x \notin sending

\* The inventory vector with the number x waits to be announced.
Named(s, x) == \E i \in DOMAIN s : s[i][2] = x

Announced(x) == x \in invSendQueue \/ Named(outputInvChan, x)

\* Numbers are given out once: none beyond next is in use.
Numbered ==
    /\ next > 0
    /\ \A x \in Nat : x = 0 \/ x >= next => ~OnItsWay(x) /\ ~Announced(x)

\* A handler's hands are empty between two messages, and so is what a handler
\* that has ended was to empty.
Hands ==
    /\ queue # "put" => held = {}
    /\ out \notin {"note", "write", "writing", "failed"} => sending = {}
    /\ queue = "done" => pendingMsgs = <<>>
    /\ out = "done" => queue = "done" /\ sendQueue = <<>>

\* A listener waits for a message that is in one place until its doneChan is
\* signalled, and nowhere from then on.
WaitsForOne ==
    in = "wait" => OnePlace(waited) /\ (signalled <=> ~OnItsWay(waited))

\* What inHandler knows of the message it waits on.
Waits ==
    /\ signalled \in BOOLEAN /\ waited \in Nat /\ waited < next
    /\ answer \in {"run", "hdone", "exit"}
    /\ ~Announced(waited)
    /\ in # "wait" => waited = 0 /\ ~signalled

AnswerInv == Numbered /\ Hands /\ Waits /\ WaitsForOne

\* What is in a sequence of messages, as its ends change.
LEMMA HoldsNone == \A x : ~Holds(<<>>, x) /\ Once(<<>>, x)
BY DEF Holds, Once

\* A sequence of one message.
LEMMA HoldsOne ==
    ASSUME NEW m \in Packet, NEW x
    PROVE  Holds(<<m>>, x) <=> x \in m
BY DEF Holds

\* A message less: its numbers are gone, those of the others are not.
LEMMA HoldsTail ==
    ASSUME NEW s \in Seq(Packet), s # <<>>, NEW x
    PROVE  /\ Holds(s, x) <=> x \in Head(s) \/ Holds(Tail(s), x)
           /\ Once(s, x) => Once(Tail(s), x) /\ ~(x \in Head(s) /\ Holds(Tail(s), x))
<1>1. /\ Tail(s) \in Seq(Packet) /\ Len(Tail(s)) = Len(s) - 1
      /\ \A i \in 1 .. Len(s) - 1 : Tail(s)[i] = s[i + 1]
      /\ Len(s) \in Nat \ {0} /\ Head(s) = s[1]
      /\ DOMAIN s = 1 .. Len(s) /\ DOMAIN Tail(s) = 1 .. Len(s) - 1
  BY HeadTailProperties, EmptySeq
<1>2. \A i \in DOMAIN Tail(s) : i + 1 \in DOMAIN s /\ Tail(s)[i] = s[i + 1] /\ i + 1 # 1
  BY <1>1
<1>3. \A i \in DOMAIN s : i = 1 \/ \E j \in DOMAIN Tail(s) : i = j + 1
  <2> TAKE i \in DOMAIN s
  <2>1. i = 1 \/ (i - 1 \in DOMAIN Tail(s) /\ i = (i - 1) + 1)
    BY <1>1
  <2>2. QED
    BY <2>1
<1>4. 1 \in DOMAIN s /\ \A i, j \in DOMAIN Tail(s) : i + 1 = j + 1 => i = j
  BY <1>1
<1>5. Holds(s, x) <=> x \in Head(s) \/ Holds(Tail(s), x)
  <2>1. ASSUME NEW i \in DOMAIN s, x \in s[i]
        PROVE  x \in Head(s) \/ Holds(Tail(s), x)
    <3>1. CASE i = 1
      BY <1>1, <2>1, <3>1
    <3>2. CASE \E j \in DOMAIN Tail(s) : i = j + 1
      BY <1>2, <2>1, <3>2, Zenon DEF Holds
    <3>3. QED
      BY <1>3, <3>1, <3>2
  <2>2. ASSUME NEW i \in DOMAIN Tail(s), x \in Tail(s)[i]
        PROVE  Holds(s, x)
    BY <1>2, <2>2, Zenon DEF Holds
  <2>3. x \in Head(s) => Holds(s, x)
    BY <1>1, <1>4, Zenon DEF Holds
  <2>4. QED
    BY <2>1, <2>2, <2>3, Zenon DEF Holds
<1>6. Once(s, x) => Once(Tail(s), x)
  BY <1>2, <1>4, Zenon DEF Once
<1>7. Once(s, x) => ~(x \in Head(s) /\ Holds(Tail(s), x))
  BY <1>1, <1>2, <1>4, ZenonT(60) DEF Once, Holds
<1>8. QED
  BY <1>5, <1>6, <1>7

\* A message more.
LEMMA HoldsAppend ==
    ASSUME NEW s \in Seq(Packet), NEW m \in Packet, NEW x
    PROVE  /\ Holds(Append(s, m), x) <=> Holds(s, x) \/ x \in m
           /\ Once(s, x) /\ ~(Holds(s, x) /\ x \in m) => Once(Append(s, m), x)
<1> DEFINE t == Append(s, m)
           n == Len(s) + 1
<1>1. /\ DOMAIN t = DOMAIN s \cup {n} /\ n \notin DOMAIN s /\ t[n] = m
      /\ \A i \in DOMAIN s : t[i] = s[i]
  BY AppendProperties, LenProperties
<1> HIDE DEF t, n
<1>2. Holds(t, x) <=> Holds(s, x) \/ x \in m
  BY <1>1 DEF Holds
<1>3. Once(s, x) /\ ~(Holds(s, x) /\ x \in m) => Once(t, x)
  BY <1>1 DEF Holds, Once
<1>4. QED
  BY <1>2, <1>3 DEF t

\* The same for a sequence of inventory vectors.
LEMMA NamedTail ==
    ASSUME NEW s \in Seq({"block", "tx"} \X Nat), s # <<>>, NEW x
    PROVE  Named(s, x) <=> Head(s)[2] = x \/ Named(Tail(s), x)
<1>1. /\ \A i \in 1 .. Len(s) - 1 : Tail(s)[i] = s[i + 1]
      /\ Len(s) \in Nat \ {0} /\ Head(s) = s[1]
      /\ DOMAIN s = 1 .. Len(s) /\ DOMAIN Tail(s) = 1 .. Len(s) - 1
  BY HeadTailProperties, EmptySeq
<1>2. \A i \in DOMAIN Tail(s) : i + 1 \in DOMAIN s /\ Tail(s)[i] = s[i + 1]
  BY <1>1, SMTT(30)
<1>3. \A i \in DOMAIN s : i = 1 \/ \E j \in DOMAIN Tail(s) : i = j + 1
  <2> TAKE i \in DOMAIN s
  <2>1. i = 1 \/ (i - 1 \in DOMAIN Tail(s) /\ i = (i - 1) + 1)
    BY <1>1
  <2>2. QED
    BY <2>1
<1>4. 1 \in DOMAIN s
  BY <1>1
<1>5. QED
  BY <1>1, <1>2, <1>3, <1>4, ZenonT(60) DEF Named

\* An inventory vector more.
LEMMA NamedAppend ==
    ASSUME NEW s \in Seq({"block", "tx"} \X Nat), NEW e \in {"block", "tx"} \X Nat, NEW x
    PROVE  Named(Append(s, e), x) <=> Named(s, x) \/ e[2] = x
<1> DEFINE t == Append(s, e)
           n == Len(s) + 1
<1>1. /\ DOMAIN t = DOMAIN s \cup {n} /\ t[n] = e
      /\ \A i \in DOMAIN s : t[i] = s[i]
  BY AppendProperties, LenProperties
<1> HIDE DEF t, n
<1>2. Named(t, x) <=> Named(s, x) \/ e[2] = x
  BY <1>1 DEF Named
<1>3. QED
  BY <1>2 DEF t

\* Nobody waits at the start.
LEMMA AnswerInit == Init => AnswerInv
<1> SUFFICES ASSUME Init PROVE AnswerInv
  OBVIOUS
<1>1. /\ outputQueue = <<>> /\ pendingMsgs = <<>> /\ sendQueue = <<>>
      /\ outputInvChan = <<>> /\ held = {} /\ sending = {} /\ invSendQueue = {}
  BY DEF Init
<1>2. /\ next = 1 /\ waited = 0 /\ signalled = FALSE /\ in = "run" /\ answer = "run"
      /\ queue = "run" /\ out = "run"
  BY DEF Init
<1>3. \A x : ~OnItsWay(x) /\ ~Announced(x)
  <2>1. \A x : ~Named(<<>>, x)
    BY DEF Named
  <2>2. QED
    BY <1>1, <2>1, HoldsNone, Zenon DEF OnItsWay, Announced
<1>4. Numbered /\ Hands
  BY <1>1, <1>2, <1>3 DEF Numbered, Hands
<1>5. Waits
  <2>1. signalled \in BOOLEAN /\ ~signalled
    BY <1>2, Zenon
  <2>2. waited \in Nat /\ waited < next
    BY <1>2
  <2>3. QED
    BY <1>2, <1>3, <2>1, <2>2, Zenon DEF Waits
<1>6. WaitsForOne
  BY <1>2, Zenon DEF WaitsForOne
<1>7. QED
  BY <1>4, <1>5, <1>6 DEF AnswerInv

\* A step that moves messages on and signals those of m.
Moved(m) ==
    /\ next' = next /\ waited' = waited /\ in' = in /\ answer' = answer
    /\ signalled' = (signalled \/ waited \in m)
    /\ \A x \in Nat :
         /\ x \in m => OnItsWay(x)
         /\ Announced(x)' => Announced(x)
         /\ OnItsWay(x)' => OnItsWay(x) \/ Announced(x)
         /\ OnePlace(x) /\ ~Announced(x) =>
              OnePlace(x)' /\ (OnItsWay(x)' <=> OnItsWay(x) /\ x \notin m)

\* Such a step keeps a waiter's message in one place until it is signalled.
LEMMA MovedKeeps ==
    ASSUME AnswerInv, next \in Nat, NEW m, Moved(m), Hands'
    PROVE  AnswerInv'
<1>1. /\ Numbered /\ Waits /\ WaitsForOne
      /\ next' = next /\ waited' = waited /\ in' = in /\ answer' = answer
      /\ signalled' = (signalled \/ waited \in m)
  BY DEF AnswerInv, Moved
<1>2. \A x \in Nat :
        /\ x \in m => OnItsWay(x)
        /\ Announced(x)' => Announced(x)
        /\ OnItsWay(x)' => OnItsWay(x) \/ Announced(x)
  BY Zenon DEF Moved
<1>3. \A x \in Nat : OnePlace(x) /\ ~Announced(x) =>
        OnePlace(x)' /\ (OnItsWay(x)' <=> OnItsWay(x) /\ x \notin m)
  BY Zenon DEF Moved
<1>4. Numbered'
  BY <1>1, <1>2 DEF Numbered
<1>5. waited \in Nat /\ ~Announced(waited) /\ signalled \in BOOLEAN
  BY <1>1 DEF Waits
<1>6. ~Announced(waited)'
  BY <1>1, <1>2, <1>5
<1>7. in # "wait" => waited \notin m
  BY <1>1, <1>2, <1>5 DEF Waits, Numbered
<1>8. signalled' \in BOOLEAN /\ (in # "wait" => ~signalled')
  BY <1>1, <1>5, <1>7, Zenon DEF Waits
<1>9. Waits'
  BY <1>1, <1>5, <1>6, <1>8, Zenon DEF Waits
<1>10. WaitsForOne'
  <2>1. SUFFICES ASSUME in = "wait"
                 PROVE  OnePlace(waited)' /\ (signalled' <=> ~OnItsWay(waited)')
    BY <1>1, Zenon DEF WaitsForOne
  <2>2. OnePlace(waited) /\ (signalled <=> ~OnItsWay(waited))
    BY <1>1, <2>1, Zenon DEF WaitsForOne
  <2>3. OnePlace(waited)' /\ (OnItsWay(waited)' <=> OnItsWay(waited) /\ waited \notin m)
    BY <1>1, <1>3, <1>5, <2>2
  <2>4. QED
    BY <1>1, <2>2, <2>3, Zenon
<1>11. QED
  BY <1>4, <1>9, <1>10 DEF AnswerInv

\* A step that moves nothing.
LEMMA StillMoved ==
    ASSUME Waits,
           UNCHANGED <<outputQueue, held, pendingMsgs, sendQueue, sending, invSendQueue,
                       outputInvChan, next, waited, in, answer, signalled>>
    PROVE  Moved({})
<1>1. \A x : /\ OnItsWay(x)' <=> OnItsWay(x)
             /\ OnePlace(x)' <=> OnePlace(x)
             /\ Announced(x)' <=> Announced(x)
  BY ZenonT(60) DEF OnItsWay, OnePlace, Announced, Holds, Once, Named
<1>2. signalled' = (signalled \/ waited \in {})
  BY Zenon DEF Waits
<1>3. QED
  BY <1>1, <1>2, Zenon DEF Moved

\* queuePacket keeps a message in its hand or behind the others.
LEMMA PacketKept ==
    ASSUME Types, Idle, Hands, queue = "run", NEW m \in Packet, queuePacket(m), NEW x
    PROVE  /\ x \in held' \/ Holds(pendingMsgs', x) <=> Holds(pendingMsgs, x) \/ x \in m
           /\ Once(pendingMsgs, x) /\ ~(x \in m /\ Holds(pendingMsgs, x)) =>
                Once(pendingMsgs', x) /\ ~(x \in held' /\ Holds(pendingMsgs', x))
           /\ queue' = "put" \/ (queue' = "run" /\ held' = {})
<1>1. held = {} /\ pendingMsgs \in Seq(Packet) /\ waiting \in BOOLEAN
  BY DEF Hands, Types
<1>2. CASE waiting
  <2>1. pendingMsgs' = Append(pendingMsgs, m) /\ held' = held /\ queue' = queue
    BY <1>2, Zenon DEF queuePacket
  <2>2. QED
    BY <1>1, <2>1, HoldsAppend
<1>3. CASE ~waiting
  <2>1. pendingMsgs' = pendingMsgs /\ held' = m /\ queue' = "put"
    BY <1>3, Zenon DEF queuePacket
  <2>2. pendingMsgs = <<>>
    BY <1>3, Zenon DEF Idle
  <2>3. QED
    BY <2>1, <2>2, HoldsNone
<1>4. QED
  BY <1>1, <1>2, <1>3

\* A message that queueHandler takes, or an announcement it makes one of.
LEMMA PacketMoved ==
    ASSUME Types, Idle, Hands, Waits, queue = "run", NEW m \in Packet, queuePacket(m),
           UNCHANGED <<oVars, sendQueue, next, waited, in, answer, signalled>>,
           \A x \in Nat :
             /\ x \in m => Holds(outputQueue, x) \/ Announced(x)
             /\ Holds(outputQueue, x) =>
                  (Holds(outputQueue, x)' /\ x \notin m) \/ x \in m \/ Announced(x)
             /\ Holds(outputQueue, x)' => Holds(outputQueue, x)
             /\ Once(outputQueue, x) =>
                  Once(outputQueue, x)' /\ ~(x \in m /\ Holds(outputQueue, x)' /\ ~Announced(x))
             /\ Announced(x)' => Announced(x)
    PROVE  Moved({}) /\ Hands'
<1>1. ASSUME NEW x \in Nat
      PROVE  /\ Announced(x)' => Announced(x)
             /\ OnItsWay(x)' => OnItsWay(x) \/ Announced(x)
             /\ OnePlace(x) /\ ~Announced(x) =>
                  OnePlace(x)' /\ (OnItsWay(x)' <=> OnItsWay(x))
  <2>1. /\ x \in held' \/ Holds(pendingMsgs', x) <=> Holds(pendingMsgs, x) \/ x \in m
        /\ Once(pendingMsgs, x) /\ ~(x \in m /\ Holds(pendingMsgs, x)) =>
             Once(pendingMsgs', x) /\ ~(x \in held' /\ Holds(pendingMsgs', x))
    BY PacketKept
  <2>2. held = {} /\ (Holds(sendQueue', x) <=> Holds(sendQueue, x)) /\ sending' = sending
    BY DEF Hands, oVars
  <2>3. OnItsWay(x)' => OnItsWay(x) \/ Announced(x)
    BY <2>1, <2>2 DEF OnItsWay
  <2>4. ASSUME OnePlace(x), ~Announced(x)
        PROVE  OnePlace(x)' /\ (OnItsWay(x)' <=> OnItsWay(x))
    BY <2>1, <2>2, <2>4, Zenon DEF OnItsWay, OnePlace
  <2>5. QED
    BY <2>3, <2>4
<1>2. signalled' = (signalled \/ waited \in {})
  BY Zenon DEF Waits
<1>3. Moved({})
  BY <1>1, <1>2, Zenon DEF Moved
<1>4. Hands'
  <2>1. queue' = "put" \/ (queue' = "run" /\ held' = {})
    BY PacketKept
  <2>2. QED
    BY <2>1 DEF Hands, oVars
<1>5. QED
  BY <1>3, <1>4

\* queueHandler takes a message.
LEMMA TakesMoved ==
    ASSUME IOInv, AnswerInv, QueueTakes
    PROVE  Moved({}) /\ Hands'
<1>1. /\ Types /\ Idle /\ Hands /\ Waits /\ outputQueue \in Seq(Packet)
  BY DEF IOInv, AnswerInv, Types
<1>2. /\ queue = "run" /\ outputQueue # <<>> /\ queuePacket(Head(outputQueue))
      /\ outputQueue' = Tail(outputQueue)
      /\ UNCHANGED <<oVars, sendQueue, next, waited, in, answer, signalled,
                     invSendQueue, outputInvChan>>
  BY DEF QueueTakes, inVars, eVars
<1>3. Head(outputQueue) \in Packet
  BY <1>1, <1>2, HeadTailProperties
<1>4. \A x : Announced(x)' <=> Announced(x)
  BY <1>2 DEF Announced, Named
<1>5. \A x : /\ Holds(outputQueue, x) <=> x \in Head(outputQueue) \/ Holds(outputQueue, x)'
             /\ Once(outputQueue, x) =>
                  Once(outputQueue, x)' /\ ~(x \in Head(outputQueue) /\ Holds(outputQueue, x)')
  BY <1>1, <1>2, HoldsTail
<1>6. QED
  BY <1>1, <1>2, <1>3, <1>4, <1>5, PacketMoved

\* queueHandler takes an inventory vector.
LEMMA TakesInvMoved ==
    ASSUME IOInv, AnswerInv, QueueTakesInv
    PROVE  Moved({}) /\ Hands'
<1> DEFINE iv == Head(outputInvChan)
<1>1. /\ Types /\ Idle /\ Hands /\ Waits
      /\ outputInvChan \in Seq({"block", "tx"} \X Nat)
  BY DEF IOInv, AnswerInv, Types
<1>2. /\ queue = "run" /\ outputInvChan # <<>>
      /\ outputInvChan' = Tail(outputInvChan)
      /\ UNCHANGED <<oVars, sendQueue, next, waited, in, answer, signalled, outputQueue>>
  BY DEF QueueTakesInv, inVars, eVars
<1>3. \A x : Named(outputInvChan, x) <=> iv[2] = x \/ Named(outputInvChan, x)'
  BY <1>1, <1>2, NamedTail
<1>4. iv[2] \in Nat
  BY <1>1, <1>2, HeadTailProperties
<1>5. \A x : (Holds(outputQueue, x)' <=> Holds(outputQueue, x))
             /\ (Once(outputQueue, x)' <=> Once(outputQueue, x))
  BY <1>2 DEF Holds, Once
<1>6. CASE iv[1] = "block"
  <2>1. queuePacket({iv[2]}) /\ invSendQueue' = invSendQueue
    BY <1>6 DEF QueueTakesInv
  <2>2. {iv[2]} \in Packet
    BY <1>4 DEF Packet
  <2>3. \A x : /\ Announced(x)' => Announced(x)
               /\ x \in {iv[2]} => Announced(x)
    BY <1>3, <2>1 DEF Announced
  <2>4. QED
    BY <1>1, <1>2, <1>5, <2>1, <2>2, <2>3, PacketMoved, ZenonT(60)
<1>7. CASE iv[1] # "block"
  <2>1. /\ invSendQueue' = invSendQueue \cup {iv[2]}
        /\ UNCHANGED <<queue, held, waiting, pendingMsgs>>
    BY <1>7 DEF QueueTakesInv
  <2>2. \A x : Announced(x)' => Announced(x)
    BY <1>3, <2>1 DEF Announced
  <2>3. \A x : (OnItsWay(x)' <=> OnItsWay(x)) /\ (OnePlace(x)' <=> OnePlace(x))
    BY <1>2, <2>1, ZenonT(60) DEF OnItsWay, OnePlace, Holds, Once, oVars
  <2>4. signalled' = (signalled \/ waited \in {})
    BY <1>1, <1>2, Zenon DEF Waits
  <2>5. Moved({})
    BY <1>2, <2>2, <2>3, <2>4, Zenon DEF Moved
  <2>6. Hands'
    BY <1>1, <1>2, <2>1 DEF Hands, oVars
  <2>7. QED
    BY <2>5, <2>6
<1>8. QED
  BY <1>6, <1>7

\* The trickle.
LEMMA TricklesMoved ==
    ASSUME IOInv, AnswerInv, QueueTrickles
    PROVE  Moved({}) /\ Hands'
<1>1. Types /\ Idle /\ Hands /\ Waits /\ invSendQueue \in Packet
  BY DEF IOInv, AnswerInv, Types
<1>2. /\ queue = "run" /\ invSendQueue' = {}
      /\ UNCHANGED <<oVars, sendQueue, next, waited, in, answer, signalled, outputQueue,
                     outputInvChan>>
  BY DEF QueueTrickles, inVars, eVars, chans
<1>3. \A x : /\ Announced(x)' => Announced(x)
             /\ x \in invSendQueue => Announced(x)
             /\ Holds(outputQueue, x)' <=> Holds(outputQueue, x)
             /\ Once(outputQueue, x)' <=> Once(outputQueue, x)
  BY <1>2 DEF Announced, Named, Holds, Once
<1>4. CASE \E m \in (SUBSET invSendQueue) \ {{}} : queuePacket(m)
  <2>1. PICK m \in SUBSET invSendQueue : queuePacket(m)
    BY <1>4
  <2>2. m \in Packet /\ \A x : x \in m => Announced(x)
    BY <1>1, <1>3, <2>1, Zenon DEF Packet
  <2>3. QED
    BY <1>1, <1>2, <1>3, <2>1, <2>2, PacketMoved
<1>5. CASE UNCHANGED <<queue, held, waiting, pendingMsgs, unsent>>
  <2>1. \A x : (OnItsWay(x)' <=> OnItsWay(x)) /\ (OnePlace(x)' <=> OnePlace(x))
    BY <1>2, <1>5, ZenonT(60) DEF OnItsWay, OnePlace, Holds, Once, oVars
  <2>2. signalled' = (signalled \/ waited \in {})
    BY <1>1, <1>2, Zenon DEF Waits
  <2>3. Moved({})
    BY <1>2, <1>3, <2>1, <2>2, Zenon DEF Moved
  <2>4. Hands'
    BY <1>1, <1>2, <1>5 DEF Hands, oVars
  <2>5. QED
    BY <2>3, <2>4
<1>6. QED
  BY <1>4, <1>5 DEF QueueTrickles

\* queueHandler hands the next message to outHandler, or stops.
LEMMA QueueMoved ==
    ASSUME IOInv, AnswerInv, QueueSendDone \/ QueuePuts \/ QueueQuits
    PROVE  Moved({}) /\ Hands'
<1>1. /\ Types /\ Hands /\ Waits /\ pendingMsgs \in Seq(Packet) /\ held \in Packet
  BY DEF IOInv, AnswerInv, Types
<1>2. /\ UNCHANGED <<oVars, next, waited, in, answer, signalled, outputQueue,
                     invSendQueue, outputInvChan>>
      /\ out # "done" \/ queue = "done"
  BY <1>1 DEF QueueSendDone, QueuePuts, QueueQuits, inVars, eVars, chans, notes, Hands
<1>3. signalled' = (signalled \/ waited \in {})
  BY <1>1, <1>2, Zenon DEF Waits
<1>4. CASE UNCHANGED <<held, pendingMsgs, sendQueue>> /\ queue = "run" /\ queue' # "done"
  <2>1. Moved({})
    BY <1>1, <1>2, <1>4, StillMoved DEF oVars
  <2>2. Hands'
    BY <1>1, <1>2, <1>4 DEF Hands, oVars
  <2>3. QED
    BY <2>1, <2>2
<1>5. ASSUME \A x : /\ OnItsWay(x)' <=> OnItsWay(x)
                    /\ OnePlace(x) => OnePlace(x)'
      PROVE  Moved({})
  <2>1. \A x : Announced(x)' <=> Announced(x)
    BY <1>2 DEF Announced, Named
  <2>2. QED
    BY <1>2, <1>3, <1>5, <2>1, Zenon DEF Moved
<1>6. CASE QueueSendDone /\ pendingMsgs # <<>>
  <2>1. /\ queue = "run" /\ queue' = "put" /\ held' = Head(pendingMsgs)
        /\ pendingMsgs' = Tail(pendingMsgs) /\ sendQueue' = sendQueue
    BY <1>6 DEF QueueSendDone
  <2>2. held = {}
    BY <1>1, <2>1 DEF Hands
  <2>3. \A x : /\ Holds(pendingMsgs, x) <=> x \in Head(pendingMsgs) \/ Holds(pendingMsgs, x)'
               /\ Once(pendingMsgs, x) =>
                    Once(pendingMsgs, x)' /\ ~(x \in Head(pendingMsgs) /\ Holds(pendingMsgs, x)')
    BY <1>1, <1>6, <2>1, HoldsTail
  <2>4. \A x : /\ Holds(outputQueue, x)' <=> Holds(outputQueue, x)
               /\ Once(outputQueue, x)' <=> Once(outputQueue, x)
               /\ Holds(sendQueue, x)' <=> Holds(sendQueue, x)
               /\ x \in sending' <=> x \in sending
               /\ x \in held' <=> x \in Head(pendingMsgs)
    BY <1>2, <2>1 DEF Holds, Once, oVars
  <2>5. \A x : OnItsWay(x)' <=> OnItsWay(x)
    BY <2>2, <2>3, <2>4 DEF OnItsWay
  <2>6. \A x : OnePlace(x) => OnePlace(x)'
    BY <2>2, <2>3, <2>4 DEF OnePlace
  <2>7. Hands'
    BY <1>1, <1>2, <2>1 DEF Hands, oVars
  <2>8. QED
    BY <1>5, <2>5, <2>6, <2>7
<1>7. CASE QueuePuts
  <2>1. /\ queue = "put" /\ queue' = "run" /\ held' = {} /\ sendQueue = <<>>
        /\ sendQueue' = <<held>> /\ pendingMsgs' = pendingMsgs
    BY <1>7 DEF QueuePuts
  <2>2. \A x : /\ Holds(outputQueue, x)' <=> Holds(outputQueue, x)
               /\ Once(outputQueue, x)' <=> Once(outputQueue, x)
               /\ Holds(pendingMsgs, x)' <=> Holds(pendingMsgs, x)
               /\ Once(pendingMsgs, x)' <=> Once(pendingMsgs, x)
               /\ x \in sending' <=> x \in sending
    BY <1>2, <2>1 DEF Holds, Once, oVars
  <2>3. \A x : ~Holds(sendQueue, x) /\ (Holds(sendQueue, x)' <=> x \in held)
    BY <1>1, <2>1, HoldsNone, HoldsOne
  <2>4. \A x : OnItsWay(x)' <=> OnItsWay(x)
    BY <2>1, <2>2, <2>3 DEF OnItsWay
  <2>5. \A x : OnePlace(x) => OnePlace(x)'
    BY <2>1, <2>2, <2>3 DEF OnePlace
  <2>6. Hands'
    BY <1>1, <1>2, <2>1 DEF Hands, oVars
  <2>7. QED
    BY <1>5, <2>4, <2>5, <2>6
<1>8. CASE QueueQuits
  BY <1>4, <1>8 DEF QueueQuits, chans
<1>9. CASE QueueSendDone /\ pendingMsgs = <<>>
  BY <1>4, <1>9 DEF QueueSendDone
<1>10. QED
  BY <1>6, <1>7, <1>8, <1>9

\* On its way out queueHandler signals what it takes.
LEMMA DrainsMoved ==
    ASSUME IOInv, AnswerInv, QueueDrains
    PROVE  \E m : Moved(m) /\ Hands'
<1>1. /\ Types /\ Hands /\ Waits /\ pendingMsgs \in Seq(Packet)
      /\ outputQueue \in Seq(Packet) /\ outputInvChan \in Seq({"block", "tx"} \X Nat)
  BY DEF IOInv, AnswerInv, Types
<1>2. /\ queue = "drain" /\ out # "done"
      /\ UNCHANGED <<oVars, next, waited, in, answer, invSendQueue, held, sendQueue>>
  BY <1>1 DEF QueueDrains, inVars, eVars, Hands
<1>3. \A x : /\ x \in held' <=> x \in held
             /\ Holds(sendQueue, x)' <=> Holds(sendQueue, x)
             /\ x \in sending' <=> x \in sending
  BY <1>2 DEF Holds, oVars
<1>4. CASE /\ pendingMsgs # <<>> /\ Signal(Head(pendingMsgs))
           /\ pendingMsgs' = Tail(pendingMsgs)
           /\ UNCHANGED <<queue, outputQueue, outputInvChan>>
  <2> DEFINE m == Head(pendingMsgs)
  <2>1. \A x : /\ Holds(pendingMsgs, x) <=> x \in m \/ Holds(pendingMsgs, x)'
               /\ Once(pendingMsgs, x) =>
                    Once(pendingMsgs, x)' /\ ~(x \in m /\ Holds(pendingMsgs, x)')
               /\ Holds(outputQueue, x)' <=> Holds(outputQueue, x)
               /\ Once(outputQueue, x)' <=> Once(outputQueue, x)
               /\ Announced(x)' <=> Announced(x)
    <3>1. \A x : /\ Holds(outputQueue, x)' <=> Holds(outputQueue, x)
                 /\ Once(outputQueue, x)' <=> Once(outputQueue, x)
                 /\ Announced(x)' <=> Announced(x)
      BY <1>2, <1>4, Zenon DEF Holds, Once, Announced, Named
    <3>2. QED
      BY <1>1, <1>4, <3>1, HoldsTail
  <2>2. signalled' = (signalled \/ waited \in m)
    BY <1>4, Zenon DEF Signal
  <2> HIDE DEF m
  <2>3. \A x : (x \in m => OnItsWay(x)) /\ (OnItsWay(x)' => OnItsWay(x))
    BY <1>3, <2>1 DEF OnItsWay
  <2>4. \A x : OnePlace(x) => OnePlace(x)' /\ (OnItsWay(x)' <=> OnItsWay(x) /\ x \notin m)
    BY <1>3, <2>1 DEF OnItsWay, OnePlace
  <2>5. Moved(m)
    BY <1>2, <2>1, <2>2, <2>3, <2>4, Zenon DEF Moved
  <2>6. Hands'
    BY <1>1, <1>2, <1>4 DEF Hands, oVars
  <2>7. QED
    BY <2>5, <2>6
<1>5. CASE /\ outputQueue # <<>> /\ Signal(Head(outputQueue))
           /\ outputQueue' = Tail(outputQueue)
           /\ UNCHANGED <<queue, pendingMsgs, outputInvChan>>
  <2> DEFINE m == Head(outputQueue)
  <2>1. \A x : /\ Holds(outputQueue, x) <=> x \in m \/ Holds(outputQueue, x)'
               /\ Once(outputQueue, x) =>
                    Once(outputQueue, x)' /\ ~(x \in m /\ Holds(outputQueue, x)')
               /\ Holds(pendingMsgs, x)' <=> Holds(pendingMsgs, x)
               /\ Once(pendingMsgs, x)' <=> Once(pendingMsgs, x)
               /\ Announced(x)' <=> Announced(x)
    <3>1. \A x : /\ Holds(pendingMsgs, x)' <=> Holds(pendingMsgs, x)
                 /\ Once(pendingMsgs, x)' <=> Once(pendingMsgs, x)
                 /\ Announced(x)' <=> Announced(x)
      BY <1>2, <1>5 DEF Holds, Once, Announced, Named
    <3>2. QED
      BY <1>1, <1>5, <3>1, HoldsTail
  <2>2. signalled' = (signalled \/ waited \in m)
    BY <1>5, Zenon DEF Signal
  <2> HIDE DEF m
  <2>3. \A x : (x \in m => OnItsWay(x)) /\ (OnItsWay(x)' => OnItsWay(x))
    BY <1>3, <2>1 DEF OnItsWay
  <2>4. \A x : OnePlace(x) => OnePlace(x)' /\ (OnItsWay(x)' <=> OnItsWay(x) /\ x \notin m)
    BY <1>3, <2>1, Zenon DEF OnItsWay, OnePlace
  <2>5. Moved(m)
    BY <1>2, <2>1, <2>2, <2>3, <2>4, Zenon DEF Moved
  <2>6. Hands'
    BY <1>1, <1>2, <1>5 DEF Hands, oVars
  <2>7. QED
    BY <2>5, <2>6
<1>6. CASE /\ pendingMsgs = <<>> /\ queue' \in {"drain", "done"}
           /\ outputInvChan' = outputInvChan \/
                (outputInvChan # <<>> /\ outputInvChan' = Tail(outputInvChan))
           /\ UNCHANGED <<pendingMsgs, outputQueue, signalled>>
  <2>1. \A x : (OnItsWay(x)' <=> OnItsWay(x)) /\ (OnePlace(x)' <=> OnePlace(x))
    BY <1>2, <1>6, ZenonT(60) DEF OnItsWay, OnePlace, Holds, Once, oVars
  <2>2. \A x : Named(outputInvChan, x)' => Named(outputInvChan, x)
    BY <1>1, <1>6, NamedTail, Zenon
  <2>3. \A x : Announced(x)' => Announced(x)
    BY <1>2, <2>2 DEF Announced
  <2>4. signalled' = (signalled \/ waited \in {})
    BY <1>1, <1>6, Zenon DEF Waits
  <2>5. Moved({})
    BY <1>2, <2>1, <2>3, <2>4, Zenon DEF Moved
  <2>6. Hands'
    BY <1>1, <1>2, <1>6 DEF Hands, oVars
  <2>7. QED
    BY <2>5, <2>6
<1>7. QED
  BY <1>2, <1>4, <1>5, <1>6, Zenon DEF QueueDrains

\* outHandler takes a message, notes it, or finds nothing to do.
LEMMA OutMoved ==
    ASSUME IOInv, AnswerInv,
           \/ OutTakes \/ OutNotes \/ OutBegins \/ OutWriteFails
           \/ OutAcknowledges \/ OutQuits
    PROVE  Moved({}) /\ Hands'
<1>1. /\ Types /\ Hands /\ Waits
  BY DEF IOInv, AnswerInv
<1>2. /\ UNCHANGED <<queue, held, pendingMsgs, next, waited, in, answer, signalled,
                     outputQueue, invSendQueue, outputInvChan>>
  BY Zenon DEF OutTakes, OutNotes, OutBegins, OutWriteFails, OutAcknowledges, OutQuits,
     qVars, inVars, eVars, chans, notes
<1>3. CASE UNCHANGED <<sendQueue, sending>> /\ out # "done" /\ out' # "done"
           /\ (out' \notin {"note", "write", "writing", "failed"} =>
                 out \notin {"note", "write", "writing", "failed"})
  <2>1. Moved({})
    BY <1>1, <1>2, <1>3, StillMoved
  <2>2. Hands'
    BY <1>1, <1>2, <1>3 DEF Hands
  <2>3. QED
    BY <2>1, <2>2
<1>4. CASE OutTakes
  <2>1. /\ out = "run" /\ out' = "note" /\ sendQueue # <<>>
        /\ sending' = Head(sendQueue) /\ sendQueue' = <<>>
    BY <1>4 DEF OutTakes
  <2>2. PICK m \in Packet : sendQueue = <<m>>
    BY <1>1, <2>1 DEF Types
  <2>3. sending = {} /\ sending' = m
    BY <1>1, <2>1, <2>2 DEF Hands
  <2>4. \A x : /\ Holds(outputQueue, x)' <=> Holds(outputQueue, x)
               /\ Once(outputQueue, x)' <=> Once(outputQueue, x)
               /\ Holds(pendingMsgs, x)' <=> Holds(pendingMsgs, x)
               /\ Once(pendingMsgs, x)' <=> Once(pendingMsgs, x)
               /\ x \in held' <=> x \in held
               /\ Announced(x)' <=> Announced(x)
    BY <1>2, Zenon DEF Holds, Once, Announced, Named
  <2>5. \A x : (Holds(sendQueue, x) <=> x \in m) /\ ~Holds(sendQueue, x)'
    BY <2>1, <2>2, HoldsOne, HoldsNone
  <2>6. \A x : (OnItsWay(x)' <=> OnItsWay(x)) /\ (OnePlace(x) => OnePlace(x)')
    BY <2>3, <2>4, <2>5, Zenon DEF OnItsWay, OnePlace
  <2>7. signalled' = (signalled \/ waited \in {})
    BY <1>1, <1>2, Zenon DEF Waits
  <2>8. Moved({})
    BY <1>2, <2>4, <2>6, <2>7, Zenon DEF Moved
  <2>9. Hands'
    BY <1>1, <1>2, <2>1 DEF Hands
  <2>10. QED
    BY <2>8, <2>9
<1>5. CASE OutNotes \/ OutBegins \/ OutWriteFails \/ OutQuits
  BY <1>3, <1>5 DEF OutNotes, OutBegins, OutWriteFails, OutQuits, chans
<1>6. CASE OutAcknowledges
  BY <1>3, <1>6 DEF OutAcknowledges
<1>7. QED
  BY <1>4, <1>5, <1>6

\* outHandler signals the message it has written, passed over, failed to write,
\* or finds in its channel on its way out.
LEMMA SignalsMoved ==
    ASSUME IOInv, AnswerInv, OutSkips \/ OutWrites \/ OutFailed \/ OutDrains
    PROVE  \E m : Moved(m) /\ Hands'
<1>1. /\ Types /\ Hands /\ Waits
  BY DEF IOInv, AnswerInv
<1>2. /\ UNCHANGED <<queue, held, pendingMsgs, next, waited, in, answer, outputQueue,
                     invSendQueue, outputInvChan>>
  BY Zenon DEF OutSkips, OutWrites, OutFailed, OutDrains, qVars, inVars, eVars, chans
<1>3. \A x : /\ Holds(outputQueue, x)' <=> Holds(outputQueue, x)
             /\ Once(outputQueue, x)' <=> Once(outputQueue, x)
             /\ Holds(pendingMsgs, x)' <=> Holds(pendingMsgs, x)
             /\ Once(pendingMsgs, x)' <=> Once(pendingMsgs, x)
             /\ x \in held' <=> x \in held
             /\ Announced(x)' <=> Announced(x)
  BY <1>2, ZenonT(60) DEF Holds, Once, Announced, Named
<1>4. CASE OutSkips \/ OutWrites \/ OutFailed
  <2>1. /\ Signal(sending) /\ sending' = {} /\ sendQueue' = sendQueue
        /\ out' \in {"sent", "run"}
    BY <1>4 DEF OutSkips, OutWrites, OutFailed, chans
  <2>2. \A x : (Holds(sendQueue, x)' <=> Holds(sendQueue, x)) /\ x \notin sending'
    BY <2>1 DEF Holds
  <2>3. \A x : /\ x \in sending => OnItsWay(x)
               /\ OnItsWay(x)' => OnItsWay(x)
               /\ OnePlace(x) =>
                    OnePlace(x)' /\ (OnItsWay(x)' <=> OnItsWay(x) /\ x \notin sending)
    BY <1>3, <2>2, ZenonT(60) DEF OnItsWay, OnePlace
  <2>4. Moved(sending)
    BY <1>2, <1>3, <2>1, <2>3, Zenon DEF Moved, Signal
  <2>5. Hands'
    BY <1>1, <1>2, <2>1 DEF Hands
  <2>6. QED
    BY <2>4, <2>5
<1>5. CASE OutDrains /\ sendQueue # <<>>
  <2>1. /\ Signal(Head(sendQueue)) /\ sendQueue' = <<>> /\ out' = out
        /\ out = "drain" /\ sending' = sending
    BY <1>5 DEF OutDrains
  <2>2. PICK m \in Packet : sendQueue = <<m>>
    BY <1>1, <1>5, Zenon DEF Types
  <2>3. m = Head(sendQueue)
    BY <2>2
  <2>4. \A x : /\ Holds(sendQueue, x) <=> x \in m
               /\ ~Holds(sendQueue, x)'
               /\ x \in sending' <=> x \in sending
    BY <2>1, <2>2, HoldsOne, HoldsNone
  <2>5. \A x : /\ x \in m => OnItsWay(x)
               /\ OnItsWay(x)' => OnItsWay(x)
               /\ OnePlace(x) =>
                    OnePlace(x)' /\ (OnItsWay(x)' <=> OnItsWay(x) /\ x \notin m)
    BY <1>3, <2>4, ZenonT(60) DEF OnItsWay, OnePlace
  <2>6. signalled' = (signalled \/ waited \in m)
    BY <2>1, <2>3, Zenon DEF Signal
  <2>7. Moved(m)
    BY <1>2, <1>3, <2>5, <2>6, Zenon DEF Moved
  <2>8. Hands'
    BY <1>1, <1>2, <2>1 DEF Hands
  <2>9. QED
    BY <2>7, <2>8
<1>6. CASE OutDrains /\ sendQueue = <<>>
  <2>1. /\ out = "drain" /\ queue = "done" /\ out' = "done"
        /\ UNCHANGED <<sendQueue, sending, signalled>>
    BY <1>6 DEF OutDrains
  <2>2. Moved({})
    BY <1>1, <1>2, <2>1, StillMoved
  <2>3. Hands'
    BY <1>1, <1>2, <1>6, <2>1 DEF Hands
  <2>4. QED
    BY <2>2, <2>3
<1>7. QED
  BY <1>4, <1>5, <1>6

\* A message or an inventory vector with the next number is queued.
LEMMA NextQueued ==
    ASSUME IOInv, AnswerInv,
           UNCHANGED <<qVars, oVars, sendQueue>>, next' = next + 1,
           \/ outputQueue' = Append(outputQueue, {next}) /\ outputInvChan' = outputInvChan
           \/ /\ ext \in {"block", "tx"} /\ outputQueue' = outputQueue
              /\ outputInvChan' = Append(outputInvChan, <<ext, next>>)
    PROVE  /\ Numbered' /\ Hands'
           /\ \A x : x # next =>
                /\ Announced(x)' <=> Announced(x)
                /\ OnItsWay(x)' <=> OnItsWay(x)
                /\ OnePlace(x) => OnePlace(x)'
           /\ outputInvChan' = outputInvChan =>
                \A x : x = next => OnePlace(x)' /\ OnItsWay(x)' /\ ~Announced(x)'
<1>1. /\ outputQueue \in Seq(Packet) /\ outputInvChan \in Seq({"block", "tx"} \X Nat)
      /\ next \in Nat /\ Numbered /\ Hands
  BY Zenon DEF IOInv, AnswerInv, Types
<1>2. {next} \in Packet
  BY <1>1 DEF Packet
<1>3. ~OnItsWay(next) /\ ~Announced(next)
  BY <1>1 DEF Numbered
<1>4. \A x : /\ x \in held' <=> x \in held
             /\ x \in sending' <=> x \in sending
             /\ x \in invSendQueue' <=> x \in invSendQueue
             /\ Holds(pendingMsgs, x)' <=> Holds(pendingMsgs, x)
             /\ Once(pendingMsgs, x)' <=> Once(pendingMsgs, x)
             /\ Holds(sendQueue, x)' <=> Holds(sendQueue, x)
  BY Zenon DEF Holds, Once, qVars, oVars
<1>5. Hands'
  BY <1>1, Zenon DEF Hands, qVars, oVars
<1>6. CASE outputQueue' = Append(outputQueue, {next}) /\ outputInvChan' = outputInvChan
  <2>1. \A x : /\ Holds(outputQueue, x)' <=> Holds(outputQueue, x) \/ x \in {next}
               /\ Once(outputQueue, x) /\ ~(Holds(outputQueue, x) /\ x \in {next}) =>
                    Once(outputQueue, x)'
    BY <1>1, <1>2, <1>6, HoldsAppend
  <2>2. \A x : Announced(x)' <=> Announced(x)
    BY <1>4, <1>6, Zenon DEF Announced, Named
  <2>3. \A x : x # next => (OnItsWay(x)' <=> OnItsWay(x)) /\ (OnePlace(x) => OnePlace(x)')
    BY <1>4, <2>1, Zenon DEF OnItsWay, OnePlace
  <2>4. Numbered'
    BY <1>1, <2>2, <2>3 DEF Numbered
  <2>5. Once(outputQueue, next) /\ Once(pendingMsgs, next)
    BY <1>3, Zenon DEF OnItsWay, Holds, Once
  <2>6. \A x : x = next => OnePlace(x)' /\ OnItsWay(x)'
    BY <1>3, <1>4, <2>1, <2>5, Zenon DEF OnItsWay, OnePlace
  <2>7. QED
    BY <1>3, <1>5, <2>2, <2>3, <2>4, <2>6, Zenon
<1>7. CASE /\ ext \in {"block", "tx"} /\ outputQueue' = outputQueue
           /\ outputInvChan' = Append(outputInvChan, <<ext, next>>)
  <2>1. <<ext, next>> \in {"block", "tx"} \X Nat
    BY <1>1, <1>7
  <2>2. \A x : Named(outputInvChan, x)' <=> Named(outputInvChan, x) \/ next = x
    BY <1>1, <1>7, <2>1, NamedAppend, ZenonT(60)
  <2>3. \A x : Announced(x)' <=> Announced(x) \/ next = x
    BY <1>4, <2>2 DEF Announced
  <2>4. \A x : (OnItsWay(x)' <=> OnItsWay(x)) /\ (OnePlace(x)' <=> OnePlace(x))
    BY <1>4, <1>7, ZenonT(60) DEF OnItsWay, OnePlace, Holds, Once
  <2>5. Numbered'
    BY <1>1, <2>3, <2>4 DEF Numbered
  <2>6. outputInvChan' # outputInvChan
    <3>1. Len(outputInvChan') = Len(outputInvChan) + 1 /\ Len(outputInvChan) \in Nat
      BY <1>1, <1>7, <2>1, AppendProperties, LenProperties
    <3>2. QED
      BY <3>1
  <2>7. QED
    BY <1>5, <2>3, <2>4, <2>5, <2>6
<1>8. QED
  BY <1>6, <1>7, Zenon

\* Every step keeps what a waiting listener relies on.
LEMMA AnswerStep ==
    ASSUME IOInv, AnswerInv, [Next]_vars
    PROVE  AnswerInv'
<1>1. /\ Types /\ Hands /\ Waits /\ WaitsForOne /\ Numbered /\ next \in Nat
  BY DEF IOInv, AnswerInv, Types
<1>2. ASSUME \E m : Moved(m) /\ Hands'
      PROVE  AnswerInv'
  BY <1>1, <1>2, MovedKeeps
<1>3. CASE UNCHANGED <<outputQueue, qVars, oVars, sendQueue, outputInvChan, next, waited,
                       in, answer, signalled>>
  <2>1. Moved({})
    BY <1>1, <1>3, StillMoved DEF qVars, oVars
  <2>2. Hands'
    BY <1>1, <1>3 DEF Hands, qVars, oVars
  <2>3. QED
    BY <1>2, <2>1, <2>2
<1>4. CASE Close \/ ExtDisconnects \/ StallDisconnects \/ ExtChecks
  BY <1>3, <1>4, Zenon DEF Close, CloseConn, CloseQuit, ExtDisconnects, StallDisconnects,
                           ExtChecks, chans, notes, inVars, eVars
<1>5. CASE Stall
  BY <1>3, <1>5, Zenon DEF Stall, StallListens, StallStops, notes, inVars, eVars
<1>6. CASE ExtSends
  <2>1. /\ UNCHANGED <<qVars, oVars, sendQueue, signalled, waited, in, answer>>
        /\ next' = next + 1
        /\ \/ outputQueue' = Append(outputQueue, {next}) /\ outputInvChan' = outputInvChan
           \/ /\ ext \in {"block", "tx"} /\ outputQueue' = outputQueue
              /\ outputInvChan' = Append(outputInvChan, <<ext, next>>)
    BY <1>6 DEF ExtSends, inVars, notes
  <2>2. PICK w : w = waited
    OBVIOUS
  <2>3. w # next /\ waited' = w /\ waited' < next'
    BY <1>1, <2>1, <2>2 DEF Waits
  <2>4. /\ Numbered' /\ Hands'
        /\ Announced(w)' <=> Announced(w)
        /\ OnItsWay(w)' <=> OnItsWay(w)
        /\ OnePlace(w) => OnePlace(w)'
    BY <2>1, <2>3, NextQueued
  <2>5. /\ Announced(waited)' <=> Announced(waited)
        /\ OnItsWay(waited)' <=> OnItsWay(waited)
        /\ OnePlace(waited) => OnePlace(waited)'
    BY <2>2, <2>3, <2>4, ZenonT(60) DEF OnePlace, OnItsWay, Announced
  <2>6. Waits'
    BY <1>1, <2>1, <2>3, <2>5, Zenon DEF Waits
  <2>7. WaitsForOne'
    BY <1>1, <2>1, <2>5, Zenon DEF WaitsForOne
  <2>8. QED
    BY <2>4, <2>6, <2>7 DEF AnswerInv
<1>7. CASE InSends
  <2>1. /\ UNCHANGED <<qVars, oVars, sendQueue, signalled, answer>>
        /\ next' = next + 1 /\ waited' = next /\ in = "send" /\ in' = "wait"
        /\ outputQueue' = Append(outputQueue, {next}) /\ outputInvChan' = outputInvChan
    BY <1>7 DEF InSends, notes
  <2>2. PICK n : n = next
    OBVIOUS
  <2>3. Numbered' /\ Hands' /\ OnePlace(n)' /\ OnItsWay(n)' /\ ~Announced(n)'
    BY <2>1, <2>2, NextQueued
  <2>4. waited' = n /\ waited' \in Nat /\ waited' < next'
    BY <1>1, <2>1, <2>2
  <2>5. OnePlace(waited)' /\ OnItsWay(waited)' /\ ~Announced(waited)'
    BY <2>3, <2>4 DEF OnePlace, OnItsWay, Announced
  <2>6. ~signalled
    BY <1>1, <2>1 DEF Waits
  <2>7. Waits'
    BY <1>1, <2>1, <2>4, <2>5, <2>6, Zenon DEF Waits
  <2>8. WaitsForOne'
    BY <2>1, <2>5, <2>6, Zenon DEF WaitsForOne
  <2>9. QED
    BY <2>3, <2>7, <2>8 DEF AnswerInv
<1>8. CASE InAnswered
  <2>1. /\ UNCHANGED <<outputQueue, qVars, oVars, sendQueue, outputInvChan, next>>
        /\ in' = answer /\ answer' = "run" /\ waited' = 0 /\ signalled' = FALSE
    BY <1>8 DEF InAnswered, eVars, chans
  <2>2. \A x : (OnItsWay(x)' <=> OnItsWay(x)) /\ (Announced(x)' <=> Announced(x))
    BY <2>1 DEF OnItsWay, Announced, Holds, Named, qVars, oVars
  <2>3. Numbered' /\ Hands'
    BY <1>1, <2>1, <2>2 DEF Numbered, Hands, qVars, oVars
  <2>4. ~Announced(0)' /\ 0 < next' /\ 0 \in Nat
    BY <1>1, <2>1, <2>2 DEF Numbered
  <2>5. ~Announced(waited)'
    BY <2>1, <2>4 DEF Announced
  <2>6. Waits' /\ in' # "wait"
    <3>1. in' # "wait" /\ answer' \in {"run", "hdone", "exit"}
      BY <1>1, <2>1 DEF Waits
    <3>2. signalled' \in BOOLEAN /\ ~signalled'
      BY <2>1, Zenon
    <3>3. QED
      BY <2>1, <2>4, <2>5, <3>1, <3>2, Zenon DEF Waits
  <2>7. QED
    BY <2>3, <2>6, Zenon DEF AnswerInv, WaitsForOne
<1>9. CASE In /\ ~InSends /\ ~InAnswered
  <2>1. /\ UNCHANGED <<outputQueue, qVars, oVars, sendQueue, outputInvChan, next, waited,
                       signalled>>
        /\ in # "wait" /\ in' # "wait" /\ answer' \in {"run", "hdone", "exit"}
    BY <1>1, <1>9 DEF In, InLoops, InReads, InReadFails, InNotes, InHandles, InChecks,
                      InExits, InQuits, chans, notes, eVars, inVars, Waits
  <2>2. \A x : (OnItsWay(x)' <=> OnItsWay(x)) /\ (Announced(x)' <=> Announced(x))
    BY <2>1, Zenon DEF OnItsWay, Announced, Holds, Named, qVars, oVars
  <2>3. Numbered' /\ Hands'
    BY <1>1, <2>1, <2>2 DEF Numbered, Hands, qVars, oVars
  <2>4. ~Announced(waited)'
    BY <1>1, <2>1 DEF Announced, Named, Waits, qVars
  <2>5. Waits'
    BY <1>1, <2>1, <2>4, Zenon DEF Waits
  <2>6. QED
    BY <2>1, <2>3, <2>5, Zenon DEF AnswerInv, WaitsForOne
<1>10. CASE Queue
  <2>1. CASE QueueTakes \/ QueueTakesInv \/ QueueTrickles
    BY <1>2, <2>1, TakesMoved, TakesInvMoved, TricklesMoved
  <2>2. CASE QueueSendDone \/ QueuePuts \/ QueueQuits \/ QueueDrains
    BY <1>2, <2>2, QueueMoved, DrainsMoved
  <2>3. QED
    BY <1>10, <2>1, <2>2 DEF Queue
<1>11. CASE Out
  BY <1>2, <1>11, OutMoved, SignalsMoved DEF Out
<1>12. CASE UNCHANGED vars
  BY <1>3, <1>12 DEF vars, chans, notes, inVars, eVars
<1>13. QED
  BY <1>4, <1>5, <1>6, <1>7, <1>8, <1>9, <1>10, <1>11, <1>12 DEF Next

\* What a waiting listener relies on always holds.
THEOREM AnswerInvariant == Spec => []AnswerInv
<1>1. IOInv /\ AnswerInv /\ [Next]_vars => AnswerInv'
  BY AnswerStep
<1>2. QED
  BY <1>1, AnswerInit, IOInvariant, PTL DEF Spec

\* The doneChan of a message is signalled exactly once: as long as it has not
\* been, the message is in one place on its way through queueHandler and
\* outHandler, where whoever takes it out signals it, and from then on in none,
\* so that nobody can signal it again and block on a channel nobody reads.
THEOREM WaitersSignalledOnce == Spec => []WaitsForOne
<1>1. AnswerInv => WaitsForOne
  BY DEF AnswerInv
<1>2. QED
  BY <1>1, AnswerInvariant, PTL

\* Once both handlers have ended, a listener that still waits has its answer,
\* or its message came to outputQueue after queueHandler had emptied it: no
\* message is lost inside the handlers, whatever they were doing when the peer
\* was disconnected.
THEOREM NoneLostInHandlers ==
    Spec => [](queue = "done" /\ out = "done" /\ in = "wait" =>
                 signalled \/ Holds(outputQueue, waited))
<1>1. AnswerInv => (queue = "done" /\ out = "done" /\ in = "wait" =>
                      signalled \/ Holds(outputQueue, waited))
  BY HoldsNone DEF AnswerInv, Hands, WaitsForOne, OnItsWay
<1>2. QED
  BY <1>1, AnswerInvariant, PTL
-----------------------------------------------------------------------------
\* How far each goroutine is from its end: the steps it has left when nothing
\* more comes to it, with the handlers' work on what it may still hand over.
InWork(s) ==
    CASE s = "read" -> 23 [] s = "recv" -> 22 [] s = "start" -> 20
      [] s = "handle" -> 18 [] s = "check" -> 17 [] s = "send" -> 16
      [] s = "wait" -> 6 [] s = "hdone" -> 5 [] s = "run" -> 3
      [] s = "exit" -> 2 [] s = "quit" -> 1 [] s = "done" -> 0

QueueWork(s) ==
    CASE s = "put" -> 10 [] s = "run" -> 2 [] s = "drain" -> 1 [] s = "done" -> 0

OutWork(s) ==
    CASE s = "note" -> 8 [] s = "write" -> 6 [] s = "writing" -> 5
      [] s = "sent" -> 4 [] s = "failed" -> 4 [] s = "run" -> 2 [] s = "drain" -> 1 [] s = "done" -> 0

StallWork(s) == CASE s = "run" -> 2 [] s = "half" -> 1 [] s = "done" -> 0

Open(closed) == IF closed THEN 0 ELSE 1

ExtWork(s) == IF s = "none" THEN 0 ELSE 10

Size(channel) == Len(channel)

\* ... and what is in the channels: everything that is left to be done.
Handed ==
    9 * Size(outputQueue) + 9 * Size(outputInvChan) + 8 * Size(pendingMsgs)
    + 7 * Size(sendQueue) + sendDoneQueue + Size(stallControl)

Work ==
    InWork(in) + QueueWork(queue) + OutWork(out) + StallWork(stall)
    + Open(connClosed) + Open(quit) + ExtWork(ext) + Handed

\* Where the goroutines are, and how far Disconnect has come: only its first
\* caller is inside it, until it has closed the quit channel.
Places ==
    /\ in \in {"run", "read", "recv", "start", "handle", "check", "send", "wait",
               "hdone", "exit", "quit", "done"}
    /\ in \in {"check", "send", "wait"} => answer \in {"hdone", "exit"}
    /\ stall \in {"run", "half", "done"}
    /\ stallControl = <<>> \/ Len(stallControl) = 1
    /\ stall # "run" => in = "done" \/ out = "done"

Closing ==
    /\ disconnect \in BOOLEAN /\ connClosed \in BOOLEAN /\ quit \in BOOLEAN
    /\ closer # "none" => disconnect /\ ~quit
    /\ quit => disconnect /\ connClosed
    /\ disconnect => quit \/ closer # "none"

EndInv == Places /\ Closing

\* What each place counts for.
LEMMA WorkIs ==
    /\ InWork("read") = 23 /\ InWork("recv") = 22 /\ InWork("start") = 20
    /\ InWork("handle") = 18 /\ InWork("check") = 17 /\ InWork("send") = 16
    /\ InWork("wait") = 6 /\ InWork("hdone") = 5 /\ InWork("run") = 3
    /\ InWork("exit") = 2 /\ InWork("quit") = 1 /\ InWork("done") = 0
    /\ QueueWork("put") = 10 /\ QueueWork("run") = 2 /\ QueueWork("drain") = 1
    /\ QueueWork("done") = 0
    /\ OutWork("note") = 8 /\ OutWork("write") = 6 /\ OutWork("writing") = 5
    /\ OutWork("sent") = 4 /\ OutWork("failed") = 4 /\ OutWork("run") = 2 /\ OutWork("drain") = 1
    /\ OutWork("done") = 0
    /\ StallWork("run") = 2 /\ StallWork("half") = 1 /\ StallWork("done") = 0
    /\ Open(TRUE) = 0 /\ Open(FALSE) = 1
    /\ ExtWork("none") = 0 /\ ExtWork("message") = 10 /\ ExtWork("block") = 10
    /\ ExtWork("tx") = 10
<1>1. /\ InWork("read") = 23 /\ InWork("recv") = 22 /\ InWork("start") = 20
      /\ InWork("handle") = 18 /\ InWork("check") = 17 /\ InWork("send") = 16
      /\ InWork("wait") = 6 /\ InWork("hdone") = 5 /\ InWork("run") = 3
      /\ InWork("exit") = 2 /\ InWork("quit") = 1 /\ InWork("done") = 0
  BY DEF InWork
<1>2. /\ QueueWork("put") = 10 /\ QueueWork("run") = 2 /\ QueueWork("drain") = 1
      /\ QueueWork("done") = 0
  BY DEF QueueWork
<1>3. /\ OutWork("note") = 8 /\ OutWork("write") = 6 /\ OutWork("writing") = 5
      /\ OutWork("sent") = 4 /\ OutWork("failed") = 4 /\ OutWork("run") = 2 /\ OutWork("drain") = 1
      /\ OutWork("done") = 0
  BY DEF OutWork
<1>4. StallWork("run") = 2 /\ StallWork("half") = 1 /\ StallWork("done") = 0
  BY DEF StallWork
<1>5. Open(TRUE) = 0 /\ Open(FALSE) = 1
  BY DEF Open
<1>6. /\ ExtWork("none") = 0 /\ ExtWork("message") = 10 /\ ExtWork("block") = 10
      /\ ExtWork("tx") = 10
  BY DEF ExtWork
<1>7. QED
  BY <1>1, <1>2, <1>3, <1>4, <1>5, <1>6, Zenon

\* Everything that is counted is a number.
LEMMA WorkTypes ==
    ASSUME IOInv, EndInv
    PROVE  /\ InWork(in) \in Nat /\ QueueWork(queue) \in Nat /\ OutWork(out) \in Nat
           /\ StallWork(stall) \in Nat /\ Open(connClosed) \in Nat /\ Open(quit) \in Nat
           /\ ExtWork(ext) \in Nat
           /\ Size(outputQueue) \in Nat /\ Size(outputInvChan) \in Nat
           /\ Size(pendingMsgs) \in Nat /\ Size(sendQueue) \in Nat
           /\ sendDoneQueue \in Nat /\ Size(stallControl) \in Nat
<1>1. InWork(in) \in Nat
  <2>1. in \in {"run", "read", "recv", "start", "handle", "check", "send", "wait",
               "hdone", "exit", "quit", "done"}
    BY Zenon DEF EndInv, Places
  <2>2. QED
    BY <2>1, SMTT(30), Z3T(60) DEF InWork
<1>2. QueueWork(queue) \in Nat
  <2>1. queue \in {"run", "put", "drain", "done"}
    BY Zenon DEF IOInv, Types
  <2>2. QED
    BY <2>1, SMTT(30), Z3T(60) DEF QueueWork
<1>3. OutWork(out) \in Nat
  <2>1. out \in {"run", "note", "write", "writing", "sent", "failed", "drain", "done"}
    BY Zenon DEF IOInv, Types
  <2>2. QED
    BY <2>1, SMTT(30), Z3T(60) DEF OutWork
<1>4. StallWork(stall) \in Nat
  <2>1. stall \in {"run", "half", "done"}
    BY Zenon DEF EndInv, Places
  <2>2. QED
    BY <2>1, SMTT(30), Z3T(60) DEF StallWork
<1>5. Open(connClosed) \in Nat /\ Open(quit) \in Nat
  BY DEF Open
<1>6. ExtWork(ext) \in Nat
  BY DEF ExtWork
<1>7. Size(outputQueue) \in Nat /\ Size(pendingMsgs) \in Nat
  BY LenProperties DEF IOInv, Types, Size
<1>8. Size(outputInvChan) \in Nat
  BY LenProperties DEF IOInv, Types, Size
<1>9. Size(sendQueue) \in Nat /\ sendDoneQueue \in Nat
  BY SendQueue DEF IOInv, Types, Size
<1>10. Size(stallControl) \in Nat
  BY DEF EndInv, Places, Size
<1>11. QED
  BY <1>1, <1>2, <1>3, <1>4, <1>5, <1>6, <1>7, <1>8, <1>9, <1>10

-----------------------------------------------------------------------------
\* Nobody has disconnected at the start.
LEMMA EndInit == Init => EndInv
<1> SUFFICES ASSUME Init PROVE EndInv
  OBVIOUS
<1>1. Places
  BY Zenon DEF Init, Places
<1>2. Closing
  BY Zenon DEF Init, Closing
<1>3. QED
  BY <1>1, <1>2 DEF EndInv

\* Disconnect, whoever calls it.
LEMMA DisconnectCloses ==
    ASSUME Closing, NEW g \in {"in", "out", "stall", "ext"}, Disconnect(g)
    PROVE  Closing'
BY DEF Closing, Disconnect

\* outHandler has ended for good.
LEMMA DoneStays ==
    ASSUME [Next]_vars, out = "done"
    PROVE  out' = "done"
<1>1. ~Out
  BY DEF Out, OutTakes, OutNotes, OutSkips, OutBegins, OutWrites, OutWriteFails, OutFailed,
     OutAcknowledges, OutQuits, OutDrains
<1>2. CASE Close \/ ExtDisconnects \/ ExtChecks \/ ExtSends \/ StallDisconnects \/ UNCHANGED vars
  BY <1>2, Zenon DEF Close, CloseConn, CloseQuit, ExtDisconnects, ExtChecks, ExtSends,
     StallDisconnects, oVars, vars
<1>3. CASE In
  BY <1>3, Zenon DEF In, InLoops, InReads, InReadFails, InNotes, InHandles, InChecks, InSends,
     InAnswered, InExits, InQuits, oVars
<1>4. CASE Queue \/ Stall
  BY <1>4, Zenon DEF Queue, QueueTakes, QueueTakesInv, QueueTrickles, QueueSendDone,
     QueuePuts, QueueQuits, QueueDrains, Stall, StallListens, StallStops, oVars
<1>5. QED
  BY <1>1, <1>2, <1>3, <1>4 DEF Next

\* Every step keeps the goroutines where the code has them.
LEMMA PlacesStep ==
    ASSUME EndInv, [Next]_vars
    PROVE  Places'
<1>1. Places
  BY DEF EndInv
<1>0. out = "done" => out' = "done"
  BY DoneStays
<1>2. CASE UNCHANGED <<in, answer, stall, stallControl>>
  BY <1>0, <1>1, <1>2 DEF Places
<1>3. CASE Close \/ ExtDisconnects \/ ExtChecks \/ ExtSends \/ StallDisconnects \/ UNCHANGED vars
  BY <1>2, <1>3, Zenon DEF Close, CloseConn, CloseQuit, ExtDisconnects, ExtChecks, ExtSends,
     StallDisconnects, inVars, sVars, chans, vars
<1>4. CASE Queue
  BY <1>2, <1>4, Zenon DEF Queue, QueueTakes, QueueTakesInv, QueueTrickles, QueueSendDone,
     QueuePuts, QueueQuits, QueueDrains, inVars, sVars, chans
<1>5. CASE OutNotes
  <2>1. UNCHANGED <<in, answer, stall>> /\ stallControl' = <<"send">>
    BY <1>5 DEF OutNotes, inVars, sVars
  <2>2. Len(stallControl') = 1
    BY <2>1
  <2>3. QED
    BY <1>0, <1>1, <2>1, <2>2 DEF Places
<1>6. CASE Out /\ ~OutNotes
  BY <1>2, <1>6, Zenon DEF Out, OutTakes, OutSkips, OutBegins, OutWrites, OutWriteFails,
     OutFailed, OutAcknowledges, OutQuits, OutDrains, inVars, sVars, chans
<1>7. CASE Stall
  <2>1. /\ UNCHANGED <<in, answer>> /\ stall' \in {stall, "half", "done"}
        /\ stallControl' \in {stallControl, <<>>}
        /\ stall' = stall \/ in = "done" \/ out = "done"
    BY <1>7, Zenon DEF Stall, StallListens, StallStops, inVars
  <2>2. QED
    BY <1>0, <1>1, <2>1, ZenonT(60) DEF Places
<1>8. CASE InNotes
  <2>1. UNCHANGED <<answer, stall>> /\ stallControl' = <<in>>
        /\ in # "done" /\ in' \in {"start", "handle", "run"}
    BY <1>8 DEF InNotes, sVars
  <2>2. Len(stallControl') = 1
    BY <2>1
  <2>3. QED
    BY <1>0, <1>1, <2>1, <2>2 DEF Places
<1>9. CASE In /\ ~InNotes
  BY <1>0, <1>1, <1>9, Zenon DEF Places, In, InLoops, InReads, InReadFails, InHandles,
     InChecks, InSends, InAnswered, InExits, InQuits, sVars, chans
<1>10. QED
  BY <1>3, <1>4, <1>5, <1>6, <1>7, <1>8, <1>9 DEF Next

\* Every step keeps the order in which Disconnect does what it does.
LEMMA ClosingStep ==
    ASSUME EndInv, [Next]_vars
    PROVE  Closing'
<1>1. Closing
  BY DEF EndInv
<1>2. CASE UNCHANGED conn
  BY <1>1, <1>2 DEF Closing, conn
<1>3. CASE Close
  <2>1. CASE CloseConn
    BY <1>1, <2>1, Zenon DEF CloseConn, Closing
  <2>2. CASE CloseQuit
    BY <1>1, <2>2, Zenon DEF CloseQuit, Closing
  <2>3. QED
    BY <1>3, <2>1, <2>2 DEF Close
<1>4. CASE ExtDisconnects \/ StallDisconnects \/ InExits \/ OutWriteFails
  BY <1>1, <1>4, DisconnectCloses DEF ExtDisconnects, StallDisconnects, InExits, OutWriteFails
<1>5. CASE In /\ ~InExits
  BY <1>2, <1>5, Zenon DEF In, InLoops, InReads, InReadFails, InNotes, InHandles, InChecks,
     InSends, InAnswered, InQuits
<1>6. CASE Out /\ ~OutWriteFails
  BY <1>2, <1>6, Zenon DEF Out, OutTakes, OutNotes, OutSkips, OutBegins, OutWrites,
     OutFailed, OutAcknowledges, OutQuits, OutDrains
<1>7. CASE Queue \/ Stall \/ ExtChecks \/ ExtSends \/ UNCHANGED vars
  BY <1>2, <1>7, Zenon DEF Queue, QueueTakes, QueueTakesInv, QueueTrickles, QueueSendDone,
     QueuePuts, QueueQuits, QueueDrains, Stall, StallListens, StallStops, ExtChecks, ExtSends,
     vars
<1>8. QED
  BY <1>3, <1>4, <1>5, <1>6, <1>7 DEF Next

\* The goroutines are always where the code has them, and Disconnect goes
\* through its steps once and in its order.
THEOREM EndInvariant == Spec => []EndInv
<1>1. EndInv /\ [Next]_vars => EndInv'
  BY PlacesStep, ClosingStep DEF EndInv
<1>2. QED
  BY <1>1, EndInit, PTL DEF Spec

-----------------------------------------------------------------------------
\* Steps of Disconnect and of those outside that are still on their way in.
LEMMA CloseWorks ==
    ASSUME IOInv, EndInv, disconnect,
           Close \/ ExtDisconnects \/ ExtChecks \/ ExtSends \/ StallDisconnects
    PROVE  Work' < Work
<1>1. CASE CloseConn
  <2>1. connClosed = FALSE /\ connClosed' = TRUE
    BY <1>1, Zenon DEF CloseConn, EndInv, Closing
  <2>2. Open(connClosed) = 1 /\ Open(connClosed') = 0
    BY <2>1, WorkIs, Zenon
  <2>3. UNCHANGED <<in, queue, out, stall, quit, ext, outputQueue, outputInvChan,
                  pendingMsgs, sendQueue, sendDoneQueue, stallControl>>
    BY <1>1, Zenon DEF CloseConn, inVars, qVars, oVars, sVars, eVars, chans
  <2>4. QED
    BY <2>2, <2>3, WorkTypes, SMTT(30), Z3T(60) DEF Work, Handed
<1>2. CASE CloseQuit
  <2>1. quit = FALSE /\ quit' = TRUE
    BY <1>2, Zenon DEF CloseQuit, EndInv, Closing
  <2>2. Open(quit) = 1 /\ Open(quit') = 0
    BY <2>1, WorkIs, Zenon
  <2>3. UNCHANGED <<in, queue, out, stall, connClosed, ext, outputQueue, outputInvChan,
                  pendingMsgs, sendQueue, sendDoneQueue, stallControl>>
    BY <1>2, Zenon DEF CloseQuit, inVars, qVars, oVars, sVars, eVars, chans
  <2>4. QED
    BY <2>2, <2>3, WorkTypes, SMTT(30), Z3T(60) DEF Work, Handed
<1>3. CASE ExtSends
  <2>1. /\ ext \in {"message", "block", "tx"} /\ ext' = "none"
        /\ UNCHANGED <<in, queue, out, stall, connClosed, quit, pendingMsgs, sendQueue,
                       sendDoneQueue, stallControl>>
    BY <1>3, Zenon DEF ExtSends, conn, inVars, qVars, oVars, sVars
  <2>4. ExtWork(ext) = 10 /\ ExtWork(ext') = 0
    BY <2>1, WorkIs, Zenon
  <2>2. \/ Size(outputQueue') = Size(outputQueue) + 1 /\ outputInvChan' = outputInvChan
        \/ Size(outputInvChan') = Size(outputInvChan) + 1 /\ outputQueue' = outputQueue
    <3>1. /\ outputQueue \in Seq(Packet) /\ {next} \in Packet /\ next \in Nat
          /\ outputInvChan \in Seq({"block", "tx"} \X Nat)
      BY SMTT(30) DEF IOInv, Types, Packet
    <3>2. Size(Append(outputQueue, {next})) = Size(outputQueue) + 1
      BY <3>1, AppendProperties, SMTT(30) DEF Size
    <3>3. ext \in {"block", "tx"}
          => Size(Append(outputInvChan, <<ext, next>>)) = Size(outputInvChan) + 1
      BY <3>1, AppendProperties, SMTT(30) DEF Size
    <3>4. QED
      BY <1>3, <3>2, <3>3, Zenon DEF ExtSends
  <2>3. QED
    BY <2>1, <2>2, <2>4, WorkTypes, SMTT(30), Z3T(60) DEF Work, Handed
<1>4. QED
  BY <1>1, <1>2, <1>3, Zenon DEF Close, ExtDisconnects, ExtChecks, Connected,
     StallDisconnects

\* inHandler's steps.
LEMMA InWorks ==
    ASSUME IOInv, EndInv, disconnect, In
    PROVE  Work' < Work
<1>1. UNCHANGED <<queue, out, stall, connClosed, quit, ext, outputInvChan, pendingMsgs,
                  sendQueue, sendDoneQueue>>
  BY Zenon DEF In, InLoops, InReads, InReadFails, InNotes, InHandles, InChecks, InSends,
     InAnswered, InExits, InQuits, Disconnect, conn, qVars, oVars, sVars, eVars, chans
<1>2. in \in {"check", "send", "wait"} => answer \in {"hdone", "exit"}
  BY DEF EndInv, Places
<1>3. CASE In /\ ~InNotes /\ ~InSends
  <2>1. UNCHANGED <<outputQueue, stallControl>>
    BY <1>3, Zenon DEF In, InLoops, InReads, InReadFails, InHandles, InChecks, InAnswered,
       InExits, InQuits, chans
  <2>2. \/ in = "run" /\ in' = "exit"
        \/ in = "read" /\ in' \in {"recv", "exit"}
        \/ in = "handle" /\ in' \in {"hdone", "exit", "check"}
        \/ in \in {"check", "wait"} /\ in' \in {"hdone", "exit"}
        \/ in = "exit" /\ in' = "quit"
        \/ in = "quit" /\ in' = "done"
    BY <1>2, <1>3, Zenon DEF In, InLoops, InReads, InReadFails, InHandles, InChecks,
       InAnswered, InExits, InQuits, Connected
  <2>3. InWork(in') < InWork(in) /\ InWork(in') \in Nat
    BY <2>2, WorkIs, SMTT(30)
  <2>4. QED
    BY <1>1, <2>1, <2>3, WorkTypes, SMTT(30), Z3T(60) DEF Work, Handed
<1>4. CASE InNotes
  <2>5. UNCHANGED outputQueue
    BY <1>4 DEF InNotes
  <2>1. /\ stallControl = <<>> /\ stallControl' = <<in>>
        /\ \/ in = "recv" /\ in' = "start"
           \/ in = "start" /\ in' = "handle"
           \/ in = "hdone" /\ in' = "run"
    BY <1>4 DEF InNotes
  <2>2. Size(stallControl) = 0 /\ Size(stallControl') = 1
    BY <2>1 DEF Size
  <2>3. InWork(in') + 1 < InWork(in) /\ InWork(in') \in Nat
    <3>1. \/ InWork(in) = 22 /\ InWork(in') = 20
          \/ InWork(in) = 20 /\ InWork(in') = 18
          \/ InWork(in) = 5 /\ InWork(in') = 3
      BY <2>1, WorkIs, Zenon
    <3>2. QED
      BY <3>1
  <2>4. QED
    BY <1>1, <2>2, <2>3, <2>5, WorkTypes, SMTT(30), Z3T(60) DEF Work, Handed
<1>5. CASE InSends
  <2>1. in = "send" /\ in' = "wait" /\ UNCHANGED stallControl
    BY <1>5 DEF InSends
  <2>2. outputQueue \in Seq(Packet) /\ {next} \in Packet
    BY DEF IOInv, Types, Packet
  <2>3. Size(outputQueue') = Size(outputQueue) + 1
    BY <1>5, <2>2, AppendProperties, Zenon DEF Size, InSends
  <2>4. InWork(in) = 16 /\ InWork(in') = 6
    BY <2>1, WorkIs, SMTT(30)
  <2>5. QED
    BY <1>1, <2>1, <2>3, <2>4, WorkTypes, SMTT(30) DEF Work, Handed
<1>6. QED
  BY <1>3, <1>4, <1>5

\* What queuePacket adds: a message that waits, or one in queueHandler's hand.
LEMMA PacketWorks ==
    ASSUME IOInv, EndInv, queue = "run", NEW m \in Packet, queuePacket(m)
    PROVE  /\ QueueWork(queue') \in Nat /\ Size(pendingMsgs') \in Nat
           /\ QueueWork(queue') + 8 * Size(pendingMsgs')
                <= QueueWork(queue) + 8 * Size(pendingMsgs) + 8
<1>1. pendingMsgs \in Seq(Packet)
  BY DEF IOInv, Types
<1>2. CASE waiting
  <2>1. pendingMsgs' = Append(pendingMsgs, m) /\ queue' = queue
    BY <1>2 DEF queuePacket
  <2>2. Size(pendingMsgs') = Size(pendingMsgs) + 1
    BY <1>1, <2>1, AppendProperties DEF Size
  <2>3. QueueWork(queue') = QueueWork(queue)
    BY <2>1
  <2>4. QED
    BY <2>2, <2>3, WorkTypes
<1>3. CASE ~waiting
  <2>1. queue' = "put" /\ pendingMsgs' = pendingMsgs
    BY <1>3 DEF queuePacket
  <2>2. /\ QueueWork(queue) = 2 /\ QueueWork(queue') = 10
        /\ Size(pendingMsgs') = Size(pendingMsgs)
    BY <2>1, WorkIs, Zenon
  <2>3. QED
    BY <2>2, WorkTypes, SMTT(30), Z3T(60)
<1>4. QED
  BY <1>2, <1>3

\* queueHandler's steps.
LEMMA QueueWorks ==
    ASSUME IOInv, EndInv, disconnect, Queue
    PROVE  Work' < Work
<1>1. UNCHANGED <<in, out, stall, connClosed, quit, ext, stallControl>>
  BY Zenon DEF Queue, QueueTakes, QueueTakesInv, QueueTrickles, QueueSendDone, QueuePuts,
     QueueQuits, QueueDrains, conn, inVars, oVars, sVars, eVars, chans
<1>2. /\ outputQueue \in Seq(Packet) /\ pendingMsgs \in Seq(Packet)
      /\ outputInvChan \in Seq({"block", "tx"} \X Nat)
  BY DEF IOInv, Types
<1>3. /\ outputQueue # <<>> => /\ Size(Tail(outputQueue)) = Size(outputQueue) - 1
                               /\ Size(outputQueue) > 0 /\ Head(outputQueue) \in Packet
      /\ pendingMsgs # <<>> => /\ Size(Tail(pendingMsgs)) = Size(pendingMsgs) - 1
                               /\ Size(pendingMsgs) > 0
  BY <1>2, HeadTailProperties, EmptySeq, LenProperties DEF Size
<1>4. outputInvChan # <<>> =>
        /\ Size(Tail(outputInvChan)) = Size(outputInvChan) - 1 /\ Size(outputInvChan) > 0
        /\ Head(outputInvChan) \in {"block", "tx"} \X Nat
  BY <1>2, HeadTailProperties, EmptySeq, LenProperties DEF Size
<1>5. CASE QueueTakes
  <2>1. /\ queue = "run" /\ outputQueue # <<>> /\ outputQueue' = Tail(outputQueue)
        /\ queuePacket(Head(outputQueue))
        /\ UNCHANGED <<outputInvChan, sendQueue, sendDoneQueue>>
    BY <1>5 DEF QueueTakes
  <2>2. /\ QueueWork(queue') \in Nat /\ Size(pendingMsgs') \in Nat
        /\ QueueWork(queue') + 8 * Size(pendingMsgs')
             <= QueueWork(queue) + 8 * Size(pendingMsgs) + 8
    BY <1>3, <2>1, PacketWorks, Zenon
  <2>3. Size(outputQueue') = Size(outputQueue) - 1 /\ Size(outputQueue) > 0
    BY <1>3, <2>1
  <2>4. UNCHANGED <<outputInvChan, sendQueue, sendDoneQueue>>
    BY <2>1
  <2>5. QED
    BY <1>1, <2>2, <2>3, <2>4, WorkTypes, SMTT(30), Z3T(60) DEF Work, Handed
<1>6. CASE QueueTakesInv
  <2> DEFINE iv == Head(outputInvChan)
  <2>1. /\ queue = "run" /\ outputInvChan # <<>> /\ outputInvChan' = Tail(outputInvChan)
        /\ queuePacket({iv[2]}) \/ UNCHANGED <<queue, pendingMsgs>>
        /\ UNCHANGED <<outputQueue, sendQueue, sendDoneQueue>>
    BY <1>6, Zenon DEF QueueTakesInv
  <2>2. {iv[2]} \in Packet
    BY <1>4, <2>1, SMTT(30), Z3T(60) DEF Packet
  <2>3. /\ QueueWork(queue') \in Nat /\ Size(pendingMsgs') \in Nat
        /\ QueueWork(queue') + 8 * Size(pendingMsgs')
             <= QueueWork(queue) + 8 * Size(pendingMsgs) + 8
    <3>1. CASE queuePacket({iv[2]})
      BY <2>1, <2>2, <3>1, PacketWorks, Zenon
    <3>2. CASE UNCHANGED <<queue, pendingMsgs>>
      <4>1. QueueWork(queue') = QueueWork(queue) /\ Size(pendingMsgs') = Size(pendingMsgs)
        BY <3>2
      <4>2. QED
        BY <4>1, WorkTypes, SMTT(30)
    <3>3. QED
      BY <2>1, <3>1, <3>2, Zenon
  <2>4. Size(outputInvChan') = Size(outputInvChan) - 1 /\ Size(outputInvChan) > 0
    BY <1>4, <2>1, Zenon
  <2>5. UNCHANGED <<outputQueue, sendQueue, sendDoneQueue>>
    BY <2>1
  <2>6. QED
    BY <1>1, <2>3, <2>4, <2>5, WorkTypes, SMTT(30), Z3T(60) DEF Work, Handed
<1>7. CASE QueueSendDone
  <2>1. /\ queue = "run" /\ sendDoneQueue = 1 /\ sendDoneQueue' = 0
        /\ \/ UNCHANGED <<queue, pendingMsgs>>
           \/ pendingMsgs # <<>> /\ queue' = "put" /\ pendingMsgs' = Tail(pendingMsgs)
        /\ UNCHANGED <<outputQueue, outputInvChan, sendQueue>>
    BY <1>7, Zenon DEF QueueSendDone
  <2>2. sendDoneQueue = 1 /\ sendDoneQueue' = 0
        /\ UNCHANGED <<outputQueue, outputInvChan, sendQueue>>
    BY <2>1
  <2>3. CASE UNCHANGED <<queue, pendingMsgs>>
    BY <1>1, <2>2, <2>3, WorkTypes, SMTT(30), Z3T(60) DEF Work, Handed
  <2>4. CASE pendingMsgs # <<>> /\ queue' = "put" /\ pendingMsgs' = Tail(pendingMsgs)
    <3>1. /\ Size(pendingMsgs') = Size(pendingMsgs) - 1 /\ Size(pendingMsgs) > 0
          /\ QueueWork(queue) = 2 /\ QueueWork(queue') = 10
      BY <1>3, <2>1, <2>4, WorkIs, SMTT(30), Z3T(60)
    <3>2. QED
      BY <1>1, <2>2, <3>1, WorkTypes, SMTT(30), Z3T(60) DEF Work, Handed
  <2>5. QED
    BY <2>1, <2>3, <2>4
<1>8. CASE QueuePuts
  <2>1. /\ queue = "put" /\ queue' = "run" /\ sendQueue = <<>> /\ sendQueue' = <<held>>
        /\ UNCHANGED <<outputQueue, outputInvChan, pendingMsgs, sendDoneQueue>>
    BY <1>8 DEF QueuePuts
  <2>2. Size(sendQueue) = 0 /\ Size(sendQueue') = 1
    BY <2>1 DEF Size
  <2>3. /\ QueueWork(queue) = 10 /\ QueueWork(queue') = 2
        /\ UNCHANGED <<outputQueue, outputInvChan, pendingMsgs, sendDoneQueue>>
    BY <2>1, WorkIs, ZenonT(60)
  <2>4. QED
    BY <1>1, <2>2, <2>3, WorkTypes, SMTT(30), Z3T(60) DEF Work, Handed
<1>9. CASE QueueQuits
  <2>1. /\ queue = "run" /\ queue' = "drain"
        /\ UNCHANGED <<outputQueue, outputInvChan, pendingMsgs, sendQueue, sendDoneQueue>>
    BY <1>9 DEF QueueQuits, chans
  <2>2. QueueWork(queue) = 2 /\ QueueWork(queue') = 1
    BY <2>1, WorkIs, Zenon
  <2>3. QED
    BY <1>1, <2>1, <2>2, WorkTypes, SMTT(30), Z3T(60) DEF Work, Handed
<1>10. CASE QueueDrains
  <2>1. /\ UNCHANGED <<sendQueue, sendDoneQueue>>
        /\ \/ /\ pendingMsgs # <<>> /\ pendingMsgs' = Tail(pendingMsgs)
              /\ UNCHANGED <<queue, outputQueue, outputInvChan>>
           \/ /\ outputQueue # <<>> /\ outputQueue' = Tail(outputQueue)
              /\ UNCHANGED <<queue, pendingMsgs, outputInvChan>>
           \/ /\ outputInvChan # <<>> /\ outputInvChan' = Tail(outputInvChan)
              /\ UNCHANGED <<queue, pendingMsgs, outputQueue>>
           \/ /\ queue = "drain" /\ queue' = "done"
              /\ UNCHANGED <<pendingMsgs, outputQueue, outputInvChan>>
    BY <1>10, Zenon DEF QueueDrains
  <2>2. /\ UNCHANGED <<sendQueue, sendDoneQueue>>
        /\ \/ /\ Size(pendingMsgs') = Size(pendingMsgs) - 1
              /\ UNCHANGED <<queue, outputQueue, outputInvChan>>
           \/ /\ Size(outputQueue') = Size(outputQueue) - 1
              /\ UNCHANGED <<queue, pendingMsgs, outputInvChan>>
           \/ /\ Size(outputInvChan') = Size(outputInvChan) - 1
              /\ UNCHANGED <<queue, pendingMsgs, outputQueue>>
           \/ /\ QueueWork(queue) = 1 /\ QueueWork(queue') = 0
              /\ UNCHANGED <<pendingMsgs, outputQueue, outputInvChan>>
    BY <1>3, <1>4, <2>1, WorkIs, Zenon
  <2>3. QED
    BY <1>1, <2>2, WorkTypes, SMTT(30), Z3T(60) DEF Work, Handed
<1>11. QED
  BY <1>5, <1>6, <1>7, <1>8, <1>9, <1>10 DEF Queue, QueueTrickles

\* outHandler's steps.
LEMMA OutWorks ==
    ASSUME IOInv, EndInv, disconnect, Out
    PROVE  Work' < Work
<1>1. UNCHANGED <<in, queue, stall, connClosed, quit, ext, outputQueue, outputInvChan,
                  pendingMsgs>>
  BY Zenon DEF Out, OutTakes, OutNotes, OutSkips, OutBegins, OutWrites, OutWriteFails,
     OutFailed, OutAcknowledges, OutQuits, OutDrains, Disconnect, conn, inVars, qVars, sVars, eVars, chans
<1>2. sendQueue # <<>> => Size(sendQueue) = 1
  BY SendQueue DEF IOInv, Size
<1>3. Size(<<>>) = 0 /\ Size(<<"send">>) = 1
  BY DEF Size
<1>4. CASE OutSkips \/ OutBegins \/ OutWrites \/ OutWriteFails \/ OutFailed \/ OutQuits
  <2>1. /\ UNCHANGED <<sendQueue, sendDoneQueue, stallControl>>
        /\ \/ out = "write" /\ out' \in {"sent", "writing"}
           \/ out = "writing" /\ out' \in {"sent", "failed"}
           \/ out = "failed" /\ out' = "run"
           \/ out = "run" /\ out' = "drain"
    BY <1>4, Zenon DEF OutSkips, OutBegins, OutWrites, OutWriteFails, OutFailed, OutQuits,
       chans
  <2>2. OutWork(out') < OutWork(out) /\ OutWork(out') \in Nat
    BY <2>1, WorkIs, SMTT(30)
  <2>3. QED
    BY <1>1, <2>1, <2>2, WorkTypes, SMTT(30), Z3T(60) DEF Work, Handed
<1>5. CASE OutTakes
  <2>1. /\ UNCHANGED <<sendDoneQueue, stallControl>> /\ out = "run" /\ out' = "note"
        /\ sendQueue # <<>> /\ sendQueue' = <<>>
    BY <1>5 DEF OutTakes
  <2>2. /\ UNCHANGED <<sendDoneQueue, stallControl>>
        /\ OutWork(out) = 2 /\ OutWork(out') = 8
        /\ Size(sendQueue) = 1 /\ Size(sendQueue') = 0
    BY <1>2, <1>3, <2>1, WorkIs, Zenon
  <2>3. QED
    BY <1>1, <2>2, WorkTypes, SMTT(30), Z3T(60) DEF Work, Handed
<1>6. CASE OutNotes
  <2>1. /\ UNCHANGED <<sendQueue, sendDoneQueue>> /\ out = "note" /\ out' = "write"
        /\ stallControl = <<>> /\ stallControl' = <<"send">>
    BY <1>6 DEF OutNotes
  <2>2. /\ UNCHANGED <<sendQueue, sendDoneQueue>>
        /\ OutWork(out) = 8 /\ OutWork(out') = 6
        /\ Size(stallControl) = 0 /\ Size(stallControl') = 1
    BY <1>3, <2>1, WorkIs, Zenon
  <2>3. QED
    BY <1>1, <2>2, WorkTypes, SMTT(30), Z3T(60) DEF Work, Handed
<1>7. CASE OutAcknowledges
  <2>1. /\ UNCHANGED <<sendQueue, stallControl>> /\ out = "sent" /\ out' = "run"
        /\ sendDoneQueue = 0 /\ sendDoneQueue' = 1
    BY <1>7 DEF OutAcknowledges
  <2>2. OutWork(out) = 4 /\ OutWork(out') = 2
    BY <2>1, WorkIs, Zenon
  <2>3. QED
    BY <1>1, <2>1, <2>2, WorkTypes, SMTT(30), Z3T(60) DEF Work, Handed
<1>8. CASE OutDrains
  <2>1. /\ UNCHANGED <<sendDoneQueue, stallControl>>
        /\ \/ sendQueue # <<>> /\ sendQueue' = <<>> /\ out' = out
           \/ out = "drain" /\ out' = "done" /\ sendQueue' = sendQueue
    BY <1>8, Zenon DEF OutDrains
  <2>2. /\ UNCHANGED <<sendDoneQueue, stallControl>>
        /\ \/ Size(sendQueue) = 1 /\ Size(sendQueue') = 0 /\ out' = out
           \/ OutWork(out) = 1 /\ OutWork(out') = 0 /\ sendQueue' = sendQueue
    BY <1>2, <1>3, <2>1, WorkIs, Zenon
  <2>3. QED
    BY <1>1, <2>2, WorkTypes, SMTT(30), Z3T(60) DEF Work, Handed
<1>9. QED
  BY <1>4, <1>5, <1>6, <1>7, <1>8 DEF Out

\* stallHandler's steps.
LEMMA StallWorks ==
    ASSUME IOInv, EndInv, disconnect, Stall
    PROVE  Work' < Work
<1>1. UNCHANGED <<in, queue, out, connClosed, quit, ext, outputQueue, outputInvChan,
                  pendingMsgs, sendQueue, sendDoneQueue>>
  BY Zenon DEF Stall, StallListens, StallStops, conn, inVars, qVars, oVars, eVars
<1>2. \/ stallControl # <<>> /\ stallControl' = <<>> /\ stall' = stall
      \/ stall = "run" /\ stall' = "half" /\ stallControl' = stallControl
      \/ stall = "half" /\ stall' = "done" /\ stallControl' = <<>>
  BY Zenon DEF Stall, StallListens, StallStops
<1>3. Size(<<>>) = 0 /\ (stallControl # <<>> => Size(stallControl) = 1)
  BY DEF EndInv, Places, Size
<1>4. \/ Size(stallControl) = 1 /\ Size(stallControl') = 0 /\ stall' = stall
      \/ StallWork(stall) = 2 /\ StallWork(stall') = 1 /\ stallControl' = stallControl
      \/ /\ StallWork(stall) = 1 /\ StallWork(stall') = 0
         /\ Size(stallControl') = 0
  BY <1>2, <1>3, WorkIs, Zenon
<1>5. QED
  BY <1>1, <1>4, WorkTypes, SMTT(30), Z3T(60) DEF Work, Handed

\* Once Disconnect has been called, every step of every goroutine is one of
\* finitely many: what is left to be done, a number, gets smaller with each.
\* No handler goes round its loop for ever on a closed connection, and none
\* keeps another one busy, whatever the channels hold and however the
\* goroutines are scheduled.
THEOREM DisconnectEnds ==
    Spec => [][disconnect => Work \in Nat /\ Work' \in Nat /\ Work' < Work]_vars
<1>1. IOInv /\ EndInv => Work \in Nat
  BY WorkTypes, SMTT(30) DEF Work, Handed
<1>2. (IOInv /\ EndInv)' => (Work \in Nat)'
  BY <1>1, PTL
<1>3. IOInv /\ EndInv /\ Next /\ disconnect => Work' < Work
  BY CloseWorks, InWorks, QueueWorks, OutWorks, StallWorks DEF Next
<1>4. IOInv /\ EndInv /\ (IOInv /\ EndInv)' /\ [Next]_vars
      => [disconnect => Work \in Nat /\ Work' \in Nat /\ Work' < Work]_vars
  BY <1>1, <1>2, <1>3
<1>5. QED
  BY <1>4, IOInvariant, EndInvariant, PTL DEF Spec

-----------------------------------------------------------------------------
\* Some goroutine's next statement can go ahead: the guards of its steps.
GoesAhead ==
    \/ closer # "none"
    \/ in \in {"run", "handle", "check", "exit", "quit"}
    \/ in = "read" /\ connClosed
    \/ in \in {"recv", "start", "hdone"} /\ stallControl = <<>>
    \/ in = "send" /\ Len(outputQueue) < outputBufferSize
    \/ in = "wait" /\ signalled
    \/ queue \in {"run", "drain"}
    \/ queue = "put" /\ sendQueue = <<>>
    \/ out \in {"run", "write", "failed"}
    \/ out = "note" /\ stallControl = <<>>
    \/ out = "writing" /\ connClosed
    \/ out = "sent" /\ sendDoneQueue = 0
    \/ out = "drain" /\ queue = "done"
    \/ /\ stall \in {"run", "half"}
       /\ stallControl # <<>> \/ in = "done" \/ out = "done"

\* The channel never holds more than it has room for.
LEMMA RoomInit == Init => Len(outputQueue) <= outputBufferSize
BY BufferAssumption DEF Init

\* ... and no step puts more into it.
LEMMA RoomStep ==
    ASSUME IOInv, [Next]_vars, Len(outputQueue) <= outputBufferSize
    PROVE  Len(outputQueue') <= outputBufferSize
<1>1. /\ outputQueue \in Seq(Packet) /\ Len(outputQueue) \in Nat
      /\ outputBufferSize \in Nat /\ {next} \in Packet
  BY BufferAssumption, LenProperties DEF IOInv, Types, Packet
<1>2. \/ outputQueue' = outputQueue
      \/ outputQueue # <<>> /\ outputQueue' = Tail(outputQueue)
      \/ /\ Len(outputQueue) < outputBufferSize
         /\ outputQueue' = Append(outputQueue, {next})
  <2>1. CASE Close \/ ExtDisconnects \/ ExtChecks \/ ExtSends \/ StallDisconnects \/ UNCHANGED vars
    BY <2>1, Zenon DEF Close, CloseConn, CloseQuit, ExtDisconnects, ExtChecks, ExtSends,
       StallDisconnects, chans, vars
  <2>2. CASE In
    BY <2>2, Zenon DEF In, InLoops, InReads, InReadFails, InNotes, InHandles, InChecks, InSends,
       InAnswered, InExits, InQuits, chans
  <2>3. CASE Queue \/ Stall
    BY <2>3, Zenon DEF Queue, QueueTakes, QueueTakesInv, QueueTrickles, QueueSendDone,
       QueuePuts, QueueQuits, QueueDrains, Stall, StallListens, StallStops, chans
  <2>4. CASE Out
    BY <2>4, Zenon DEF Out, OutTakes, OutNotes, OutSkips, OutBegins, OutWrites, OutWriteFails,
       OutFailed, OutAcknowledges, OutQuits, OutDrains, chans
  <2>5. QED
    BY <2>1, <2>2, <2>3, <2>4 DEF Next
<1>3. /\ outputQueue # <<>> => Len(Tail(outputQueue)) = Len(outputQueue) - 1
      /\ Len(Append(outputQueue, {next})) = Len(outputQueue) + 1
  BY <1>1, HeadTailProperties, AppendProperties
<1>4. QED
  BY <1>1, <1>2, <1>3

\* After Disconnect the goroutines never all wait for each other: some
\* goroutine can go ahead, or every handler has come to its end or to one of
\* the two places where the code leaves it behind, which HandlersStop names: a
\* listener whose message nobody takes any more, with queueHandler gone and the
\* channel full or the message in it, or a note to stallHandler, with that
\* gone.  queueHandler and outHandler send without looking at quit, and
\* inHandler and outHandler do so on stallControl; in every other state each
\* finds room, or somebody there to make it.
THEOREM NeverAllWait == Spec => [](disconnect => Stopped \/ GoesAhead)
<1> DEFINE Room == Len(outputQueue) <= outputBufferSize
<1>1. ASSUME IOInv, EndInv, AnswerInv, Room, disconnect
      PROVE  Stopped \/ GoesAhead
  <2>1. SUFFICES ASSUME ~GoesAhead PROVE Stopped
    OBVIOUS
  <2>2. closer = "none" /\ quit /\ connClosed
    BY <1>1, <2>1, Zenon DEF GoesAhead, EndInv, Closing
  <2>3. queue = "put" => sendQueue = <<>>
    BY <1>1, SendQueue, SMTT(30), Z3T(60) DEF IOInv, Types, OneInFlight, InFlight
  <2>4. out = "sent" => sendDoneQueue = 0
    BY <1>1, SendQueue, SMTT(30) DEF IOInv, Types, OneInFlight, InFlight
  <2>5. queue = "done"
    BY <1>1, <2>1, <2>3, Zenon DEF GoesAhead, IOInv, Types
  <2>6. out = "done" \/ (out = "note" /\ stallControl # <<>>)
    BY <1>1, <2>1, <2>2, <2>4, <2>5, Zenon DEF GoesAhead, IOInv, Types
  <2>7. stall = "done"
    BY <1>1, <2>1, <2>6, Zenon DEF GoesAhead, EndInv, Places
  <2>8. \/ in \in {"done", "send", "wait"}
        \/ in \in {"recv", "start", "hdone"} /\ stallControl # <<>>
    BY <1>1, <2>1, <2>2, Zenon DEF GoesAhead, EndInv, Places
  <2>9. CASE in = "send"
    <3>1. /\ Len(outputQueue) \in Nat /\ outputBufferSize \in Nat
          /\ ~(Len(outputQueue) < outputBufferSize)
      BY <1>1, <2>1, <2>9, LenProperties, BufferAssumption DEF GoesAhead, IOInv, Types
    <3>2. Len(outputQueue) = outputBufferSize
      BY <1>1, <3>1
    <3>3. QED
      BY <2>5, <2>6, <2>7, <2>9, <3>2, Zenon DEF Stopped, Abandoned, Unheard
  <2>10. CASE in = "wait"
    <3>1. ~signalled /\ out = "done"
      BY <1>1, <2>1, <2>6, <2>7, <2>10, Zenon DEF GoesAhead, EndInv, Places
    <3>2. OnItsWay(waited)
      BY <1>1, <2>10, <3>1, Zenon DEF AnswerInv, WaitsForOne
    <3>3. held = {} /\ sending = {} /\ pendingMsgs = <<>> /\ sendQueue = <<>>
      BY <1>1, <2>5, <3>1 DEF AnswerInv, Hands
    <3>4. Holds(outputQueue, waited)
      BY <3>2, <3>3, HoldsNone, Zenon DEF OnItsWay
    <3>5. QED
      BY <2>5, <2>7, <2>10, <3>1, <3>4, Zenon DEF Stopped, Abandoned, Holds
  <2>11. CASE in # "send" /\ in # "wait"
    BY <2>5, <2>6, <2>7, <2>8, <2>11, Zenon DEF Stopped, Unheard
  <2>12. QED
    BY <2>9, <2>10, <2>11
<1>2. Spec => []Room
  <2>1. Init => Room
    BY RoomInit
  <2>2. IOInv /\ Room /\ [Next]_vars => Room'
    BY RoomStep
  <2>3. QED
    BY <2>1, <2>2, IOInvariant, PTL DEF Spec
<1>3. QED
  BY <1>1, <1>2, IOInvariant, EndInvariant, AnswerInvariant, PTL
=============================================================================
