------------------------------- MODULE PeerIO -------------------------------
(***************************************************************************)
(* The goroutines of one started peer (peer/peer.go) and the channels      *)
(* between them: inHandler reads messages and runs the listeners,          *)
(* queueHandler collects what is to be sent, outHandler sends it,          *)
(* stallHandler watches both, and anybody may call Disconnect.             *)
(*                                                                         *)
(* A goroutine's step ends where it may block or where another goroutine   *)
(* can see a difference.  Disconnect is three steps: the flag, the         *)
(* connection, the quit channel.                                           *)
(***************************************************************************)
EXTENDS Naturals, Sequences

CONSTANTS
    outputBufferSize,  \* capacity of outputQueue and of outputInvChan
    MaxMsgs            \* bound: messages and inventory vectors queued

ASSUME BufferAssumption == outputBufferSize \in Nat \ {0} /\ MaxMsgs \in Nat

VARIABLES
    disconnect, connClosed, quit, \* what Disconnect does, in this order
    closer,        \* the goroutine that is inside Disconnect, or "none"
    outputQueue,   \* messages on their way to queueHandler
    outputInvChan, \* inventory on its way to queueHandler
    sendQueue,     \* at most one message on its way to outHandler
    sendDoneQueue, \* at most one acknowledgement on its way back
    stallControl,  \* at most one note to stallHandler
    in, answer,    \* inHandler: its step, and the one after an answer
    waited,        \* ... and the message whose doneChan it waits on
    queue, held,   \* queueHandler: its step and the message in its hand
    waiting,       \* ... a message is with outHandler
    pendingMsgs,   \* ... messages that wait for their turn
    invSendQueue,  \* ... inventory for the next trickle
    out, sending,  \* outHandler: its step and the message in its hand
    stall,         \* stallHandler: its step
    deadline,      \* ... a response is overdue when the ticker says so
    ext,           \* a goroutine of the server inside QueueMessage
    next,          \* number of the next message
    signalled,     \* the doneChan of the waited message was signalled
    unsent         \* packets queueHandler made that writeMessage has not done

conn   == <<disconnect, connClosed, quit, closer>>
inVars == <<in, answer, waited>>
qVars  == <<queue, held, waiting, pendingMsgs, invSendQueue>>
oVars  == <<out, sending>>
sVars  == <<stall, deadline>>
eVars  == <<ext, next>>
notes  == <<signalled, unsent>>
chans  == <<outputQueue, outputInvChan, sendQueue, sendDoneQueue, stallControl>>
vars   == <<conn, inVars, qVars, oVars, sVars, eVars, chans, notes>>

Connected == ~disconnect

\* The goroutines are started, on a connection that has been negotiated.
Init ==
    /\ disconnect = FALSE /\ connClosed = FALSE /\ quit = FALSE
    /\ closer = "none"
    /\ outputQueue = <<>> /\ outputInvChan = <<>> /\ sendQueue = <<>>
    /\ sendDoneQueue = 0 /\ stallControl = <<>>
    /\ in = "run" /\ answer = "run" /\ waited = 0
    /\ queue = "run" /\ held = {} /\ waiting = FALSE /\ pendingMsgs = <<>>
    /\ invSendQueue = {}
    /\ out = "run" /\ sending = {}
    /\ stall = "run" /\ deadline = FALSE
    /\ ext = "none" /\ next = 1
    /\ signalled = FALSE /\ unsent = <<>>

\* doneChan <- struct{}{}, for the messages of a packet.
Signal(m) == signalled' = (signalled \/ waited \in m)

-----------------------------------------------------------------------------
\* Disconnect, called by g: only the first call does anything.
Disconnect(g) ==
    /\ disconnect' = TRUE
    /\ closer' = IF disconnect THEN closer ELSE g
    /\ UNCHANGED <<connClosed, quit>>

\* ... it closes the connection and then the quit channel.
CloseConn ==
    /\ closer # "none" /\ ~connClosed
    /\ connClosed' = TRUE
    /\ UNCHANGED <<disconnect, quit, closer, inVars, qVars, oVars, sVars, eVars,
                   chans, notes>>

CloseQuit ==
    /\ closer # "none" /\ connClosed
    /\ quit' = TRUE /\ closer' = "none"
    /\ UNCHANGED <<disconnect, connClosed, inVars, qVars, oVars, sVars, eVars,
                   chans, notes>>

\* The server, the sync manager or the idle timer calls Disconnect.
ExtDisconnects ==
    /\ ~disconnect
    /\ Disconnect("ext")
    /\ UNCHANGED <<inVars, qVars, oVars, sVars, eVars, chans, notes>>

-----------------------------------------------------------------------------
\* QueueMessage and QueueInventory look whether the peer is connected ...
ExtChecks ==
    /\ ext = "none" /\ Connected /\ next <= MaxMsgs
    /\ ext' \in {"message", "block", "tx"}
    /\ UNCHANGED <<conn, inVars, qVars, oVars, sVars, next, chans, notes>>

\* ... and then write to the channel, which blocks while it is full.
ExtSends ==
    /\ \/ /\ ext = "message" /\ Len(outputQueue) < outputBufferSize
          /\ outputQueue' = Append(outputQueue, {next})
          /\ UNCHANGED outputInvChan
       \/ /\ ext \in {"block", "tx"} /\ Len(outputInvChan) < outputBufferSize
          /\ outputInvChan' = Append(outputInvChan, <<ext, next>>)
          /\ UNCHANGED outputQueue
    /\ ext' = "none" /\ next' = next + 1
    /\ UNCHANGED <<conn, inVars, qVars, oVars, sVars, sendQueue, sendDoneQueue,
                   stallControl, notes>>

-----------------------------------------------------------------------------
\* inHandler: the loop's condition.
InLoops ==
    /\ in = "run"
    /\ in' = IF disconnect THEN "exit" ELSE "read"
    /\ UNCHANGED <<conn, answer, waited, qVars, oVars, sVars, eVars, chans, notes>>

InReads ==
    /\ in = "read" /\ ~connClosed
    /\ in' = "recv"
    /\ UNCHANGED <<conn, answer, waited, qVars, oVars, sVars, eVars, chans, notes>>

\* readMessage fails; a malformed message is answered with a reject, which
\* PushRejectMsg waits for.
InReadFails ==
    /\ in = "read"
    /\ \/ in' = "exit" /\ UNCHANGED answer
       \/ ~disconnect /\ next <= MaxMsgs /\ in' = "check" /\ answer' = "exit"
    /\ UNCHANGED <<conn, waited, qVars, oVars, sVars, eVars, chans, notes>>

\* inHandler notes a message, the start and the end of its listener.
InNotes ==
    /\ in \in {"recv", "start", "hdone"} /\ stallControl = <<>>
    /\ stallControl' = <<in>>
    /\ in' = CASE in = "recv"  -> "start"
               [] in = "start" -> "handle"
               [] in = "hdone" -> "run"
    /\ UNCHANGED <<conn, answer, waited, qVars, oVars, sVars, eVars, outputQueue,
                   outputInvChan, sendQueue, sendDoneQueue, notes>>

\* The listener returns, ends the loop, or queues a message and waits until it
\* is sent (OnGetData, PushRejectMsg).
InHandles ==
    /\ in = "handle"
    /\ \/ in' \in {"hdone", "exit"} /\ UNCHANGED answer
       \/ next <= MaxMsgs /\ in' = "check" /\ answer' \in {"hdone", "exit"}
    /\ UNCHANGED <<conn, waited, qVars, oVars, sVars, eVars, chans, notes>>

\* QueueMessage: a peer that is not connected signals doneChan at once.
InChecks ==
    /\ in = "check"
    /\ IF Connected THEN in' = "send" /\ UNCHANGED answer
                    ELSE in' = answer /\ answer' = "run"
    /\ UNCHANGED <<conn, waited, qVars, oVars, sVars, eVars, chans, notes>>

InSends ==
    /\ in = "send" /\ Len(outputQueue) < outputBufferSize
    /\ outputQueue' = Append(outputQueue, {next})
    /\ waited' = next /\ next' = next + 1
    /\ in' = "wait"
    /\ UNCHANGED <<conn, answer, qVars, oVars, sVars, ext, outputInvChan,
                   sendQueue, sendDoneQueue, stallControl, notes>>

InAnswered ==
    /\ in = "wait" /\ signalled
    /\ in' = answer /\ answer' = "run" /\ waited' = 0 /\ signalled' = FALSE
    /\ UNCHANGED <<conn, qVars, oVars, sVars, eVars, chans, unsent>>

InExits ==
    /\ in = "exit"
    /\ Disconnect("in")
    /\ in' = "quit"
    /\ UNCHANGED <<answer, waited, qVars, oVars, sVars, eVars, chans, notes>>

\* close(inQuit), once its own call of Disconnect has returned.
InQuits ==
    /\ in = "quit" /\ closer # "in"
    /\ in' = "done"
    /\ UNCHANGED <<conn, answer, waited, qVars, oVars, sVars, eVars, chans, notes>>

-----------------------------------------------------------------------------
\* Mutant: it does not remember that outHandler is busy.
queuePacket_Forgets(m) ==
    /\ unsent' = Append(unsent, m)
    /\ IF waiting THEN /\ pendingMsgs' = Append(pendingMsgs, m)
                       /\ UNCHANGED <<queue, held, waiting>>
                  ELSE /\ queue' = "put" /\ held' = m
                       /\ UNCHANGED <<pendingMsgs, waiting>>

\* queuePacket: hand the message to outHandler, or keep it while that is busy.
queuePacket(m) ==
    /\ unsent' = Append(unsent, m)
    /\ waiting' = TRUE
    /\ IF waiting THEN pendingMsgs' = Append(pendingMsgs, m)
                       /\ UNCHANGED <<queue, held>>
                  ELSE queue' = "put" /\ held' = m /\ UNCHANGED pendingMsgs

QueueTakes ==
    /\ queue = "run" /\ outputQueue # <<>>
    /\ queuePacket(Head(outputQueue))
    /\ outputQueue' = Tail(outputQueue)
    /\ UNCHANGED <<conn, inVars, invSendQueue, oVars, sVars, eVars,
                   outputInvChan, sendQueue, sendDoneQueue, stallControl,
                   signalled>>

\* A block is announced at once, a transaction with the next trickle.
QueueTakesInv ==
    /\ queue = "run" /\ outputInvChan # <<>>
    /\ outputInvChan' = Tail(outputInvChan)
    /\ LET iv == Head(outputInvChan) IN
         IF iv[1] = "block"
         THEN queuePacket({iv[2]}) /\ UNCHANGED invSendQueue
         ELSE /\ invSendQueue' = invSendQueue \cup {iv[2]}
              /\ UNCHANGED <<queue, held, waiting, pendingMsgs, unsent>>
    /\ UNCHANGED <<conn, inVars, oVars, sVars, eVars, outputQueue, sendQueue,
                   sendDoneQueue, stallControl, signalled>>

\* The trickle: what the peer has learnt meanwhile is left out.
QueueTrickles ==
    /\ queue = "run" /\ ~disconnect /\ invSendQueue # {}
    /\ invSendQueue' = {}
    /\ \/ \E m \in (SUBSET invSendQueue) \ {{}} : queuePacket(m)
       \/ UNCHANGED <<queue, held, waiting, pendingMsgs, unsent>>
    /\ UNCHANGED <<conn, inVars, oVars, sVars, eVars, chans, signalled>>

\* Mutant: the next message may go, whether or not some are pending.
QueueSendDone_Idle ==
    /\ queue = "run" /\ sendDoneQueue = 1
    /\ sendDoneQueue' = 0
    /\ waiting' = FALSE
    /\ UNCHANGED <<queue, held, pendingMsgs>>
    /\ UNCHANGED <<conn, inVars, invSendQueue, oVars, sVars, eVars,
                   outputQueue, outputInvChan, sendQueue, stallControl, notes>>

\* outHandler is done with a message: the next one is due.
QueueSendDone ==
    /\ queue = "run" /\ sendDoneQueue = 1
    /\ sendDoneQueue' = 0
    /\ IF pendingMsgs = <<>>
       THEN waiting' = FALSE /\ UNCHANGED <<queue, held, pendingMsgs>>
       ELSE /\ queue' = "put" /\ held' = Head(pendingMsgs)
            /\ pendingMsgs' = Tail(pendingMsgs)
            /\ UNCHANGED waiting
    /\ UNCHANGED <<conn, inVars, invSendQueue, oVars, sVars, eVars,
                   outputQueue, outputInvChan, sendQueue, stallControl, notes>>

\* sendQueue <- msg
QueuePuts ==
    /\ queue = "put" /\ sendQueue = <<>>
    /\ sendQueue' = <<held>>
    /\ queue' = "run" /\ held' = {}
    /\ UNCHANGED <<conn, inVars, waiting, pendingMsgs, invSendQueue,
                   oVars, sVars, eVars, outputQueue, outputInvChan,
                   sendDoneQueue, stallControl, notes>>

QueueQuits ==
    /\ queue = "run" /\ quit
    /\ queue' = "drain"
    /\ UNCHANGED <<conn, inVars, held, waiting, pendingMsgs, invSendQueue,
                   oVars, sVars, eVars, chans, notes>>

\* Mutant: the pending messages are dropped without a signal.
QueueDrains_Silent ==
    /\ queue = "drain"
    /\ pendingMsgs' = <<>> /\ outputQueue' = <<>> /\ outputInvChan' = <<>>
    /\ queue' = "done"
    /\ UNCHANGED <<conn, inVars, held, waiting, invSendQueue, oVars,
                   sVars, eVars, sendQueue, sendDoneQueue, stallControl, notes>>

\* Before it goes, queueHandler signals everything it still has, and empties
\* the channels until it finds them empty: close(queueQuit).
QueueDrains ==
    /\ queue = "drain"
    /\ \/ /\ pendingMsgs # <<>>
          /\ Signal(Head(pendingMsgs))
          /\ pendingMsgs' = Tail(pendingMsgs)
          /\ UNCHANGED <<queue, outputQueue, outputInvChan>>
       \/ /\ pendingMsgs = <<>> /\ outputQueue # <<>>
          /\ Signal(Head(outputQueue))
          /\ outputQueue' = Tail(outputQueue)
          /\ UNCHANGED <<queue, pendingMsgs, outputInvChan>>
       \/ /\ pendingMsgs = <<>> /\ outputInvChan # <<>>
          /\ outputInvChan' = Tail(outputInvChan)
          /\ UNCHANGED <<queue, pendingMsgs, outputQueue, signalled>>
       \/ /\ pendingMsgs = <<>> /\ outputQueue = <<>> /\ outputInvChan = <<>>
          /\ queue' = "done"
          /\ UNCHANGED <<pendingMsgs, outputQueue, outputInvChan, signalled>>
    /\ UNCHANGED <<conn, inVars, held, waiting, invSendQueue, oVars,
                   sVars, eVars, sendQueue, sendDoneQueue, stallControl, unsent>>

-----------------------------------------------------------------------------
OutTakes ==
    /\ out = "run" /\ sendQueue # <<>>
    /\ sending' = Head(sendQueue) /\ sendQueue' = <<>>
    /\ out' = "note"
    /\ UNCHANGED <<conn, inVars, qVars, sVars, eVars, outputQueue,
                   outputInvChan, sendDoneQueue, stallControl, notes>>

\* stallControl <- sccSendMessage
OutNotes ==
    /\ out = "note" /\ stallControl = <<>>
    /\ stallControl' = <<"send">>
    /\ out' = "write"
    /\ UNCHANGED <<conn, inVars, qVars, sending, sVars, eVars, outputQueue,
                   outputInvChan, sendQueue, sendDoneQueue, notes>>

\* Mutant: nobody hears of a message that is passed over.
OutSkips_Silent ==
    /\ out = "write" /\ disconnect
    /\ unsent' = Tail(unsent)
    /\ sending' = {} /\ out' = "sent"
    /\ UNCHANGED <<conn, inVars, qVars, sVars, eVars, chans, signalled>>

\* writeMessage does nothing once Disconnect was called, which outHandler takes
\* for a message that was sent ...
OutSkips ==
    /\ out = "write" /\ disconnect
    /\ unsent' = Tail(unsent) /\ Signal(sending)
    /\ sending' = {} /\ out' = "sent"
    /\ UNCHANGED <<conn, inVars, qVars, sVars, eVars, chans>>

\* ... and otherwise writes to the connection, for as long as that takes.
OutBegins ==
    /\ out = "write" /\ ~disconnect
    /\ out' = "writing"
    /\ UNCHANGED <<conn, inVars, qVars, sending, sVars, eVars, chans, notes>>

OutWrites ==
    /\ out = "writing" /\ ~connClosed
    /\ unsent' = Tail(unsent) /\ Signal(sending)
    /\ sending' = {} /\ out' = "sent"
    /\ UNCHANGED <<conn, inVars, qVars, sVars, eVars, chans>>

\* The connection is closed, or writing fails: no acknowledgement is sent.
OutWriteFails ==
    /\ out = "writing"
    /\ Disconnect("out")
    /\ out' = "failed"
    /\ UNCHANGED <<inVars, qVars, sending, sVars, eVars, chans, notes>>

OutFailed ==
    /\ out = "failed" /\ closer # "out"
    /\ Signal(sending)
    /\ sending' = {} /\ out' = "run"
    /\ UNCHANGED <<conn, inVars, qVars, sVars, eVars, chans, unsent>>

OutAcknowledges ==
    /\ out = "sent" /\ sendDoneQueue = 0
    /\ sendDoneQueue' = 1
    /\ out' = "run"
    /\ UNCHANGED <<conn, inVars, qVars, sending, sVars, eVars, outputQueue,
                   outputInvChan, sendQueue, stallControl, notes>>

OutQuits ==
    /\ out = "run" /\ quit
    /\ out' = "drain"
    /\ UNCHANGED <<conn, inVars, qVars, sending, sVars, eVars, chans, notes>>

\* outHandler waits for queueQuit, empties sendQueue and closes outQuit.
OutDrains ==
    /\ out = "drain" /\ queue = "done"
    /\ \/ /\ sendQueue # <<>>
          /\ Signal(Head(sendQueue)) /\ sendQueue' = <<>>
          /\ UNCHANGED out
       \/ /\ sendQueue = <<>> /\ out' = "done"
          /\ UNCHANGED <<sendQueue, signalled>>
    /\ UNCHANGED <<conn, inVars, qVars, sending, sVars, eVars, outputQueue,
                   outputInvChan, sendDoneQueue, stallControl, unsent>>

-----------------------------------------------------------------------------
\* stallHandler: a message that was sent may set a deadline, one that was
\* received may clear it.
StallListens ==
    /\ stall \in {"run", "half"} /\ stallControl # <<>> /\ closer # "stall"
    /\ stallControl' = <<>>
    /\ deadline' \in {deadline} \cup (CASE Head(stallControl) = "send" -> {TRUE}
                                       [] Head(stallControl) = "recv" -> {FALSE}
                                       [] OTHER -> {})
    /\ UNCHANGED <<conn, inVars, qVars, oVars, stall, eVars, outputQueue,
                   outputInvChan, sendQueue, sendDoneQueue, notes>>

\* The ticker finds an overdue response.
StallDisconnects ==
    /\ stall \in {"run", "half"} /\ deadline /\ ~disconnect
    /\ Disconnect("stall")
    /\ UNCHANGED <<inVars, qVars, oVars, sVars, eVars, chans, notes>>

\* inQuit or outQuit is closed: the second time one of them is selected, be it
\* the same one, stallHandler empties stallControl and ends.
StallStops ==
    /\ stall \in {"run", "half"} /\ (in = "done" \/ out = "done")
    /\ closer # "stall"
    /\ IF stall = "run" THEN stall' = "half" /\ UNCHANGED stallControl
                        ELSE stall' = "done" /\ stallControl' = <<>>
    /\ UNCHANGED <<conn, inVars, qVars, oVars, deadline, eVars, outputQueue,
                   outputInvChan, sendQueue, sendDoneQueue, notes>>

-----------------------------------------------------------------------------
Close == CloseConn \/ CloseQuit

In ==
    \/ InLoops \/ InReads \/ InReadFails \/ InNotes \/ InHandles \/ InChecks
    \/ InSends \/ InAnswered \/ InExits \/ InQuits

Queue ==
    \/ QueueTakes \/ QueueTakesInv \/ QueueTrickles \/ QueueSendDone \/ QueuePuts
    \/ QueueQuits \/ QueueDrains

Out ==
    \/ OutTakes \/ OutNotes \/ OutSkips \/ OutBegins \/ OutWrites
    \/ OutWriteFails \/ OutFailed \/ OutAcknowledges \/ OutQuits \/ OutDrains

Stall == StallListens \/ StallStops

Next ==
    \/ Close \/ In \/ Queue \/ Out \/ Stall
    \/ ExtDisconnects \/ ExtChecks \/ ExtSends \/ StallDisconnects

Spec == Init /\ [][Next]_vars

\* Every goroutine that can take a step takes one: Go schedules them all, and a
\* read or a write on a closed connection returns.  Nothing says that one on an
\* open connection does (there is no write deadline), that messages arrive, are
\* queued, or that anybody disconnects.
Fairness ==
    /\ WF_vars(Close) /\ WF_vars(In /\ (in = "read" => connClosed))
    /\ WF_vars(Queue) /\ WF_vars(Out /\ (out = "writing" => connClosed))
    /\ WF_vars(Stall) /\ WF_vars(ExtSends)

FairSpec == Spec /\ Fairness

-----------------------------------------------------------------------------
\* At most one message is between queueHandler and outHandler, counting its
\* acknowledgement: neither of them can block on the other's channel, which
\* both rely on, since neither looks at quit while it sends.
InFlight ==
    (IF queue = "put" THEN 1 ELSE 0) + Len(sendQueue)
    + (IF out \in {"note", "write", "writing", "sent"} THEN 1 ELSE 0)
    + sendDoneQueue

OneInFlight == InFlight <= 1

\* Packets are written in the order in which queueHandler made them, none
\* twice and none left out, until Disconnect, after which outHandler passes
\* over what it still gets: a message that must wait is not overtaken by one
\* that comes later.
WireOrder ==
    [][(out = "writing" /\ out' = "sent") => sending = Head(unsent)]_vars

\* If every write to the connection returns in the end, a listener that waits
\* for its message to be sent gets its answer, if the message was queued before
\* queueHandler had emptied its channels for the last time: by then it was
\* sent, passed over, or failed, or it is signalled on the way out.
WaiterAnswered ==
    []<>(out # "writing") => ((in = "wait" /\ queue # "done") ~> in # "wait")

\* The listener has queued its message, or tries to, after queueHandler emptied
\* its channels for the last time: nobody takes it, and nobody answers.
Abandoned ==
    /\ queue = "done"
    /\ \/ in = "send" /\ Len(outputQueue) = outputBufferSize
       \/ in = "wait" /\ ~signalled
          /\ \E i \in DOMAIN outputQueue : waited \in outputQueue[i]

\* stallHandler has gone before the handler that has a note for it.
Unheard == stall = "done" /\ stallControl # <<>>

Stopped ==
    /\ queue = "done" /\ stall = "done"
    /\ in = "done" \/ Abandoned \/ (in \in {"recv", "start", "hdone"} /\ Unheard)
    /\ out = "done" \/ (out = "note" /\ Unheard)

\* After Disconnect queueHandler and stallHandler end, and so do inHandler and
\* outHandler, except where the code leaves one of them in a send or a receive
\* that nobody else will ever take part in: those two places and no others.
HandlersStop == quit ~> Stopped

\* What QueueMessageWithEncoding says of itself: a listener that queues a
\* message is not left behind by a peer that has disconnected.
ListenerReleased ==
    (quit /\ in \in {"send", "wait"}) ~> in \notin {"send", "wait"}
=============================================================================
