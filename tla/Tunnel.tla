------------------------------- MODULE Tunnel -------------------------------
(***************************************************************************)
(* Logical requests on one established tunnel: gateway-in's session and    *)
(* logicalRequest on one side, gateway-out's session and requestState on   *)
(* the other, and the frames between them.                                 *)
(*                                                                         *)
(* Sizes are counted in units of data. toOut and toIn are the frames of    *)
(* one traffic class that a side has queued and the other has not read:    *)
(* the send queue and the stream together, which deliver in order. The     *)
(* queue can be full only when that many frames are unread; a frame that   *)
(* finds it full is refused, never waited for. Tunnel-level frames travel  *)
(* in another lane, so a Drain may overtake, or be overtaken.              *)
(*                                                                         *)
(* Each step is one critical section. Deadlines, cancellations of the      *)
(* caller and the backend's answer come at any moment.                     *)
(***************************************************************************)
EXTENDS Frames, FiniteSets, SequencesExt

CONSTANTS
    Requests,
    Body, Reply,                 \* units of each call's payload and response
    MaxRequestBytes, MaxResponseBytes, \* limits of the route and of a message
    MaxDataBytes, MaxCreditBytes,      \* negotiated limits of a frame
    InitialResponseCredit,       \* gateway-in's first Credit
    ReceiveWindow,               \* gateway-out's window of a traffic class
    MaxInFlight,                 \* negotiated limit, and size of both rings
    QueueDepth,                  \* frames a send queue holds
    MayDrain,                    \* the sides, of {"in", "out"}, that may start a drain
    MayBreak                     \* the transport may break

ASSUME SizesAssumption ==
    /\ Body \in [Requests -> 0 .. MaxRequestBytes]
    /\ Reply \in [Requests -> 0 .. MaxResponseBytes]
    /\ MaxDataBytes \in Nat \ {0} /\ ReceiveWindow \in Nat \ {0}
    \* consumeSendCredit waits for a whole chunk: a smaller window never moves
    /\ InitialResponseCredit \in Nat /\ InitialResponseCredit >= MaxDataBytes
    /\ MaxCreditBytes \in Nat /\ MaxCreditBytes >= MaxDataBytes
    /\ MaxInFlight \in Nat \ {0} /\ QueueDepth \in Nat \ {0}

VARIABLES
    \* logicalRequest: where Invoke is, units sent, sequences, credits, units of
    \* the response received (in tail mode tailSize), the outcome
    phase, sent, outSeq, inSeq, sendCredit, recvCredit, got, tailSize, outcome,
    \* the requests that are isCompleted, isResponseClosed, acceptResponseTail,
    \* tailTerminal
    completed, respClosed, tail, tailTerminal,
    \* gateway-in's session: the ring of finished requests, what readLoop still
    \* has to do for the frame it read, the flags
    tombstones, reader, inDraining, localDrain, inClosed,
    \* requestState (after release: terminalRequest)
    oPhase, oInSeq, oOutSeq, oRecvCredit, oSendCredit, oBytes, left, code,
    halfClosed, peerCanceled, ctxDone,
    \* calls of the backend: running, started, units of the payload passed
    executing, executed, executedBytes,
    \* gateway-out's session
    terminals, oDrain, outClosed,
    \* frames on their way
    toOut, toIn, drainToOut, drainToIn,
    \* why the tunnel was closed while it was in use, and the requests that used
    \* up a sequence number without queuing a frame
    fault, gaps

callVars == <<phase, sent, outSeq, inSeq, sendCredit, recvCredit, got, tailSize, outcome,
              completed, respClosed, tail, tailTerminal>>
inVars == <<tombstones, reader, inDraining, localDrain, inClosed>>
stateVars == <<oPhase, oInSeq, oOutSeq, oRecvCredit, oSendCredit, oBytes, left, code,
               halfClosed, peerCanceled, ctxDone>>
execVars == <<executing, executed, executedBytes>>
outVars == <<terminals, oDrain, outClosed>>
linkVars == <<toOut, toIn, drainToOut, drainToIn>>
vars == <<callVars, inVars, stateVars, execVars, outVars, linkVars, fault, gaps>>

Live == {"started", "opened", "sending", "waiting", "aborting", "canceling"}
Held == {"open", "replying", "blocked", "closing", "closed"}

InRequests == {r \in Requests : phase[r] \in Live}
OutRequests == {r \in Requests : oPhase[r] \in Held}

Idle == [do |-> "read"]

Zero == [r \in Requests |-> 0]

Init ==
    /\ phase = [r \in Requests |-> "idle"] /\ outcome = [r \in Requests |-> "none"]
    /\ sent = Zero /\ outSeq = Zero /\ inSeq = Zero /\ sendCredit = Zero
    /\ recvCredit = Zero /\ got = Zero /\ tailSize = Zero
    /\ completed = {} /\ respClosed = {} /\ tail = {} /\ tailTerminal = {}
    /\ tombstones = <<>> /\ reader = Idle
    /\ inDraining = FALSE /\ localDrain = FALSE /\ inClosed = FALSE
    /\ oPhase = [r \in Requests |-> "absent"] /\ code = [r \in Requests |-> "none"]
    /\ oInSeq = Zero /\ oOutSeq = Zero /\ oRecvCredit = Zero /\ oSendCredit = Zero
    /\ oBytes = Zero /\ left = Zero
    /\ halfClosed = {} /\ peerCanceled = {} /\ ctxDone = {}
    /\ executing = {} /\ executed = Zero /\ executedBytes = Zero
    /\ terminals = <<>> /\ oDrain = "no" /\ outClosed = FALSE
    /\ toOut = <<>> /\ toIn = <<>> /\ drainToOut = FALSE /\ drainToIn = FALSE
    /\ fault = "none" /\ gaps = {}

Results == {"ResultOK", "ResultError"}

Frame(r, type, seq, n) == [req |-> r, type |-> type, seq |-> seq, n |-> n]

\* The v1 frame of f, with the fields both sides fill in: the class of the route,
\* a deadline, a reason, a code; a unit of size for what is not payload.
BodyOf(f) ==
    CASE f.type = "Open" -> [route |-> "profile", deadline |-> Opaque, key |-> 0, metadata |-> <<>>]
      [] f.type \in {"Data", "Credit"} -> f.n
      [] f.type = "Cancel" -> "caller"
      [] f.type = "ResultOK" -> [code |-> "ok", retryAfter |-> Nothing, metadata |-> <<>>]
      [] f.type = "ResultError" ->
            [code |-> "unavailable", retryAfter |-> Nothing, metadata |-> <<>>]
      [] OTHER -> Nothing

Wire(f) ==
    LET type == IF f.type \in Results THEN "Result" ELSE f.type
    IN  [type |-> type, unknown |-> FALSE, fields |-> <<"header", type>>,
         size |-> IF f.type = "Data" THEN f.n + 1 ELSE 1,
         header |-> [version |-> ProtocolVersion, tunnel |-> Opaque, request |-> Opaque,
                     sequence |-> f.seq, class |-> "regular"],
         body |-> BodyOf(f)]

Negotiated == [V1 EXCEPT !.data = MaxDataBytes, !.credit = MaxCreditBytes]

\* addTombstoneLocked and addTerminalLocked: the newest MaxInFlight requests.
Remember(ring, r) ==
    IF Len(ring) < MaxInFlight THEN Append(ring, r) ELSE Append(Tail(ring), r)

\* The side's frames are refused by its send queue. gateway-out queues a Result
\* together with the HalfClose before it.
InQueueFull == Len(toOut) >= QueueDepth
OutQueueFull == Len(SelectSeq(toIn, LAMBDA f : f.type \notin Results)) >= QueueDepth

\* The first cause stays.
Because(cause) == fault' = IF fault = "none" THEN cause ELSE fault

inside == <<callVars, inVars>>
outside == <<stateVars, execVars, outVars>>

----------------------------------------------------------------------------
(* gateway-in: the end of the session. *)

\* session.fail: every request still registered completes, nothing is read any more.
Fail(active, cause) ==
    /\ inClosed' = TRUE
    /\ Because(cause)
    /\ completed' = completed \cup active
    /\ outcome' = [r \in Requests |->
                      IF r \in active \ completed THEN "closed" ELSE outcome[r]]
    /\ reader' = Idle
    /\ toIn' = <<>> /\ drainToIn' = FALSE

\* readLoop's Recv ends: gateway-out closed the stream, the transport broke, or
\* keepaliveLoop missed a Pong.
ReadError ==
    /\ ~inClosed
    /\ outClosed \/ MayBreak
    /\ Fail(InRequests, IF outClosed THEN "none" ELSE "transport")
    /\ UNCHANGED <<phase, sent, outSeq, inSeq, sendCredit, recvCredit, got, tailSize,
                   respClosed, tail, tailTerminal, tombstones, inDraining, localDrain,
                   outside, toOut, drainToOut, gaps>>

----------------------------------------------------------------------------
(* gateway-in: Invoke from startRequest to finishRequest. *)

StartRequest(r) ==
    /\ phase[r] = "idle"
    /\ ~inDraining /\ ~inClosed
    /\ Cardinality(InRequests) < MaxInFlight
    /\ phase' = [phase EXCEPT ![r] = "started"]
    /\ UNCHANGED <<sent, outSeq, inSeq, sendCredit, recvCredit, got, tailSize, outcome,
                   completed, respClosed, tail, tailTerminal, inVars, outside, linkVars,
                   fault, gaps>>

\* enqueuePayloadLocked takes the next sequence number, then tries the queue.
Enqueue(r, type, n) ==
    /\ outSeq' = [outSeq EXCEPT ![r] = @ + 1]
    /\ toOut' = IF outClosed THEN toOut
                ELSE Append(toOut, Frame(r, type, outSeq[r] + 1, n))
    /\ UNCHANGED <<gaps, toIn, drainToOut, drainToIn>>

\* The number is not given back when the queue is full or the context has ended.
EnqueueRefused(r) ==
    /\ outSeq' = [outSeq EXCEPT ![r] = @ + 1]
    /\ gaps' = gaps \cup {r}
    /\ UNCHANGED linkVars

EnqueueOpen(r) ==
    /\ phase[r] = "started" /\ r \notin completed
    /\ Enqueue(r, "Open", 0)
    /\ phase' = [phase EXCEPT ![r] = "opened"]
    /\ UNCHANGED <<sent, inSeq, sendCredit, recvCredit, got, tailSize, outcome, completed,
                   respClosed, tail, tailTerminal, inVars, outside, fault>>

SendInitialResponseCredit(r) ==
    LET credit == Least(Least(InitialResponseCredit, MaxResponseBytes), MaxCreditBytes)
    IN  /\ phase[r] = "opened" /\ r \notin completed
        /\ \/ /\ Enqueue(r, "Credit", credit)
              /\ recvCredit' = [recvCredit EXCEPT ![r] = credit]
              /\ phase' = [phase EXCEPT ![r] = "sending"]
           \/ /\ EnqueueRefused(r)          \* queue full, or the caller is gone
              /\ phase' = [phase EXCEPT ![r] = "aborting"]
              /\ UNCHANGED recvCredit
        /\ UNCHANGED <<sent, inSeq, sendCredit, got, tailSize, outcome, completed,
                       respClosed, tail, tailTerminal, inVars, outside, fault>>

\* A frame of sendBody was refused: by the ended context, and Invoke cancels, or
\* by the full queue, and Invoke aborts unless the context ends meanwhile.
BodyRefused(r) ==
    /\ EnqueueRefused(r)
    /\ \/ phase' = [phase EXCEPT ![r] = "canceling"]
       \/ InQueueFull /\ phase' = [phase EXCEPT ![r] = "aborting"]

\* takeSendCredit and the Data frame it pays for.
SendData(r) ==
    LET chunk == Least(Least(Body[r] - sent[r], sendCredit[r]), MaxDataBytes)
    IN  /\ phase[r] = "sending" /\ r \notin completed
        /\ sent[r] < Body[r] /\ sendCredit[r] > 0
        /\ sendCredit' = [sendCredit EXCEPT ![r] = @ - chunk]
        /\ \/ /\ Enqueue(r, "Data", chunk)
              /\ sent' = [sent EXCEPT ![r] = @ + chunk]
              /\ UNCHANGED phase
           \/ BodyRefused(r) /\ UNCHANGED sent
        /\ UNCHANGED <<inSeq, recvCredit, got, tailSize, outcome, completed, respClosed,
                       tail, tailTerminal, inVars, outside, fault>>

AllSent(r) == sent[r] = Body[r]

SendHalfClose(r) ==
    /\ phase[r] = "sending" /\ r \notin completed
    /\ AllSent(r)
    /\ \/ /\ Enqueue(r, "HalfClose", 0)
          /\ phase' = [phase EXCEPT ![r] = "waiting"]
       \/ BodyRefused(r)
    /\ UNCHANGED <<sent, inSeq, sendCredit, recvCredit, got, tailSize, outcome, completed,
                   respClosed, tail, tailTerminal, inVars, outside, fault>>

\* The caller's context ends while Invoke waits for credit or for the outcome.
ContextEnds(r) ==
    /\ r \notin completed
    /\ \/ phase[r] = "waiting"
       \/ phase[r] = "sending" /\ sent[r] < Body[r] /\ sendCredit[r] = 0
    /\ phase' = [phase EXCEPT ![r] = "canceling"]
    /\ UNCHANGED <<sent, outSeq, inSeq, sendCredit, recvCredit, got, tailSize, outcome,
                   completed, respClosed, tail, tailTerminal, inVars, outside, linkVars,
                   fault, gaps>>

CompleteInTailMode(r, result) ==
    /\ completed' = completed \cup {r}
    /\ tail' = tail \cup {r}
    /\ tailSize' = [tailSize EXCEPT ![r] = got[r]]
    /\ outcome' = [outcome EXCEPT ![r] = result]

\* request.cancel: the outcome does not depend on whether Cancel was queued.
Cancel(r) ==
    /\ phase[r] = "canceling" /\ r \notin completed
    /\ \/ Enqueue(r, "Cancel", 0)
       \/ InQueueFull /\ EnqueueRefused(r)
    /\ CompleteInTailMode(r, "canceled")
    /\ UNCHANGED <<phase, sent, inSeq, sendCredit, recvCredit, got, respClosed,
                   tailTerminal, inVars, outside, fault>>

\* The peer is told nothing.
CompleteLocalAbort(r) ==
    /\ phase[r] = "aborting" /\ r \notin completed
    /\ CompleteInTailMode(r, "aborted")
    /\ UNCHANGED <<phase, sent, outSeq, inSeq, sendCredit, recvCredit, got, respClosed,
                   tailTerminal, inVars, outside, linkVars, fault, gaps>>

\* Mutant: a cancelled call waits for the peer's Result.
CanFinishAfterTail(r) ==
    /\ phase[r] \in Live \ {"started"} /\ r \in completed
    /\ r \in tail => r \in tailTerminal

CanFinish(r) == phase[r] \in Live \ {"started"} /\ r \in completed

\* Invoke returns: removeRequest drops the request and, once Open was queued,
\* remembers it. The last one of a tunnel the peer drains ends the session.
FinishRequest(r) ==
    /\ CanFinish(r)
    /\ phase' = [phase EXCEPT ![r] = "returned"]
    /\ tombstones' = Remember(tombstones, r)
    /\ IF inDraining /\ ~localDrain /\ ~inClosed /\ InRequests = {r}
       THEN Fail({}, "none")
       ELSE UNCHANGED <<inClosed, completed, outcome, reader, toIn, drainToIn, fault>>
    /\ UNCHANGED <<sent, outSeq, inSeq, sendCredit, recvCredit, got, tailSize, respClosed,
                   tail, tailTerminal, inDraining, localDrain, outside, toOut, drainToOut,
                   gaps>>

\* Open was not queued (closed session, full queue, ended context): Invoke goes on
\* with another tunnel, and this request leaves no trace here.
RollbackRequestBeforeOpen(r) ==
    /\ phase[r] = "started"
    /\ phase' = [phase EXCEPT ![r] = "returned"]
    /\ IF inDraining /\ ~localDrain /\ ~inClosed /\ InRequests = {r}
       THEN Fail({}, "none")
       ELSE UNCHANGED <<inClosed, completed, outcome, reader, toIn, drainToIn, fault>>
    /\ UNCHANGED <<sent, outSeq, inSeq, sendCredit, recvCredit, got, tailSize, respClosed,
                   tail, tailTerminal, tombstones, inDraining, localDrain, outside, toOut,
                   drainToOut, gaps>>

----------------------------------------------------------------------------
(* gateway-in: readLoop. *)

CanRead == ~inClosed /\ reader = Idle /\ toIn # <<>>

\* validateInbound, which ends the tunnel for a frame that fails it, as handleFrame
\* does on the other side (ValidFrame). No frame of the model does: FaultsExplained.
ValidInbound(f) ==
    LET w == Wire(f)
    IN  ValidateGatewayOutFrame(w) /\ WithinNegotiatedLimits(w, Negotiated)

Known(r) == phase[r] \in Live \/ r \in Range(tombstones)

InSequence(f) == f.seq = inSeq[f.req] + 1

\* handleInbound, and handleCompletedInboundLocked for a completed request.
Acceptable(f) ==
    LET r == f.req
    IN  /\ r \in completed => r \in tail /\ r \notin tailTerminal
        /\ CASE f.type = "Credit" -> r \in completed => r \notin respClosed
             [] f.type \in {"Data", "HalfClose"} -> r \notin respClosed
             [] OTHER -> r \in respClosed

WithinCredit(f) ==
    LET r == f.req
        received == IF r \in completed THEN tailSize[r] ELSE got[r]
    IN  CASE f.type = "Credit" -> f.n <= MaxRequestBytes - sendCredit[r]
          [] f.type = "Data" -> f.n <= recvCredit[r] /\ received + f.n <= MaxResponseBytes
          [] OTHER -> TRUE

Accepted(f) == Known(f.req) /\ InSequence(f) /\ Acceptable(f) /\ WithinCredit(f)

\* What is common to the frames that are accepted.
Consume(f) ==
    /\ inSeq' = [inSeq EXCEPT ![f.req] = @ + 1]
    /\ toIn' = Tail(toIn)
    /\ UNCHANGED <<phase, sent, outSeq, tail, tombstones, inDraining, localDrain, inClosed,
                   outside, toOut, drainToOut, drainToIn, fault, gaps>>

HandleCredit ==
    LET f == Head(toIn)
    IN  /\ CanRead /\ f.type = "Credit" /\ Accepted(f)
        /\ Consume(f)
        /\ sendCredit' = [sendCredit EXCEPT ![f.req] = @ + f.n]
        /\ UNCHANGED <<recvCredit, got, tailSize, outcome, completed, respClosed,
                       tailTerminal, reader>>

\* The response grows; the credit it used is granted again in a second critical
\* section (reader), as far as the response may still grow.
HandleData ==
    LET f == Head(toIn)
        r == f.req
        grant == Least(f.n, MaxResponseBytes - (got[r] + f.n) - (recvCredit[r] - f.n))
    IN  /\ CanRead /\ f.type = "Data" /\ Accepted(f)
        /\ Consume(f)
        /\ recvCredit' = [recvCredit EXCEPT ![r] = @ - f.n]
        /\ IF r \in completed
           THEN /\ tailSize' = [tailSize EXCEPT ![r] = @ + f.n]
                /\ UNCHANGED <<got, reader>>
           ELSE /\ got' = [got EXCEPT ![r] = @ + f.n]
                /\ reader' = IF grant = 0 THEN Idle
                             ELSE [do |-> "grant", req |-> r, n |-> grant]
                /\ UNCHANGED tailSize
        /\ UNCHANGED <<sendCredit, outcome, completed, respClosed, tailTerminal>>

HandleHalfClose ==
    LET f == Head(toIn)
    IN  /\ CanRead /\ f.type = "HalfClose" /\ Accepted(f)
        /\ Consume(f)
        /\ respClosed' = respClosed \cup {f.req}
        /\ UNCHANGED <<sendCredit, recvCredit, got, tailSize, outcome, completed,
                       tailTerminal, reader>>

HandleResult ==
    LET f == Head(toIn)
        r == f.req
    IN  /\ CanRead /\ f.type \in Results /\ Accepted(f)
        /\ Consume(f)
        /\ IF r \in completed
           THEN tailTerminal' = tailTerminal \cup {r} /\ UNCHANGED <<completed, outcome>>
           ELSE /\ completed' = completed \cup {r}
                /\ outcome' = [outcome EXCEPT ![r] = IF f.type = "ResultOK" THEN "ok"
                                                     ELSE "failed"]
                /\ UNCHANGED tailTerminal
        /\ UNCHANGED <<sendCredit, recvCredit, got, tailSize, respClosed, reader>>

\* ErrProtocolViolation: the whole session fails.
ProtocolViolation ==
    LET f == Head(toIn)
    IN  /\ CanRead /\ ~Accepted(f)
        /\ Fail(InRequests,
                IF ~Known(f.req) THEN "in: unknown request"
                ELSE IF ~InSequence(f) THEN "in: sequence"
                ELSE IF ~Acceptable(f) THEN "in: state"
                ELSE "in: credit")
        /\ UNCHANGED <<phase, sent, outSeq, inSeq, sendCredit, recvCredit, got, tailSize,
                       respClosed, tail, tailTerminal, tombstones, inDraining, localDrain,
                       outside, toOut, drainToOut, gaps>>

\* A full queue takes the credit back but not the sequence number.
GrantReceiveCredit ==
    LET r == reader.req
    IN  /\ reader.do = "grant"
        /\ \/ /\ r \in completed
              /\ reader' = Idle
              /\ UNCHANGED <<recvCredit, outSeq, linkVars, gaps>>
           \/ /\ r \notin completed
              /\ recvCredit' = [recvCredit EXCEPT ![r] = @ + reader.n]
              /\ Enqueue(r, "Credit", reader.n)
              /\ reader' = Idle
           \/ /\ r \notin completed
              /\ InQueueFull
              /\ EnqueueRefused(r)
              /\ reader' = [do |-> "abort", req |-> r, n |-> 0]
              /\ UNCHANGED recvCredit
        /\ UNCHANGED <<phase, sent, inSeq, sendCredit, got, tailSize, outcome, completed,
                       respClosed, tail, tailTerminal, tombstones, inDraining, localDrain,
                       inClosed, outside, fault>>

\* handleInbound answers ErrQueueFull with completeLocalAbort; the session goes on.
ReaderAborts ==
    LET r == reader.req
    IN  /\ reader.do = "abort"
        /\ reader' = Idle
        /\ IF r \in completed THEN UNCHANGED <<completed, tail, tailSize, outcome>>
           ELSE CompleteInTailMode(r, "aborted")
        /\ UNCHANGED <<phase, sent, outSeq, inSeq, sendCredit, recvCredit, got, respClosed,
                       tailTerminal, tombstones, inDraining, localDrain, inClosed, outside,
                       linkVars, fault, gaps>>

----------------------------------------------------------------------------
(* gateway-out: the end of the session, and its frames. *)

\* session.cancel and what run does then. Whatever the requests still do reaches
\* nobody, so they are released here; a running call of the backend goes on.
OutClose(cause) ==
    /\ outClosed' = TRUE
    /\ Because(cause)
    /\ oPhase' = [r \in Requests |-> IF r \in OutRequests THEN "released" ELSE oPhase[r]]
    /\ ctxDone' = ctxDone \cup OutRequests
    /\ toOut' = <<>> /\ drainToOut' = FALSE
    /\ UNCHANGED <<oInSeq, oOutSeq, oRecvCredit, oSendCredit, oBytes, left, code,
                   halfClosed, peerCanceled, execVars, terminals, oDrain, inside, toIn,
                   drainToIn, gaps>>

\* receiveLoop's Recv or sendLoop's Send fails, or waitPong times out.
OutReadError ==
    /\ ~outClosed
    /\ inClosed \/ MayBreak
    /\ OutClose(IF inClosed THEN "none" ELSE "transport")

\* A frame, or a HalfClose and its Result, joins the send queue.
Queue(frames) == toIn' = IF inClosed THEN toIn ELSE toIn \o frames

\* Mutant: Result repeats the number of HalfClose.
AnswerOneNumber(r, seq, result) ==
    <<Frame(r, "HalfClose", seq, 0),
      Frame(r, IF result = "ok" THEN "ResultOK" ELSE "ResultError", seq, 0)>>

Answer(r, seq, result) ==
    <<Frame(r, "HalfClose", seq, 0),
      Frame(r, IF result = "ok" THEN "ResultOK" ELSE "ResultError", seq + 1, 0)>>

----------------------------------------------------------------------------
(* gateway-out: receiveLoop. *)

\* strictCodec.Unmarshal and the checks of handleFrame before it looks at the type
ValidFrame(f) ==
    LET w == Wire(f)
    IN  DecodeGatewayInFrame(w) /\ WithinNegotiatedLimits(w, Negotiated)

CanReceive(type) == ~outClosed /\ toOut # <<>> /\ Head(toOut).type = type

Read == toOut' = Tail(toOut) /\ UNCHANGED <<drainToOut, drainToIn>>

\* handleOpen, refused: the route, the deadline or the metadata do not suit, the
\* session drains, or reserve finds the limit reached.
RejectOpen ==
    LET r == Head(toOut).req
    IN  /\ CanReceive("Open")
        /\ Queue(Answer(r, 1, "error"))
        /\ oPhase' = [oPhase EXCEPT ![r] = "released"]
        /\ oInSeq' = [oInSeq EXCEPT ![r] = 1]
        /\ terminals' = Remember(terminals, r)
        /\ Read
        /\ UNCHANGED <<oOutSeq, oRecvCredit, oSendCredit, oBytes, left, code, halfClosed,
                       peerCanceled, ctxDone, execVars, oDrain, outClosed, inside, fault, gaps>>

CanReserve == oDrain = "no" /\ Cardinality(OutRequests) < MaxInFlight

HandleOpen ==
    LET r == Head(toOut).req
        grant == Least(Least(MaxRequestBytes, ReceiveWindow), MaxCreditBytes)
    IN  /\ CanReceive("Open") /\ CanReserve
        /\ oInSeq' = [oInSeq EXCEPT ![r] = 1]
        /\ oOutSeq' = [oOutSeq EXCEPT ![r] = 1]
        /\ oRecvCredit' = [oRecvCredit EXCEPT ![r] = grant]
        /\ \/ /\ Queue(<<Frame(r, "Credit", 1, grant)>>)
              /\ oPhase' = [oPhase EXCEPT ![r] = "open"]
              /\ UNCHANGED <<terminals, ctxDone, gaps>>
           \/ /\ OutQueueFull               \* abortRequest: no Result is sent
              /\ oPhase' = [oPhase EXCEPT ![r] = "released"]
              /\ terminals' = Remember(terminals, r)
              /\ ctxDone' = ctxDone \cup {r}
              /\ gaps' = gaps \cup {r}
              /\ UNCHANGED toIn
        /\ Read
        /\ UNCHANGED <<oSendCredit, oBytes, left, code, halfClosed, peerCanceled, execVars,
                       oDrain, outClosed, inside, fault>>

\* requestForFrame finds a request that still takes payload.
TakesPayload(f) ==
    /\ f.seq = oInSeq[f.req] + 1
    /\ oPhase[f.req] = "open" /\ f.req \notin halfClosed

Fits(f) == f.n <= oRecvCredit[f.req] /\ oBytes[f.req] + f.n <= MaxRequestBytes

\* Mutant: the limit of the route is forgotten.
RegrantWindow(f) == ReceiveWindow - (oRecvCredit[f.req] - f.n)

\* Mutant: the grant is computed before the frame's credit is taken off.
RegrantTooEarly(f) ==
    Least(MaxRequestBytes - oBytes[f.req] - oRecvCredit[f.req],
          ReceiveWindow - oRecvCredit[f.req])

Regrant(f) ==
    LET credit == oRecvCredit[f.req] - f.n
    IN  Least(Least(MaxRequestBytes - (oBytes[f.req] + f.n) - credit, ReceiveWindow - credit),
              MaxCreditBytes)

\* Mutant: the grant is sent but not entered.
CreditAfterUngranted(f) == oRecvCredit[f.req] - f.n

\* Mutant: the frame's credit is not taken off.
CreditAfterUnspent(f) == oRecvCredit[f.req] + Regrant(f)

CreditAfter(f) == oRecvCredit[f.req] - f.n + Regrant(f)

HandleOutData ==
    LET f == Head(toOut)
        r == f.req
        grant == Regrant(f)
    IN  /\ CanReceive("Data") /\ TakesPayload(f) /\ Fits(f)
        /\ oInSeq' = [oInSeq EXCEPT ![r] = @ + 1]
        /\ oBytes' = [oBytes EXCEPT ![r] = @ + f.n]
        /\ oRecvCredit' = [oRecvCredit EXCEPT ![r] = CreditAfter(f)]
        /\ IF grant = 0 THEN UNCHANGED <<oOutSeq, toIn>>
           ELSE /\ oOutSeq' = [oOutSeq EXCEPT ![r] = @ + 1]
                /\ Queue(<<Frame(r, "Credit", oOutSeq[r] + 1, grant)>>)
        /\ Read
        /\ UNCHANGED <<oPhase, oSendCredit, left, code, halfClosed, peerCanceled, ctxDone,
                       execVars, outVars, inside, fault, gaps>>

\* The payload is complete: execute starts.
HandleOutHalfClose ==
    LET f == Head(toOut)
        r == f.req
    IN  /\ CanReceive("HalfClose") /\ TakesPayload(f)
        /\ oInSeq' = [oInSeq EXCEPT ![r] = @ + 1]
        /\ halfClosed' = halfClosed \cup {r}
        /\ oBytes' = [oBytes EXCEPT ![r] = 0]
        /\ executing' = executing \cup {r}
        /\ executed' = [executed EXCEPT ![r] = @ + 1]
        /\ executedBytes' = [executedBytes EXCEPT ![r] = oBytes[r]]
        /\ Read
        /\ UNCHANGED <<oPhase, oOutSeq, oRecvCredit, oSendCredit, left, code, peerCanceled,
                       ctxDone, outVars, inside, toIn, fault, gaps>>

\* updateRequestForFrame, or handleTerminalFrame for a request that has ended.
TakesControl(f) ==
    /\ f.seq = oInSeq[f.req] + 1
    /\ oPhase[f.req] \in Held \/ f.req \in Range(terminals)
    /\ f.type = "Cancel" => f.req \notin peerCanceled
    /\ f.type = "Credit" =>
        /\ oSendCredit[f.req] <= MaxResponseBytes - f.n
        /\ oPhase[f.req] \in Held \/ f.req \notin peerCanceled

\* The context ends, and completeRequest wins over watchRequest or is beaten by it.
HandleCancel ==
    LET f == Head(toOut)
        r == f.req
    IN  /\ CanReceive("Cancel") /\ TakesControl(f)
        /\ oInSeq' = [oInSeq EXCEPT ![r] = @ + 1]
        /\ peerCanceled' = peerCanceled \cup {r}
        /\ IF oPhase[r] = "open"
           THEN /\ oPhase' = [oPhase EXCEPT ![r] = "closing"]
                /\ code' = [code EXCEPT ![r] = "error"]
           ELSE UNCHANGED <<oPhase, code>>
        /\ ctxDone' = ctxDone \cup {r}
        /\ Read
        /\ UNCHANGED <<oOutSeq, oRecvCredit, oSendCredit, oBytes, left, halfClosed, execVars,
                       outVars, inside, toIn, fault, gaps>>

HandleOutCredit ==
    LET f == Head(toOut)
    IN  /\ CanReceive("Credit") /\ TakesControl(f)
        /\ oInSeq' = [oInSeq EXCEPT ![f.req] = @ + 1]
        /\ oSendCredit' = [oSendCredit EXCEPT ![f.req] = @ + f.n]
        /\ Read
        /\ UNCHANGED <<oPhase, oOutSeq, oRecvCredit, oBytes, left, code, halfClosed,
                       peerCanceled, ctxDone, execVars, outVars, inside, toIn, fault, gaps>>

\* errProtocol: receiveLoop returns and run ends the session.
OutProtocolError ==
    LET f == Head(toOut)
        held == oPhase[f.req] \in Held
    IN  /\ ~outClosed /\ toOut # <<>>
        /\ \/ /\ f.type \in {"Data", "HalfClose"} /\ ~TakesPayload(f)
              /\ OutClose(IF ~held THEN "out: late payload"
                          ELSE IF f.seq # oInSeq[f.req] + 1 THEN "out: sequence"
                          ELSE IF f.req \in halfClosed THEN "out: state"
                          ELSE "out: late payload")
           \/ /\ f.type = "Data" /\ TakesPayload(f) /\ ~Fits(f)
              /\ OutClose("out: credit")
           \/ /\ f.type \in {"Cancel", "Credit"} /\ ~TakesControl(f)
              /\ OutClose(IF ~held /\ f.req \notin Range(terminals) THEN "out: unknown request"
                          ELSE IF f.seq # oInSeq[f.req] + 1 THEN "out: sequence"
                          ELSE IF f.req \in peerCanceled THEN "out: state"
                          ELSE "out: credit")

\* The frame was right, but the answer to it could not be queued: the queue is
\* full, or enqueue's select chose the request's ended context.
OutReplyRefused ==
    LET f == Head(toOut)
    IN  /\ ~outClosed /\ toOut # <<>>
        /\ \/ f.type = "Open" /\ OutQueueFull /\ OutClose("out: queue full")
           \/ /\ f.type = "Data" /\ TakesPayload(f) /\ Fits(f) /\ Regrant(f) > 0
              /\ \/ OutQueueFull /\ OutClose("out: queue full")
                 \/ f.req \in ctxDone /\ OutClose("out: request expired")

----------------------------------------------------------------------------
(* gateway-out: watchRequest, execute and completeRequest. *)

\* The deadline of Open passes.
CtxExpires(r) ==
    /\ oPhase[r] \in Held /\ r \notin ctxDone
    /\ ctxDone' = ctxDone \cup {r}
    /\ UNCHANGED <<oPhase, oInSeq, oOutSeq, oRecvCredit, oSendCredit, oBytes, left, code,
                   halfClosed, peerCanceled, execVars, outVars, inside, linkVars, fault, gaps>>

\* completeRequest's CompareAndSwap, and where it goes on.
Complete(r, result, units) ==
    /\ oPhase' = [oPhase EXCEPT ![r] = IF units > 0 THEN "replying" ELSE "closing"]
    /\ left' = [left EXCEPT ![r] = units]
    /\ code' = [code EXCEPT ![r] = result]
    /\ UNCHANGED <<oInSeq, oOutSeq, oRecvCredit, oSendCredit, oBytes, halfClosed,
                   peerCanceled, ctxDone, outVars, inside, linkVars, fault, gaps>>

\* Mutant: only a request whose payload is complete is watched.
WatchRequestExecuted(r) ==
    /\ oPhase[r] = "open" /\ r \in ctxDone /\ r \in halfClosed
    /\ Complete(r, "error", 0)
    /\ UNCHANGED execVars

WatchRequest(r) ==
    /\ oPhase[r] = "open" /\ r \in ctxDone
    /\ Complete(r, "error", 0)
    /\ UNCHANGED execVars

\* The backend answers. Nobody listens when the request has ended meanwhile.
Execute(r) ==
    /\ r \in executing
    /\ executing' = executing \ {r}
    /\ IF oPhase[r] = "open"
       THEN Complete(r, "ok", Reply[r]) \/ Complete(r, "error", 0)
       ELSE UNCHANGED <<stateVars, outVars, inside, linkVars, fault, gaps>>
    /\ UNCHANGED <<executed, executedBytes>>

\* sendResponse: consumeSendCredit waits for the credit of a whole chunk.
SendResponse(r) ==
    LET chunk == Least(left[r], MaxDataBytes)
    IN  /\ oPhase[r] \in {"replying", "blocked"}
        /\ oSendCredit[r] >= chunk
        /\ oSendCredit' = [oSendCredit EXCEPT ![r] = @ - chunk]
        /\ oOutSeq' = [oOutSeq EXCEPT ![r] = @ + 1]
        /\ left' = [left EXCEPT ![r] = @ - chunk]
        /\ \/ /\ Queue(<<Frame(r, "Data", oOutSeq[r] + 1, chunk)>>)
              /\ oPhase' = [oPhase EXCEPT ![r] = IF left[r] > chunk THEN "replying"
                                                 ELSE "closing"]
              /\ UNCHANGED <<code, gaps>>
           \/ /\ OutQueueFull
              /\ oPhase' = [oPhase EXCEPT ![r] = "closing"]
              /\ code' = [code EXCEPT ![r] = "error"]
              /\ gaps' = gaps \cup {r}
              /\ UNCHANGED toIn
        /\ UNCHANGED <<oInSeq, oRecvCredit, oBytes, halfClosed, peerCanceled, ctxDone,
                       execVars, outVars, inside, toOut, drainToOut, drainToIn, fault>>

BlockOnCredit(r) ==
    /\ oPhase[r] = "replying"
    /\ oSendCredit[r] < Least(left[r], MaxDataBytes)
    /\ oPhase' = [oPhase EXCEPT ![r] = "blocked"]
    /\ UNCHANGED <<oInSeq, oOutSeq, oRecvCredit, oSendCredit, oBytes, left, code, halfClosed,
                   peerCanceled, ctxDone, execVars, outVars, inside, linkVars, fault, gaps>>

\* Mutant: the error of sendResponse is ignored.
GiveUpResponseAsOK(r) ==
    /\ oPhase[r] = "blocked" /\ r \in ctxDone
    /\ Complete(r, "ok", 0)
    /\ UNCHANGED execVars

\* The wait for credit ends with the context; the response is cut short.
GiveUpResponse(r) ==
    /\ oPhase[r] = "blocked" /\ r \in ctxDone
    /\ Complete(r, "error", 0)
    /\ UNCHANGED execVars

\* HalfClose and Result are queued together.
QueueTail(r) ==
    /\ oPhase[r] = "closing"
    /\ \/ /\ Queue(Answer(r, oOutSeq[r] + 1, code[r]))
          /\ oOutSeq' = [oOutSeq EXCEPT ![r] = @ + 2]
          /\ oPhase' = [oPhase EXCEPT ![r] = "closed"]
          /\ oBytes' = [oBytes EXCEPT ![r] = 0]
          /\ ctxDone' = ctxDone \cup {r}
          /\ UNCHANGED <<oInSeq, oRecvCredit, oSendCredit, left, code, halfClosed,
                         peerCanceled, execVars, outVars, inside, toOut, drainToOut,
                         drainToIn, fault, gaps>>
       \/ OutQueueFull /\ OutClose("out: queue full")

Release(r) ==
    /\ oPhase[r] = "closed"
    /\ oPhase' = [oPhase EXCEPT ![r] = "released"]
    /\ terminals' = Remember(terminals, r)
    /\ UNCHANGED <<oInSeq, oOutSeq, oRecvCredit, oSendCredit, oBytes, left, code, halfClosed,
                   peerCanceled, ctxDone, execVars, oDrain, outClosed, inside, linkVars,
                   fault, gaps>>

----------------------------------------------------------------------------
(* Drain. Its frames travel in the control lane. *)

\* gateway-in: initiateDrain. The control lane may be full.
InitiateDrain ==
    /\ "in" \in MayDrain /\ ~inClosed /\ ~localDrain
    /\ inDraining' = TRUE /\ localDrain' = TRUE
    /\ \/ /\ drainToOut' = ~outClosed
          /\ UNCHANGED <<inClosed, completed, outcome, reader, toIn, drainToIn, fault>>
       \/ Fail(InRequests, "drain refused") /\ UNCHANGED drainToOut
    /\ UNCHANGED <<phase, sent, outSeq, inSeq, sendCredit, recvCredit, got, tailSize,
                   respClosed, tail, tailTerminal, tombstones, outside, toOut, gaps>>

\* gateway-in: the drain is over when no request is left and, for its own drain,
\* Drain was sent; or when drainTimer fires.
EndDrain ==
    /\ inDraining /\ ~inClosed
    /\ \/ localDrain /\ InRequests = {} /\ Fail({}, "none")
       \/ Fail(InRequests, "drain deadline")
    /\ UNCHANGED <<phase, sent, outSeq, inSeq, sendCredit, recvCredit, got, tailSize,
                   respClosed, tail, tailTerminal, tombstones, inDraining, localDrain,
                   outside, toOut, drainToOut, gaps>>

\* gateway-in reads Drain; one whose deadline has passed is an error of the peer.
HandleDrain ==
    /\ drainToIn /\ ~inClosed /\ reader = Idle
    /\ \/ /\ inDraining' = TRUE
          /\ IF InRequests = {} THEN Fail({}, "none")
             ELSE drainToIn' = FALSE
                  /\ UNCHANGED <<inClosed, completed, outcome, reader, toIn, fault>>
       \/ Fail(InRequests, "drain deadline") /\ UNCHANGED inDraining
    /\ UNCHANGED <<phase, sent, outSeq, inSeq, sendCredit, recvCredit, got, tailSize,
                   respClosed, tail, tailTerminal, tombstones, localDrain, outside, toOut,
                   drainToOut, gaps>>

\* gateway-out: drain, begun by stopSession or by handlePeerDrain.
BeginDrain ==
    /\ oDrain' = "draining"
    /\ drainToIn' = ~inClosed
    /\ UNCHANGED <<stateVars, execVars, terminals, outClosed, inside, toOut, toIn, fault, gaps>>

StopSession ==
    /\ "out" \in MayDrain /\ ~outClosed /\ oDrain = "no"
    /\ \/ BeginDrain /\ UNCHANGED drainToOut
       \/ OutClose("drain refused")         \* the control lane is full

HandlePeerDrain ==
    /\ drainToOut /\ ~outClosed
    /\ \/ oDrain = "no" /\ BeginDrain /\ drainToOut' = FALSE
       \/ /\ oDrain # "no"
          /\ drainToOut' = FALSE
          /\ UNCHANGED <<outside, inside, toOut, toIn, drainToIn, fault, gaps>>
       \/ oDrain = "no" /\ OutClose("drain refused")

\* drain returns and session.cancel follows: no request is left, or the deadline
\* has passed and abortAll ends the rest.
FinishDrain ==
    /\ oDrain = "draining" /\ ~outClosed
    /\ \/ OutRequests = {} /\ OutClose("none")
       \/ OutClose("drain deadline")

----------------------------------------------------------------------------

\* A goroutine that runs Invoke.
Invoke(r) ==
    \/ StartRequest(r) \/ EnqueueOpen(r) \/ RollbackRequestBeforeOpen(r)
    \/ SendInitialResponseCredit(r) \/ SendData(r) \/ SendHalfClose(r)
    \/ Cancel(r) \/ CompleteLocalAbort(r) \/ FinishRequest(r)

InReads ==
    \/ HandleCredit \/ HandleData \/ HandleHalfClose \/ HandleResult \/ ProtocolViolation
    \/ GrantReceiveCredit \/ ReaderAborts

OutReads ==
    \/ RejectOpen \/ HandleOpen \/ HandleOutData \/ HandleOutHalfClose \/ HandleCancel
    \/ HandleOutCredit \/ OutProtocolError \/ OutReplyRefused

CompleteRequest(r) ==
    \/ WatchRequest(r) \/ SendResponse(r) \/ BlockOnCredit(r) \/ GiveUpResponse(r)
    \/ QueueTail(r) \/ Release(r)

Next ==
    \/ \E r \in Requests :
        Invoke(r) \/ ContextEnds(r) \/ CtxExpires(r) \/ Execute(r) \/ CompleteRequest(r)
    \/ InReads \/ ReadError \/ OutReads \/ OutReadError
    \/ InitiateDrain \/ EndDrain \/ HandleDrain
    \/ StopSession \/ HandlePeerDrain \/ FinishDrain

Spec == Init /\ [][Next]_vars

\* Goroutines are scheduled and frames arrive; every call and every Open has a
\* deadline, every backend call ends with its context, a drain has a timer, and
\* a side notices that the other has gone. A new call need never be made.
Fairness ==
    /\ \A r \in Requests :
        /\ WF_vars(phase[r] # "idle" /\ Invoke(r)) /\ WF_vars(ContextEnds(r))
        /\ WF_vars(CtxExpires(r)) /\ WF_vars(Execute(r)) /\ WF_vars(CompleteRequest(r))
    /\ WF_vars(InReads) /\ WF_vars(OutReads)
    /\ WF_vars(outClosed /\ ReadError) /\ WF_vars(inClosed /\ OutReadError)
    /\ WF_vars(EndDrain) /\ WF_vars(HandleDrain)
    /\ WF_vars(HandlePeerDrain) /\ WF_vars(FinishDrain)

LiveSpec == Spec /\ Fairness

----------------------------------------------------------------------------
(* Properties. *)

Causes ==
    {"none", "transport", "drain deadline", "drain refused", "out: queue full",
     "out: request expired", "out: late payload", "in: unknown request",
     "out: unknown request", "in: sequence", "out: sequence", "in: state", "out: state",
     "in: credit", "out: credit"}

\* Every variable has its type: credits and sizes are never negative nor above
\* the limits of the route, sequence numbers count up from zero, the rings hold
\* at most MaxInFlight requests.
TypeOK ==
    /\ phase \in [Requests -> Live \cup {"idle", "returned"}]
    /\ outcome \in [Requests -> {"none", "ok", "failed", "canceled", "aborted", "closed"}]
    /\ sent \in [Requests -> 0 .. MaxRequestBytes]
    /\ sendCredit \in [Requests -> 0 .. MaxRequestBytes]
    /\ recvCredit \in [Requests -> 0 .. MaxResponseBytes]
    /\ got \in [Requests -> 0 .. MaxResponseBytes]
    /\ tailSize \in [Requests -> 0 .. MaxResponseBytes]
    /\ \A seq \in {outSeq, inSeq, oInSeq, oOutSeq, executed} : seq \in [Requests -> Nat]
    /\ \A s \in {completed, respClosed, tail, tailTerminal, halfClosed, peerCanceled, ctxDone,
                 executing, gaps} : s \subseteq Requests
    /\ \A ring \in {tombstones, terminals} :
        ring \in Seq(Requests) /\ Len(ring) <= MaxInFlight
    /\ reader = Idle \/ reader \in [do : {"grant", "abort"}, req : Requests,
                                    n : 0 .. MaxResponseBytes]
    /\ \A b \in {inDraining, localDrain, inClosed, outClosed, drainToOut, drainToIn} :
        b \in BOOLEAN
    /\ oPhase \in [Requests -> Held \cup {"absent", "released"}]
    /\ code \in [Requests -> {"none", "ok", "error"}]
    /\ oRecvCredit \in [Requests -> 0 .. MaxRequestBytes]
    /\ oBytes \in [Requests -> 0 .. MaxRequestBytes]
    /\ executedBytes \in [Requests -> 0 .. MaxRequestBytes]
    /\ oSendCredit \in [Requests -> 0 .. MaxResponseBytes]
    /\ left \in [Requests -> 0 .. MaxResponseBytes]
    /\ oDrain \in {"no", "draining"}
    /\ toOut \in Seq([req : Requests, type : {"Open", "Data", "HalfClose", "Cancel", "Credit"},
                      seq : Nat, n : Nat])
    /\ toIn \in Seq([req : Requests, type : {"Data", "HalfClose", "Credit"} \cup Results,
                     seq : Nat, n : Nat])
    /\ fault \in Causes

\* The backend is called at most once for a call, with the whole payload or not
\* at all, and Invoke returns success only with the backend's whole response:
\* no cancellation, lost credit, refused frame or drain turns into a success
\* with a cut payload (handleHalfClose, completeRequest, handleInbound).
WholeExchange ==
    \A r \in Requests :
        /\ executed[r] <= 1
        /\ executed[r] = 1 => executedBytes[r] = Body[r]
        /\ outcome[r] = "ok" => executed[r] = 1 /\ got[r] = Reply[r]

Units(frames, r, type) ==
    FoldLeft(LAMBDA n, f : IF f.req = r /\ f.type = type THEN n + f.n ELSE n, 0, frames)

\* Flow control loses and invents nothing: the credit one side may still spend,
\* plus what is on its way in either direction, is what the other side still
\* accepts. It holds for both directions of every request whose frames were all
\* queued (takeSendCredit and handleData; consumeSendCredit and
\* grantReceiveCredit).
CreditConserved ==
    inClosed \/ outClosed \/
        \A r \in Requests \ gaps :
            /\ oPhase[r] = "open" =>
                sendCredit[r] + Units(toIn, r, "Credit") + Units(toOut, r, "Data")
                    = oRecvCredit[r]
            /\ oPhase[r] \in Held =>
                oSendCredit[r] + Units(toOut, r, "Credit") + Units(toIn, r, "Data")
                    = recvCredit[r]

\* Neither side waits for credit the other believes it has: a sender without
\* credit has data or credit of its request on the way (regranted by handleData
\* on either side), so the exchange goes on without a deadline having to end it.
CreditNeverStarves ==
    inClosed \/ outClosed \/
        \A r \in Requests \ (gaps \cup completed) :
            /\ (phase[r] = "sending" /\ sent[r] < Body[r] /\ oPhase[r] = "open") =>
                sendCredit[r] + Units(toIn, r, "Credit") + Units(toOut, r, "Data") > 0
            /\ (phase[r] \in Live \ {"started", "opened"} /\ oPhase[r] = "blocked") =>
                \/ oSendCredit[r] + Units(toOut, r, "Credit") >= Least(left[r], MaxDataBytes)
                \/ Units(toIn, r, "Data") > 0
                \/ reader # Idle /\ reader.req = r

\* What a side holds or has promised to take of a payload stays within the limit
\* of the route, and gateway-out's credit within its window, so neither unsigned
\* subtraction of handleData wraps around.
ReceiveBounded ==
    \A r \in Requests :
        /\ oBytes[r] + oRecvCredit[r] <= MaxRequestBytes
        /\ oRecvCredit[r] <= ReceiveWindow
        /\ r \notin completed => got[r] + recvCredit[r] <= MaxResponseBytes

\* Two sides that both follow the protocol never send what the other's validator
\* rejects, nor disagree about credit or about the state of a request; they disagree about a sequence number only when a
\* frame was refused after its number was taken (enqueuePayloadLocked,
\* enqueueRequestFrame).
FaultsExplained ==
    /\ toOut # <<>> => ValidFrame(Head(toOut))
    /\ toIn # <<>> => ValidInbound(Head(toIn))
    /\ fault \notin {"in: state", "out: state", "in: credit", "out: credit"}
    /\ fault \in {"in: sequence", "out: sequence"} => gaps # {}

\* What ends one logical request is an error of that request only: it does not
\* close the tunnel and with it every other request. The documentation separates
\* errors of one logical request from violations of the tunnel.
OneRequestEndsAlone ==
    fault \in {"none", "transport", "drain deadline", "drain refused"}

\* A drain lets the active requests finish: while its deadline has not passed, a
\* request the backend was called for is not ended by the drain.
DrainDeliversAnswers ==
    \A r \in Requests : executed[r] > 0 /\ fault = "none" => outcome[r] # "closed"

\* Every Invoke returns: with a response, with the caller's deadline, or because
\* the tunnel was closed (wait, takeSendCredit, fail).
CallsReturn == \A r \in Requests : phase[r] \in Live ~> phase[r] = "returned"

\* gateway-out forgets every request and its backend call ends: after the
\* response, a Cancel, its deadline or the end of the session (completeRequest,
\* watchRequest, abortAll).
RequestsReleased ==
    \A r \in Requests : oPhase[r] \in Held ~> oPhase[r] = "released" /\ r \notin executing

=============================================================================
