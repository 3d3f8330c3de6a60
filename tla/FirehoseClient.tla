---------------------------- MODULE FirehoseClient ----------------------------
(***************************************************************************)
(* The tool firehose-client: it receives the responses of a stream, starts *)
(* a goroutine for each to encode it, and a printer prints the lines in    *)
(* the order of a queue of promises.  The n-th response is the promise n.  *)
(***************************************************************************)
EXTENDS Endpoint, FiniteSets

CONSTANT QueueSize   \* promises in the queue (10 in the code)

ASSUME QueueAssumption == QueueSize \in Nat \ {0}

VARIABLE printer   \* [phase, cursorOnly, got, pending, queue, encoding, encoded, holding, printed]

NoPromise == 0
NewPrinter(cursorOnly) ==
    [phase |-> "receiving", cursorOnly |-> cursorOnly, got |-> <<>>, pending |-> NoPromise,
     queue |-> <<>>, encoding |-> {}, encoded |-> {}, holding |-> NoPromise, printed |-> <<>>]

\* The next response; without its lines the cursor is printed at once.
Receive ==
    /\ printer.phase = "receiving" /\ printer.pending = NoPromise /\ conn.wire # <<>>
    /\ LET resp == Head(conn.wire)
       IN  printer' = IF printer.cursorOnly
                      THEN [printer EXCEPT !.got = Append(@, resp), !.printed = Append(@, resp)]
                      ELSE [printer EXCEPT !.got = Append(@, resp), !.pending = Len(printer.got) + 1]
    /\ conn' = [conn EXCEPT !.wire = Tail(@)]
    /\ UNCHANGED <<tokens, others>>

\* resps <- resp waits for room; then the goroutine of the response starts.
Queue ==
    /\ printer.pending # NoPromise /\ Len(printer.queue) < QueueSize
    /\ printer' = [printer EXCEPT !.queue = Append(@, printer.pending),
                                  !.encoding = @ \cup {printer.pending},
                                  !.pending = NoPromise]
    /\ UNCHANGED endpointVars

\* The goroutine of a response has encoded it and offers the line.
Encode(n) ==
    /\ n \in printer.encoding
    /\ printer' = [printer EXCEPT !.encoding = @ \ {n}, !.encoded = @ \cup {n}]
    /\ UNCHANGED endpointVars

TakePromise ==
    /\ printer.holding = NoPromise /\ printer.queue # <<>>
    /\ printer' = [printer EXCEPT !.holding = Head(printer.queue), !.queue = Tail(@)]
    /\ UNCHANGED endpointVars

\* Mutant: the printer prints a line as soon as there is one.
PrintFirstEncoded ==
    /\ printer.holding # NoPromise
    /\ \E n \in printer.encoded :
           printer' = [printer EXCEPT !.printed = Append(@, printer.got[n]),
                                      !.encoded = @ \ {n}, !.holding = NoPromise]
    /\ UNCHANGED endpointVars

\* The printer waits for the line of the promise it holds.
PrintLine ==
    /\ printer.holding \in printer.encoded
    /\ printer' = [printer EXCEPT !.printed = Append(@, printer.got[printer.holding]),
                                  !.encoded = @ \ {printer.holding}, !.holding = NoPromise]
    /\ UNCHANGED endpointVars

\* The status of the stream: after EOF the queue is closed, any other ends the tool.
StatusReceived ==
    /\ printer.phase = "receiving" /\ printer.pending = NoPromise
    /\ conn.wire = <<>> /\ conn.phase = "closed"
    /\ printer' = [printer EXCEPT !.phase = IF conn.status # "EOF" THEN "failed"
                                            ELSE IF printer.cursorOnly THEN "done" ELSE "closing"]
    /\ UNCHANGED endpointVars

\* Mutant: the queue is not closed, and the printer waits for more.
AllDoneUnclosed == printer.phase = "closed" /\ printer' = [printer EXCEPT !.phase = "done"] /\ UNCHANGED endpointVars

\* allDone is closed when the printer has emptied the closed queue.
AllDone ==
    /\ printer.phase = "closing" /\ printer.queue = <<>> /\ printer.holding = NoPromise
    /\ printer' = [printer EXCEPT !.phase = "done"]
    /\ UNCHANGED endpointVars

Working == printer.phase \in {"receiving", "closing"}
ClientStep ==
    /\ Working
    /\ \/ Receive \/ Queue \/ TakePromise \/ PrintLine \/ StatusReceived \/ AllDone
       \/ \E n \in printer.encoding : Encode(n)
=============================================================================
