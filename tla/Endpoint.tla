------------------------------ MODULE Endpoint ------------------------------
(***************************************************************************)
(* A Firehose endpoint as the tool connected to it sees it: the limiter of *)
(* requests (firehose/rate) and the handler of a stream (firehose/server), *)
(* from the request to its status.  What the stream of bstream hands to    *)
(* the handler is external: `Feed`, the blocks with their steps, in order. *)
(*                                                                         *)
(* The tool has one connection, with at most `WireSize` responses on the   *)
(* way.  Other clients only count by the tokens their handlers hold.       *)
(***************************************************************************)
EXTENDS Integers, Sequences, SequencesExt

CONSTANTS
    Feed,         \* what the stream yields: [num, id, parent, steps]
    BucketSize,   \* size of the limiter's bucket, 0 without limiter
    WireSize      \* bound: responses on the way to the client

ASSUME EndpointAssumption == BucketSize \in Nat /\ WireSize \in Nat \ {0}

VARIABLES
    tokens,   \* the tokens in the bucket
    conn,     \* the connection of the tool: [phase, req, left, wire, status]
    others    \* the handlers of other clients and of clients that are gone

endpointVars == <<tokens, conn, others>>

NoRequest == [start |-> 0, stop |-> 0, final |-> FALSE]
NoConn == [phase |-> "none", req |-> NoRequest, left |-> <<>>, wire |-> <<>>, status |-> "none"]

\* The blocks of the request that the stream hands over; the stop block is the last.
InRequest(e, req) ==
    /\ e.num >= req.start
    /\ req.stop > 0 => e.num <= req.stop
    /\ req.final => "irreversible" \in e.steps

StreamOf(req) ==
    LET upTo[i \in 0..Len(Feed)] ==
            IF i = 0 THEN <<>>
            ELSE IF InRequest(Feed[i], req) THEN Append(upTo[i - 1], Feed[i])
            ELSE upTo[i - 1]
    IN  upTo[Len(Feed)]

StopReached(req) == req.stop > 0 /\ \E i \in DOMAIN Feed : Feed[i].num >= req.stop

\* stepToProto
StepToProto(steps, final) ==
    IF final THEN (IF "irreversible" \in steps THEN "FINAL" ELSE "skip")
    ELSE IF "new" \in steps THEN "NEW"
    ELSE IF "undo" \in steps THEN "UNDO"
    ELSE "skip"

EndpointInit ==
    /\ tokens = BucketSize
    /\ conn = NoConn
    /\ others = 0

\* The tool sends its request.
Ask(req) ==
    /\ conn' = [NoConn EXCEPT !.phase = "asked", !.req = req]
    /\ UNCHANGED <<tokens, others>>

\* Take, which never waits: a stream is opened with a token ...
Take == tokens' = IF BucketSize = 0 THEN tokens ELSE tokens - 1

Admit ==
    /\ conn.phase = "asked" /\ (BucketSize = 0 \/ tokens > 0)
    /\ Take
    /\ conn' = [conn EXCEPT !.phase = "open", !.left = StreamOf(conn.req)]
    /\ UNCHANGED others

\* ... and refused without one, after a delay of one to four seconds.
Refuse ==
    /\ conn.phase = "asked" /\ BucketSize > 0 /\ tokens = 0
    /\ conn' = [conn EXCEPT !.phase = "closed", !.status = "error"]
    /\ UNCHANGED <<tokens, others>>

\* The drip of the limiter's goroutine.
Drip ==
    /\ tokens < BucketSize
    /\ tokens' = tokens + 1
    /\ UNCHANGED <<conn, others>>

\* Mutant: Return without its default branch, in a bucket that grows.
ReturnAlways == tokens' = IF BucketSize = 0 THEN tokens ELSE tokens + 1

\* The deferred Return: a token that finds the bucket full is dropped.
Return == tokens' = IF tokens < BucketSize THEN tokens + 1 ELSE tokens

\* The handler function: one block of the stream.
Deliver ==
    /\ conn.phase = "open" /\ conn.left # <<>> /\ Len(conn.wire) < WireSize
    /\ LET e == Head(conn.left)
           step == StepToProto(e.steps, conn.req.final)
           resp == [num |-> e.num, id |-> e.id, parent |-> e.parent, step |-> step]
       IN  conn' = [conn EXCEPT !.left = Tail(@),
                                !.wire = IF step = "skip" THEN @ ELSE Append(@, resp)]
    /\ UNCHANGED <<tokens, others>>

\* ErrStopBlockReached: the stream ends without error.
StreamStops ==
    /\ conn.phase = "open" /\ conn.left = <<>> /\ StopReached(conn.req)
    /\ conn' = [conn EXCEPT !.phase = "closed", !.status = "EOF"]
    /\ Return
    /\ UNCHANGED others

\* Every other end is an error for the client: Canceled, Unavailable, Internal.
StreamFails ==
    /\ conn.phase = "open"
    /\ conn' = [conn EXCEPT !.phase = "closed", !.status = "error"]
    /\ Return
    /\ UNCHANGED others

\* The tool goes away; the handler notices when it sends, or by its context.
Disconnect ==
    /\ conn' = NoConn
    /\ others' = IF conn.phase = "open" THEN others + 1 ELSE others
    /\ UNCHANGED tokens

\* Another client takes a token; a handler that is not the tool's ends.
OtherTakes ==
    /\ BucketSize > 0 /\ tokens > 0
    /\ Take
    /\ others' = others + 1
    /\ UNCHANGED conn

OtherEnds ==
    /\ others > 0
    /\ others' = others - 1
    /\ Return
    /\ UNCHANGED conn

\* What the endpoint does by itself, failures apart.
EndpointStep == Admit \/ Refuse \/ Deliver \/ StreamStops \/ Drip
=============================================================================
