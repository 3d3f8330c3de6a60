----------------------------- MODULE ToolsProofs -----------------------------
(***************************************************************************)
(* Proofs about the tools, for every chain, stores and plan of commands,   *)
(* and any failures, kills and other clients.                              *)
(***************************************************************************)
EXTENDS Tools, FiniteSetTheorems, WellFoundedInduction, TLAPS

-----------------------------------------------------------------------------
(* Sequences of any elements.                                              *)

IsSequence(s) == s \in Seq({s[i] : i \in DOMAIN s})

\* Its length, a name that the proofs leave folded.
Size(s) == Len(s)

\* A sequence over a set is one.
LEMMA TypedSequence ==
  ASSUME NEW S, NEW s \in Seq(S) PROVE IsSequence(s)
<1>1. s \in [1 .. Len(s) -> {s[i] : i \in DOMAIN s}] /\ Len(s) \in Nat
  OBVIOUS
<1>. QED BY <1>1 DEF IsSequence

\* The empty sequence is one, of size 0.
LEMMA EmptySequence == IsSequence(<<>>) /\ Size(<<>>) = 0
<1>1. <<>> \in Seq({})
  OBVIOUS
<1>. QED BY <1>1, TypedSequence DEF Size

\* One element more.
OneMore(t, s, x) ==
    /\ IsSequence(t) /\ Size(t) = Size(s) + 1
    /\ \A i \in 1 .. Size(s) : t[i] = s[i]
    /\ t[Size(s) + 1] = x

\* Append adds its element after the others.
LEMMA AppendSequence ==
  ASSUME NEW s, IsSequence(s), NEW x PROVE OneMore(Append(s, x), s, x)
<1> DEFINE S == {s[i] : i \in DOMAIN s} \cup {x}
<1>1. s \in Seq(S)
  <2>1. s \in [1 .. Len(s) -> S] /\ Len(s) \in Nat
    BY DEF IsSequence
  <2>. QED BY <2>1
<1>. HIDE DEF S
<1>2. x \in S
  BY DEF S
<1>3. Append(s, x) \in Seq(S)
  BY <1>1, <1>2
<1>4. IsSequence(Append(s, x))
  BY <1>3, TypedSequence
<1>. QED BY <1>1, <1>2, <1>4 DEF OneMore, Size

\* One less.
OneLess(t, s) ==
    /\ IsSequence(t) /\ Size(t) = Size(s) - 1 /\ Size(t) \in Nat
    /\ \A i \in 1 .. Size(t) : t[i] = s[i + 1]

\* Tail moves every element one place forward.
LEMMA TailSequence ==
  ASSUME NEW s, IsSequence(s), s # <<>> PROVE OneLess(Tail(s), s)
<1>1. Tail(s) \in Seq({s[i] : i \in DOMAIN s})
  BY DEF IsSequence
<1>2. IsSequence(Tail(s))
  BY <1>1, TypedSequence
<1>3. Len(Tail(s)) = Len(s) - 1 /\ Len(s) \in Nat \ {0}
  BY DEF IsSequence
<1>4. ASSUME NEW i \in 1 .. Len(s) - 1 PROVE Tail(s)[i] = s[i + 1]
  BY <1>4 DEF IsSequence
<1>. QED BY <1>2, <1>3, <1>4 DEF OneLess, Size

\* A sequence has a size, and its head is its first element.
LEMMA SizeSequence ==
  ASSUME NEW s, IsSequence(s)
  PROVE  Size(s) \in Nat /\ (s = <<>> => Size(s) = 0) /\ (s # <<>> => Head(s) = s[1])
BY DEF IsSequence, Size

\* What a prefix is, place by place.
LEMMA PrefixIs ==
  ASSUME NEW s, NEW t, IsSequence(s), IsSequence(t), Size(s) =< Size(t),
         \A i \in 1 .. Size(s) : s[i] = t[i]
  PROVE  IsPrefix(s, t) /\ (Size(s) = Size(t) => s = t)
<1>. USE DEF Size
<1>1. Len(s) \in Nat /\ Len(t) \in Nat /\ DOMAIN s = 1 .. Len(s) /\ DOMAIN t = 1 .. Len(t)
  BY DEF IsSequence
<1>2. SubSeq(s, 1, Len(s)) = [i \in 1 .. Len(s) |-> s[i]]
  BY <1>1 DEF IsSequence
<1>3. SubSeq(t, 1, Len(s)) = [i \in 1 .. Len(s) |-> t[i]]
  BY <1>1 DEF IsSequence
<1>4. SubSeq(s, 1, Len(s)) = SubSeq(t, 1, Len(s))
  BY <1>2, <1>3
<1>5. ASSUME Len(s) = Len(t) PROVE s = t
  <2>1. s = [i \in 1 .. Len(s) |-> s[i]] /\ t = [i \in 1 .. Len(t) |-> t[i]]
    BY DEF IsSequence
  <2>. QED BY <1>5, <2>1
<1>. QED BY <1>4, <1>5 DEF IsPrefix

-----------------------------------------------------------------------------
(* The printer of firehose-client.                                         *)

Waits(p) == IF p.pending = NoPromise THEN 0 ELSE 1
Holding(p) == IF p.holding = NoPromise THEN 0 ELSE 1

PrinterType(p) ==
    /\ p = [phase |-> p.phase, cursorOnly |-> p.cursorOnly, got |-> p.got, pending |-> p.pending,
            queue |-> p.queue, encoding |-> p.encoding, encoded |-> p.encoded,
            holding |-> p.holding, printed |-> p.printed]
    /\ IsSequence(p.got) /\ IsSequence(p.queue) /\ IsSequence(p.printed)
    /\ p.cursorOnly \in BOOLEAN

\* Every response received is printed, held, in the queue or about to enter it, in this order: the
\* numbers of the promises go on where the printed lines end.
Numbered(p) ==
    /\ Size(p.printed) + Holding(p) + Size(p.queue) + Waits(p) = Size(p.got)
    /\ \A i \in 1 .. Size(p.printed) : p.printed[i] = p.got[i]
    /\ p.holding # NoPromise => p.holding = Size(p.printed) + 1
    /\ \A i \in 1 .. Size(p.queue) : p.queue[i] = Size(p.printed) + Holding(p) + i
    /\ p.pending # NoPromise => p.pending = Size(p.got)

\* The promise that the printer holds, and those it will take, are a goroutine's.
Served(p) ==
    /\ NoPromise \notin p.encoding \cup p.encoded
    /\ p.holding # NoPromise => p.holding \in p.encoding \cup p.encoded
    /\ \A i \in 1 .. Size(p.queue) : p.queue[i] \in p.encoding \cup p.encoded

\* What has ended leaves nothing behind; without lines there are no promises.
Emptied(p) ==
    /\ p.cursorOnly \/ p.phase = "done" => p.holding = NoPromise /\ p.queue = <<>>
    /\ p.cursorOnly \/ p.phase \in {"closing", "done"} => p.pending = NoPromise

PrinterInv(p) == PrinterType(p) /\ Numbered(p) /\ Served(p) /\ Emptied(p)

\* A printer that has just been started satisfies the invariant.
LEMMA NewPrinterInv ==
  ASSUME NEW c \in BOOLEAN PROVE PrinterInv(NewPrinter(c))
<1>1. PrinterType(NewPrinter(c))
  BY EmptySequence DEF PrinterType, NewPrinter
<1>2. Numbered(NewPrinter(c))
  BY EmptySequence DEF Numbered, Waits, Holding, NewPrinter, NoPromise
<1>3. Served(NewPrinter(c)) /\ Emptied(NewPrinter(c))
  BY EmptySequence DEF Served, Emptied, NewPrinter, NoPromise
<1>. QED BY <1>1, <1>2, <1>3 DEF PrinterInv

\* A step of the tool keeps the account.
LEMMA ClientStepInv ==
  ASSUME PrinterInv(printer), ClientStep PROVE PrinterInv(printer')
<1> DEFINE p == printer
<1>. USE DEF NoPromise
<1>t. PrinterType(p) /\ Numbered(p) /\ Served(p) /\ Emptied(p)
  BY DEF PrinterInv
<1>n. /\ Size(p.got) \in Nat /\ Size(p.queue) \in Nat /\ Size(p.printed) \in Nat
      /\ Waits(p) \in 0 .. 1 /\ Holding(p) \in 0 .. 1
  BY <1>t, SizeSequence DEF PrinterType, Waits, Holding
<1>i. IsSequence(p.got) /\ IsSequence(p.queue) /\ IsSequence(p.printed)
  BY <1>t DEF PrinterType
<1>s. Size(p.printed) + Holding(p) + Size(p.queue) + Waits(p) = Size(p.got)
  BY <1>t DEF Numbered
<1>l. /\ \A i \in 1 .. Size(p.printed) : p.printed[i] = p.got[i]
      /\ p.holding # 0 => p.holding = Size(p.printed) + 1
      /\ p.pending # 0 => p.pending = Size(p.got)
  BY <1>t DEF Numbered
<1>q. \A i \in 1 .. Size(p.queue) : p.queue[i] = Size(p.printed) + Holding(p) + i
  BY <1>t DEF Numbered
<1>1. CASE Receive
  <2> DEFINE resp == Head(conn.wire)
         got == Append(p.got, resp)
         printed == Append(p.printed, resp)
  <2>1. p.pending = 0 /\ p.phase = "receiving"
    BY <1>1 DEF Receive
  <2>2. OneMore(got, p.got, resp) /\ OneMore(printed, p.printed, resp)
    BY <1>i, AppendSequence
  <2>3. CASE p.cursorOnly
    <3>1. printer' = [p EXCEPT !.got = got, !.printed = printed]
      BY <1>1, <2>3 DEF Receive
    <3>. HIDE DEF p, resp, got, printed
    <3>3. printer' = [phase |-> p.phase, cursorOnly |-> p.cursorOnly, got |-> got,
                      pending |-> p.pending, queue |-> p.queue, encoding |-> p.encoding,
                      encoded |-> p.encoded, holding |-> p.holding, printed |-> printed]
      BY <3>1, <1>t DEF PrinterType
    <3>4. p.holding = 0 /\ p.queue = <<>> /\ Size(p.printed) = Size(p.got)
      <4>1. p.holding = 0 /\ p.queue = <<>> /\ Holding(p) = 0 /\ Waits(p) = 0
        BY <1>t, <2>1, <2>3 DEF Emptied, Holding, Waits
      <4>2. Size(p.queue) = 0
        BY <4>1, EmptySequence
      <4>. QED BY <4>1, <4>2, <1>t, <1>n DEF Numbered
    <3>5. PrinterType(printer')
      BY <3>3, <2>2, <1>t DEF PrinterType, OneMore
    <3>6. Numbered(printer')
      BY <3>3, <2>2, <3>4, <2>1, <1>t, <1>n DEF Numbered, Holding, Waits, OneMore
    <3>7. Served(printer') /\ Emptied(printer')
      BY <3>3, <1>t DEF Served, Emptied
    <3>. QED BY <3>5, <3>6, <3>7 DEF PrinterInv
  <2>4. CASE ~p.cursorOnly
    <3>1. printer' = [p EXCEPT !.got = got, !.pending = Size(p.got) + 1]
      BY <1>1, <2>4 DEF Receive, Size
    <3>. HIDE DEF p, resp, got, printed
    <3>3. printer' = [phase |-> p.phase, cursorOnly |-> p.cursorOnly, got |-> got,
                      pending |-> Size(p.got) + 1, queue |-> p.queue, encoding |-> p.encoding,
                      encoded |-> p.encoded, holding |-> p.holding, printed |-> p.printed]
      BY <3>1, <1>t DEF PrinterType
    <3>5. PrinterType(printer')
      BY <3>3, <2>2, <1>t DEF PrinterType, OneMore
    <3>6. Numbered(printer')
      <4>1. Waits(p) = 0 /\ Waits(printer') = 1 /\ Holding(printer') = Holding(p)
        BY <3>3, <2>1, <1>n DEF Waits, Holding
      <4>2. Size(p.printed) =< Size(p.got)
        BY <1>t, <1>n DEF Numbered
      <4>. QED BY <4>1, <4>2, <3>3, <2>2, <2>1, <1>t, <1>n DEF Numbered, OneMore
    <3>7. Served(printer') /\ Emptied(printer')
      BY <3>3, <2>1, <2>4, <1>t DEF Served, Emptied
    <3>. QED BY <3>5, <3>6, <3>7 DEF PrinterInv
  <2>. QED BY <2>3, <2>4
<1>2. CASE Queue
  <2> DEFINE more == Append(p.queue, p.pending)
  <2>1. /\ p.pending # 0
        /\ printer' = [p EXCEPT !.queue = more, !.encoding = @ \cup {p.pending}, !.pending = 0]
    BY <1>2 DEF Queue
  <2>2. OneMore(more, p.queue, p.pending)
    BY <1>i, AppendSequence
  <2>. HIDE DEF p, more
  <2>3. printer' = [phase |-> p.phase, cursorOnly |-> p.cursorOnly, got |-> p.got,
                    pending |-> 0, queue |-> more,
                    encoding |-> p.encoding \cup {p.pending},
                    encoded |-> p.encoded, holding |-> p.holding, printed |-> p.printed]
    BY <2>1, <1>t DEF PrinterType
  <2>4. PrinterType(printer')
    BY <2>3, <2>2, <1>t DEF PrinterType, OneMore
  <2>5. Numbered(printer')
    <3>0. /\ printer'.printed = p.printed /\ printer'.got = p.got /\ printer'.queue = more
          /\ printer'.holding = p.holding /\ printer'.pending = 0
      BY <2>3
    <3>1. Waits(p) = 1 /\ Waits(printer') = 0 /\ Holding(printer') = Holding(p)
      BY <2>1, <3>0, <1>n DEF Waits, Holding
    <3>2. Size(printer'.printed) + Holding(printer') + Size(printer'.queue) + Waits(printer') = Size(printer'.got)
      BY <3>1, <2>2, <3>0, <1>s, <1>n DEF OneMore
    <3>3. \A i \in 1 .. Size(printer'.printed) : printer'.printed[i] = printer'.got[i]
      BY <2>2, <3>0, <1>s, <1>l, <1>n DEF OneMore
    <3>4. \A i \in 1 .. Size(printer'.queue) : printer'.queue[i] = Size(printer'.printed) + Holding(printer') + i
      BY <3>1, <2>1, <2>2, <3>0, <1>q, <1>s, <1>l, <1>n DEF OneMore
    <3>. QED BY <3>1, <3>2, <3>3, <3>4, <3>0, <1>t DEF Numbered
  <2>6. Served(printer')
    BY <2>3, <2>2, <2>1, <1>t, <1>n DEF Served, OneMore
  <2>7. Emptied(printer')
    BY <2>3, <2>1, <1>t DEF Emptied
  <2>. QED BY <2>4, <2>5, <2>6, <2>7 DEF PrinterInv
<1>3. CASE TakePromise
  <2> DEFINE rest == Tail(p.queue)  first == Head(p.queue)
  <2>1. p.holding = 0 /\ p.queue # <<>> /\ printer' = [p EXCEPT !.holding = first, !.queue = rest]
    BY <1>3 DEF TakePromise
  <2>2. OneLess(rest, p.queue) /\ first = p.queue[1]
    BY <1>i, <2>1, TailSequence, SizeSequence
  <2>. HIDE DEF p, rest, first
  <2>3. printer' = [phase |-> p.phase, cursorOnly |-> p.cursorOnly, got |-> p.got,
                    pending |-> p.pending, queue |-> rest, encoding |-> p.encoding,
                    encoded |-> p.encoded, holding |-> first, printed |-> p.printed]
    BY <2>1, <1>t DEF PrinterType
  <2>4. PrinterType(printer')
    BY <2>3, <2>2, <1>t DEF PrinterType, OneLess
  <2>a. first = Size(p.printed) + 1
    BY <2>1, <2>2, <1>t, <1>n DEF Numbered, Holding, OneLess
  <2>5. Numbered(printer')
    <3>0. /\ printer'.printed = p.printed /\ printer'.got = p.got /\ printer'.queue = rest
          /\ printer'.holding = first /\ printer'.pending = p.pending
      BY <2>3
    <3>1. Waits(printer') = Waits(p) /\ Holding(p) = 0 /\ Holding(printer') = 1
      BY <2>1, <3>0, <2>a, <1>n DEF Waits, Holding
    <3>2. Size(printer'.printed) + Holding(printer') + Size(printer'.queue) + Waits(printer') = Size(printer'.got)
      BY <3>1, <2>2, <3>0, <1>s, <1>n DEF OneLess
    <3>3. \A i \in 1 .. Size(printer'.printed) : printer'.printed[i] = printer'.got[i]
      BY <2>a, <2>2, <3>0, <1>s, <1>l, <1>n DEF OneLess
    <3>4. \A i \in 1 .. Size(printer'.queue) : printer'.queue[i] = Size(printer'.printed) + Holding(printer') + i
      BY <3>1, <2>a, <2>2, <3>0, <1>q, <1>n DEF OneLess
    <3>. QED BY <3>1, <3>2, <3>3, <3>4, <2>a, <3>0, <1>t DEF Numbered
  <2>6. Served(printer')
    BY <2>3, <2>2, <2>1, <1>t, <1>n DEF Served, OneLess
  <2>7. Emptied(printer')
    BY <2>3, <2>1, <1>t DEF Emptied
  <2>. QED BY <2>4, <2>5, <2>6, <2>7 DEF PrinterInv
<1>4. CASE PrintLine
  <2> DEFINE line == p.got[p.holding]
         more == Append(p.printed, line)
  <2>1. /\ p.holding \in p.encoded
        /\ printer' = [p EXCEPT !.printed = more, !.encoded = @ \ {p.holding}, !.holding = 0]
    BY <1>4 DEF PrintLine
  <2>2. OneMore(more, p.printed, line)
    BY <1>i, AppendSequence
  <2>b. line = p.got[p.holding]
    OBVIOUS
  <2>. HIDE DEF p, line, more
  <2>3. printer' = [phase |-> p.phase, cursorOnly |-> p.cursorOnly, got |-> p.got,
                    pending |-> p.pending, queue |-> p.queue, encoding |-> p.encoding,
                    encoded |-> p.encoded \ {p.holding}, holding |-> 0, printed |-> more]
    BY <2>1, <1>t DEF PrinterType
  <2>a. p.holding # 0 /\ p.holding = Size(p.printed) + 1 /\ Holding(p) = 1
    BY <2>1, <1>t DEF Served, Numbered, Holding
  <2>4. PrinterType(printer')
    BY <2>3, <2>2, <1>t DEF PrinterType, OneMore
  <2>5. Numbered(printer')
    <3>0. /\ printer'.printed = more /\ printer'.got = p.got /\ printer'.queue = p.queue
          /\ printer'.holding = 0 /\ printer'.pending = p.pending
      BY <2>3
    <3>1. Waits(printer') = Waits(p) /\ Holding(printer') = 0
      BY <2>1, <3>0, <2>a, <1>n DEF Waits, Holding
    <3>2. Size(printer'.printed) + Holding(printer') + Size(printer'.queue) + Waits(printer') = Size(printer'.got)
      BY <2>a, <3>1, <2>2, <3>0, <1>s, <1>n DEF OneMore
    <3>3. \A i \in 1 .. Size(printer'.printed) : printer'.printed[i] = printer'.got[i]
      BY <2>a, <2>b, <2>2, <3>0, <1>s, <1>l, <1>n DEF OneMore
    <3>4. \A i \in 1 .. Size(printer'.queue) : printer'.queue[i] = Size(printer'.printed) + Holding(printer') + i
      BY <3>1, <2>a, <2>2, <3>0, <1>q, <1>n DEF OneMore
    <3>. QED BY <3>1, <3>2, <3>3, <3>4, <2>a, <3>0, <1>t DEF Numbered
  <2>6. Served(printer')
    <3>1. ASSUME NEW i \in 1 .. Size(p.queue) PROVE p.queue[i] # p.holding
      BY <2>a, <1>t, <1>n DEF Numbered
    <3>. QED BY <3>1, <2>3, <1>t DEF Served
  <2>7. Emptied(printer')
    BY <2>3, <2>a, <1>t DEF Emptied
  <2>. QED BY <2>4, <2>5, <2>6, <2>7 DEF PrinterInv
<1>5. CASE StatusReceived
  <2>1. /\ p.phase = "receiving" /\ p.pending = 0
        /\ printer' = [p EXCEPT !.phase = IF conn.status # "EOF" THEN "failed"
                                          ELSE IF p.cursorOnly THEN "done" ELSE "closing"]
    BY <1>5 DEF StatusReceived
  <2>. HIDE DEF p
  <2> DEFINE ph == IF conn.status # "EOF" THEN "failed" ELSE IF p.cursorOnly THEN "done" ELSE "closing"
  <2>2. ph = "done" => p.cursorOnly
    OBVIOUS
  <2>3. printer' = [phase |-> ph, cursorOnly |-> p.cursorOnly, got |-> p.got,
                    pending |-> p.pending, queue |-> p.queue, encoding |-> p.encoding,
                    encoded |-> p.encoded, holding |-> p.holding, printed |-> p.printed]
    BY <2>1, <1>t DEF PrinterType
  <2>. HIDE DEF ph
  <2>4. PrinterType(printer') /\ Numbered(printer') /\ Served(printer')
    BY <2>3, <1>t DEF PrinterType, Numbered, Holding, Waits, Served
  <2>5. Emptied(printer')
    BY <2>3, <2>2, <2>1, <1>t DEF Emptied
  <2>. QED BY <2>4, <2>5 DEF PrinterInv
<1>6. CASE AllDone
  <2>1. /\ p.phase = "closing" /\ p.queue = <<>> /\ p.holding = 0
        /\ printer' = [p EXCEPT !.phase = "done"]
    BY <1>6 DEF AllDone
  <2>. HIDE DEF p
  <2>3. printer' = [phase |-> "done", cursorOnly |-> p.cursorOnly, got |-> p.got,
                    pending |-> p.pending, queue |-> p.queue, encoding |-> p.encoding,
                    encoded |-> p.encoded, holding |-> p.holding, printed |-> p.printed]
    BY <2>1, <1>t DEF PrinterType
  <2>4. PrinterType(printer') /\ Numbered(printer') /\ Served(printer')
    BY <2>3, <1>t DEF PrinterType, Numbered, Holding, Waits, Served
  <2>5. Emptied(printer')
    BY <2>3, <2>1, <1>t DEF Emptied
  <2>. QED BY <2>4, <2>5 DEF PrinterInv
<1>7. CASE \E n \in printer.encoding : Encode(n)
  <2>1. PICK n \in p.encoding : printer' = [p EXCEPT !.encoding = @ \ {n}, !.encoded = @ \cup {n}]
    BY <1>7 DEF Encode
  <2>. HIDE DEF p
  <2>3. printer' = [phase |-> p.phase, cursorOnly |-> p.cursorOnly, got |-> p.got,
                    pending |-> p.pending, queue |-> p.queue, encoding |-> p.encoding \ {n},
                    encoded |-> p.encoded \cup {n}, holding |-> p.holding, printed |-> p.printed]
    BY <2>1, <1>t DEF PrinterType
  <2>4. PrinterType(printer') /\ Numbered(printer') /\ Emptied(printer')
    BY <2>3, <1>t DEF PrinterType, Numbered, Holding, Waits, Emptied
  <2>5. Served(printer')
    BY <2>3, <1>t DEF Served
  <2>. QED BY <2>4, <2>5 DEF PrinterInv
<1>. QED BY <1>1, <1>2, <1>3, <1>4, <1>5, <1>6, <1>7 DEF ClientStep

\* Every command begins with a new printer and ends with one.
LEMMA PrinterStep ==
  ASSUME PrinterInv(printer), Next PROVE PrinterInv(printer')
<1>. USE NewPrinterInv
<1>1. ASSUME NEW result, NEW loc, Ends(result, loc) PROVE PrinterInv(printer')
  BY <1>1 DEF Ends
<1>2. ASSUME NEW f, Over(f) PROVE PrinterInv(printer')
  BY <1>1, <1>2 DEF Over
<1>3. CASE Start
  <2>1. ASSUME NEW op PROVE (op = "cursors") \in BOOLEAN
    OBVIOUS
  <2>. QED BY <1>3, <2>1, Zenon DEF Start
<1>4. CASE Visit
  BY <1>2, <1>4 DEF Visit
<1>5. CASE WalkEnds
  BY <1>2, <1>5 DEF WalkEnds
<1>6. CASE MoveFork
  BY <1>6 DEF MoveFork
<1>7. CASE ForksEnd
  BY <1>2, <1>7 DEF ForksEnd
<1>8. CASE DownloadBlock
  BY <1>1, <1>8 DEF DownloadBlock
<1>9. CASE DownloadStatus
  BY <1>1, <1>9 DEF DownloadStatus
<1>10. CASE PrintStep
  BY <1>10, ClientStepInv DEF PrintStep
<1>11. CASE PrintEnds
  BY <1>1, <1>11 DEF PrintEnds
<1>12. CASE Serve \/ StreamTrouble
  BY <1>12 DEF Serve, StreamTrouble
<1>13. CASE Kill
  BY <1>1, <1>13 DEF Kill
<1>. QED BY <1>3, <1>4, <1>5, <1>6, <1>7, <1>8, <1>9, <1>10, <1>11, <1>12, <1>13 DEF Next, ToolStep

\* The invariant of the printer holds in every state.
LEMMA PrinterAlways == Spec => []PrinterInv(printer)
<1>1. Init => PrinterInv(printer)
  BY NewPrinterInv DEF Init
<1>2. PrinterInv(printer) /\ [Next]_vars => PrinterInv(printer)'
  BY PrinterStep DEF vars
<1>. QED BY <1>1, <1>2, PTL DEF Spec

(* firehose-client prints the responses in the order it received them, and all of them when the   *)
(* stream ends without error: whatever the order the goroutines encode in, the size of the queue, *)
(* and the streams that failed or were killed before (firehose_client.go).                        *)
THEOREM PrintsInOrder == Spec => []PrintedInOrder
<1>1. PrinterInv(printer) => PrintedInOrder
  <2>. SUFFICES ASSUME PrinterInv(printer) PROVE PrintedInOrder
    OBVIOUS
  <2> DEFINE p == printer
  <2>1. /\ IsSequence(p.printed) /\ IsSequence(p.got) /\ IsSequence(p.queue)
        /\ \A i \in 1 .. Size(p.printed) : p.printed[i] = p.got[i]
        /\ Size(p.printed) + Holding(p) + Size(p.queue) + Waits(p) = Size(p.got)
        /\ p.phase = "done" => p.holding = NoPromise /\ p.queue = <<>> /\ p.pending = NoPromise
    BY DEF PrinterInv, PrinterType, Numbered, Emptied
  <2>2. Size(p.printed) \in Nat /\ Size(p.got) \in Nat /\ Size(p.queue) \in Nat
    BY <2>1, SizeSequence
  <2>3. Waits(p) \in 0 .. 1 /\ Holding(p) \in 0 .. 1
    BY DEF Waits, Holding
  <2>4. Size(p.printed) =< Size(p.got)
    BY <2>1, <2>2, <2>3
  <2>5. p.phase = "done" => Size(p.printed) = Size(p.got)
    BY <2>1, <2>2, EmptySequence DEF Waits, Holding
  <2>. HIDE DEF p
  <2>6. IsPrefix(p.printed, p.got) /\ (Size(p.printed) = Size(p.got) => p.printed = p.got)
    BY <2>1, <2>4, PrefixIs, Zenon
  <2>. QED BY <2>5, <2>6 DEF PrintedInOrder, p
<1>. QED BY <1>1, PrinterAlways, PTL

\* What the printer waits for is being encoded, or encoded and offered to it.
PrinterIsServed ==
    /\ printer.holding # NoPromise => printer.holding \in printer.encoding \cup printer.encoded
    /\ \A i \in 1 .. Size(printer.queue) : printer.queue[i] \in printer.encoding \cup printer.encoded

(* The printer never waits for a line that no goroutine will offer: every promise it holds or     *)
(* will take is one that a goroutine still encodes or has encoded and offers.  It is the safety   *)
(* half of the end of a stream, whose other half is the scheduling.                                *)
THEOREM PromisesAreKept == Spec => []PrinterIsServed
<1>1. PrinterInv(printer) => PrinterIsServed
  BY DEF PrinterInv, Served, PrinterIsServed
<1>. QED BY <1>1, PrinterAlways, PTL

-----------------------------------------------------------------------------
(* The limiter of the endpoint.                                            *)

TokensInBucket == tokens \in 0 .. BucketSize /\ others \in Nat

(* The limiter's bucket never holds more than its size, nor does a request take a token that is   *)
(* not there, whichever of the drip and the handlers' returns come first (firehose/rate).          *)
THEOREM BucketKept == Spec => []TokensInBucket
<1>. USE EndpointAssumption
<1>1. Init => TokensInBucket
  BY DEF Init, EndpointInit, TokensInBucket
<1>2. TokensInBucket /\ [Next]_vars => TokensInBucket'
  <2>. SUFFICES ASSUME TokensInBucket, [Next]_vars PROVE TokensInBucket'
    OBVIOUS
  <2>. USE DEF TokensInBucket
  <2>1. ASSUME UNCHANGED <<tokens, others>> PROVE TokensInBucket'
    BY <2>1
  <2>2. ASSUME Disconnect PROVE TokensInBucket'
    BY <2>2 DEF Disconnect
  <2>3. ASSUME NEW f, Becomes(f) PROVE TokensInBucket'
    BY <2>1, <2>3 DEF Becomes, endpointVars
  <2>4. CASE Start
    BY <2>1, <2>4 DEF Start
  <2>5. CASE Visit \/ WalkEnds \/ MoveFork \/ ForksEnd
    BY <2>3, <2>5 DEF Visit, WalkEnds, MoveFork, ForksEnd, Over
  <2>6. CASE DownloadBlock
    BY <2>1, <2>2, <2>6 DEF DownloadBlock
  <2>7. CASE DownloadStatus
    BY <2>1, <2>2, <2>7 DEF DownloadStatus, Ask
  <2>8. CASE PrintStep
    BY <2>1, <2>8 DEF PrintStep, ClientStep, Receive, Queue, TakePromise, PrintLine, StatusReceived,
                      AllDone, Encode, endpointVars
  <2>9. CASE PrintEnds \/ Kill
    BY <2>2, <2>9 DEF PrintEnds, Kill
  <2>10. CASE Serve
    BY <2>10 DEF Serve, EndpointStep, OtherEnds, Admit, Refuse, Deliver, StreamStops, Drip, Take, Return
  <2>11. CASE StreamTrouble
    BY <2>11 DEF StreamTrouble, StreamFails, OtherTakes, Take, Return
  <2>12. CASE UNCHANGED vars
    BY <2>1, <2>12 DEF vars, endpointVars
  <2>. QED BY <2>4, <2>5, <2>6, <2>7, <2>8, <2>9, <2>10, <2>11, <2>12 DEF Next, ToolStep
<1>. QED BY <1>1, <1>2, PTL DEF Spec

-----------------------------------------------------------------------------
(* Recursive functions, such as those that go through the blocks of a file.*)

Less == {p \in Nat \X Nat : p[1] < p[2]}

\* A non-empty set of numbers has a least one.
LEMMA LeastNumber ==
  ASSUME NEW T, T \subseteq Nat, T # {}
  PROVE  \E k \in T : \A j \in T : k =< j
<1>1. IsWellFoundedOn(Less, Nat)
  BY NatLessThanWellFounded DEF OpToRel, Less
<1>2. PICK k \in T : \A j \in T : ~(<<j, k>> \in Less)
  BY <1>1, WFMin
<1>3. ASSUME NEW j \in T PROVE k =< j
  <2>1. j \in Nat /\ k \in Nat
    OBVIOUS
  <2>2. j < k => <<j, k>> \in Less
    BY <2>1 DEF Less
  <2>. QED BY <1>2, <2>1, <2>2
<1>. QED BY <1>3

\* What a recursive function keeps in a set step by step is in it.
LEMMA KeptIn ==
  ASSUME NEW n \in Nat, NEW f, NEW S, f[0] \in S,
         \A i \in 1..n : f[i - 1] \in S => f[i] \in S
  PROVE  \A i \in 0..n : f[i] \in S
<1> DEFINE T == {i \in 0..n : f[i] \notin S}
<1> SUFFICES ASSUME T # {} PROVE FALSE
  OBVIOUS
<1>1. PICK k \in T : \A j \in T : k =< j
  <2>1. T \subseteq Nat
    OBVIOUS
  <2>. HIDE DEF T
  <2>. QED BY <2>1, LeastNumber
<1>2. k \in 1..n
  OBVIOUS
<1>3. k - 1 \in 0..n /\ k - 1 \notin T
  BY <1>1, <1>2
<1>. QED BY <1>2, <1>3

\* A recursion along 1..n whose step stays in a set has a solution.
Solves(f, n, base, F) == f = [i \in 0..n |-> IF i = 0 THEN base ELSE F[<<f[i - 1], i>>]]

\* A recursion over the first n numbers has a solution.
LEMMA RecursionExists ==
  ASSUME NEW n \in Nat, NEW base, NEW F
  PROVE  \E f : Solves(f, n, base, F)
<1> DEFINE T == {k \in Nat : ~ \E f : Solves(f, k, base, F)}
<1> SUFFICES ASSUME T # {} PROVE FALSE
  OBVIOUS
<1>1. PICK k \in T : \A j \in T : k =< j
  <2>1. T \subseteq Nat
    OBVIOUS
  <2>. HIDE DEF T
  <2>. QED BY <2>1, LeastNumber
<1>2. k # 0
  <2>1. Solves([i \in 0..0 |-> base], 0, base, F)
    BY DEF Solves
  <2>. QED BY <2>1
<1>3. k - 1 \in Nat /\ k - 1 \notin T
  BY <1>1, <1>2
<1>4. PICK f : Solves(f, k - 1, base, F)
  BY <1>3
<1> DEFINE g == [i \in 0..k |-> IF i = 0 THEN base ELSE F[<<f[i - 1], i>>]]
<1>5. \A i \in 0..k - 1 : g[i] = f[i]
  BY <1>4, <1>3 DEF Solves
<1>6. Solves(g, k, base, F)
  <2>1. \A i \in 0..k : i # 0 => g[i - 1] = f[i - 1]
    BY <1>5, <1>3
  <2>. QED BY <2>1 DEF Solves
<1>. QED BY <1>6

\* One whose step stays in a set has a solution in it, and so is every solution.
LEMMA RecursionIn ==
  ASSUME NEW n \in Nat, NEW S, NEW base \in S, NEW F,
         \A x \in S, i \in 1..n : F[<<x, i>>] \in S
  PROVE  /\ \E f : Solves(f, n, base, F) /\ \A i \in 0..n : f[i] \in S
<1>1. PICK f : Solves(f, n, base, F)
  BY RecursionExists
<1>2. f[0] \in S
  BY <1>1 DEF Solves
<1>3. \A i \in 1..n : f[i - 1] \in S => f[i] \in S
  <2> SUFFICES ASSUME NEW i \in 1..n, f[i - 1] \in S PROVE f[i] \in S
    OBVIOUS
  <2>1. f[i] = F[<<f[i - 1], i>>]
    BY <1>1 DEF Solves
  <2>. QED BY <2>1
<1>. QED BY <1>1, <1>2, <1>3, KeptIn

------------------------------------------------------------------------

-----------------------------------------------------------------------------
(* Bases of bundles.                                                       *)

Multiples == {n \in Nat : n % BundleSize = 0}

\* What a height has below and above a multiple of the bundle size.
LEMMA Remainder ==
  ASSUME NEW n \in Nat
  PROVE  /\ n % BundleSize \in 0..BundleSize - 1
         /\ n \div BundleSize \in Nat
         /\ n = BundleSize * (n \div BundleSize) + (n % BundleSize)
<1> DEFINE q == n \div BundleSize  r == n % BundleSize
<1>0. BundleSize \in Nat /\ BundleSize > 0
  BY RangeAssumption
<1>1. r \in 0..BundleSize - 1
  BY <1>0
<1>2. n = BundleSize * q + r /\ q \in Int
  <2>1. BundleSize * q = n - r
    BY <1>0, Z3
  <2>. QED BY <1>0, <1>1, <2>1
<1>3. q >= 0
  <2>. HIDE DEF q, r
  <2>1. SUFFICES ASSUME q =< -1 PROVE FALSE
    BY <1>2
  <2>2. BundleSize * q =< -BundleSize
    BY <1>0, <1>2, <2>1
  <2>. QED BY <1>0, <1>1, <1>2, <2>2
<1>4. r \in 0..BundleSize - 1 /\ q \in Nat /\ n = BundleSize * q + r
  <2>. HIDE DEF q, r
  <2>. QED BY <1>1, <1>2, <1>3
<1>. QED BY <1>4

\* A number of bundles is a multiple of the bundle size.
LEMMA MultipleIs ==
  ASSUME NEW k \in Nat PROVE (k * BundleSize) % BundleSize = 0
BY RangeAssumption

\* A multiple of the bundle size is a number of bundles.
LEMMA MultipleHas ==
  ASSUME NEW n \in Multiples PROVE \E k \in Nat : n = k * BundleSize
<1>1. n \in Nat /\ n % BundleSize = 0 /\ BundleSize \in Nat
  BY RangeAssumption DEF Multiples
<1>2. PICK q \in Nat : n = BundleSize * q + 0
  BY <1>1, Remainder
<1>3. n = q * BundleSize
  BY <1>1, <1>2
<1>. QED BY <1>3

\* A height is in the bundle it is rounded down to.
LEMMA RoundedIs ==
  ASSUME NEW n \in Nat
  PROVE  /\ RoundToBundleStartBlock(n) \in Multiples
         /\ RoundToBundleStartBlock(n) =< n /\ n < RoundToBundleStartBlock(n) + BundleSize
<1>1. RoundToBundleStartBlock(n) = BundleSize * (n \div BundleSize)
  BY Remainder, RangeAssumption DEF RoundToBundleStartBlock
<1>2. RoundToBundleStartBlock(n) =< n /\ n < RoundToBundleStartBlock(n) + BundleSize
  BY Remainder, RangeAssumption DEF RoundToBundleStartBlock
<1>. QED BY <1>1, <1>2, MultipleIs, Remainder, RangeAssumption DEF Multiples

\* Bundles follow each other at the distance of their size.
LEMMA NextMultiple ==
  ASSUME NEW n \in Multiples
  PROVE  /\ n + BundleSize \in Multiples
         /\ \A m \in Multiples : m < n + BundleSize => m =< n
<1>0. BundleSize \in Nat /\ BundleSize > 0
  BY RangeAssumption
<1>1. PICK k \in Nat : n = k * BundleSize
  BY MultipleHas
<1>2. n + BundleSize = (k + 1) * BundleSize
  BY <1>0, <1>1
<1>3. n + BundleSize \in Multiples
  <2>1. (k + 1) * BundleSize \in Nat /\ ((k + 1) * BundleSize) % BundleSize = 0
    BY <1>0, MultipleIs
  <2>. QED BY <1>2, <2>1 DEF Multiples
<1>4. ASSUME NEW m \in Multiples, m < n + BundleSize PROVE m =< n
  <2>1. PICK j \in Nat : m = j * BundleSize
    BY MultipleHas
  <2>2. j < k + 1
    <3>1. SUFFICES ASSUME j >= k + 1 PROVE FALSE
      OBVIOUS
    <3>2. j * BundleSize >= (k + 1) * BundleSize
      BY <1>0, <3>1
    <3>. QED BY <1>0, <1>2, <1>4, <2>1, <3>2 DEF Multiples
  <2>3. j * BundleSize =< k * BundleSize
    BY <1>0, <2>2
  <2>. QED BY <1>0, <1>1, <2>1, <2>3
<1>. QED BY <1>3, <1>4

\* What is at a distance of some bundles from a base is one.
LEMMA FromMultiple ==
  ASSUME NEW n \in Multiples, NEW m \in Nat, m >= n, (m - n) % BundleSize = 0
  PROVE  m \in Multiples
<1>0. BundleSize \in Nat /\ BundleSize > 0
  BY RangeAssumption
<1>1. PICK k \in Nat : n = k * BundleSize
  BY MultipleHas
<1>2. m - n \in Multiples
  BY DEF Multiples
<1>3. PICK j \in Nat : m - n = j * BundleSize
  BY <1>2, MultipleHas
<1>4. m = (j + k) * BundleSize
  BY <1>0, <1>1, <1>3 DEF Multiples
<1>5. (j + k) * BundleSize \in Nat /\ ((j + k) * BundleSize) % BundleSize = 0
  BY <1>0, MultipleIs
<1>. QED BY <1>4, <1>5 DEF Multiples

-----------------------------------------------------------------------------
(* The writer of merged files.                                             *)

Issued == [op : Operations \cup {"idle"}, on : {"source", "dest"}, range : [start : Int, stop : Int]]
MergedFiles(K) == [blocks : Seq(K), broken : BOOLEAN, by : Issued]
BundleBases == {b \in 0..MaxBlockNum : b % BundleSize = 0}
Stores(K) == UNION {[D -> MergedFiles(K)] : D \in SUBSET BundleBases}
WriterErrors == {"none", "no blocks", "store", "EOF", "not a boundary"}
Writers(K) == [low : Multiples, stop : Int, blocks : Seq(K), files : Stores(K),
               overwrite : BOOLEAN, by : Issued, err : WriterErrors]

\* A store maps some bases to files.
LEMMA StoresAre ==
  ASSUME NEW K, NEW files
  PROVE  files \in Stores(K) <=> files \in [DOMAIN files -> MergedFiles(K)] /\ DOMAIN files \subseteq BundleBases
<1>1. ASSUME files \in Stores(K) PROVE files \in [DOMAIN files -> MergedFiles(K)] /\ DOMAIN files \subseteq BundleBases
  <2>1. PICK D \in SUBSET BundleBases : files \in [D -> MergedFiles(K)]
    BY <1>1 DEF Stores
  <2>2. DOMAIN files = D
    BY <2>1
  <2>. QED BY <2>1, <2>2
<1>2. ASSUME files \in [DOMAIN files -> MergedFiles(K)], DOMAIN files \subseteq BundleBases PROVE files \in Stores(K)
  BY <1>2 DEF Stores
<1>. QED BY <1>1, <1>2

\* After WriteBundle has stored a file, the files are still those of a store.
LEMMA StoredTyped ==
  ASSUME NEW K, NEW w \in Writers(K), w.low \in BundleBases PROVE Stored(w) \in Stores(K)
<1> DEFINE file == [blocks |-> w.blocks, broken |-> FALSE, by |-> w.by]
           D == DOMAIN w.files \cup {w.low}
           more == [b \in D |-> IF b = w.low THEN file ELSE w.files[b]]
<1>1. /\ w.files \in [DOMAIN w.files -> MergedFiles(K)] /\ DOMAIN w.files \subseteq BundleBases
      /\ w.blocks \in Seq(K) /\ w.by \in Issued
  BY StoresAre DEF Writers
<1>2. file \in MergedFiles(K)
  BY <1>1 DEF MergedFiles
<1>3. more \in [D -> MergedFiles(K)] /\ D \subseteq BundleBases
  <2>. HIDE DEF file
  <2>. QED BY <1>1, <1>2
<1>4. more \in Stores(K)
  <2>. HIDE DEF more, D
  <2>. QED BY <1>3 DEF Stores
<1>. QED BY <1>4 DEF Stored, Writers

\* A writer by its fields.
Made(low, stop, blocks, files, overwrite, by, err) ==
  [low |-> low, stop |-> stop, blocks |-> blocks, files |-> files, overwrite |-> overwrite, by |-> by, err |-> err]

\* The fields of a writer.
LEMMA WriterTypes ==
  ASSUME NEW K, NEW w \in Writers(K)
  PROVE  /\ w.low \in Multiples /\ w.low \in Nat /\ w.stop \in Int /\ w.blocks \in Seq(K)
         /\ w.files \in Stores(K) /\ w.overwrite \in BOOLEAN /\ w.by \in Issued /\ w.err \in WriterErrors
BY DEF Writers, Multiples

\* A writer made of fields of the right types is one.
LEMMA WriterMade ==
  ASSUME NEW K, NEW low \in Multiples, NEW stop \in Int, NEW blocks \in Seq(K), NEW files \in Stores(K),
         NEW overwrite \in BOOLEAN, NEW by \in Issued, NEW err \in WriterErrors
  PROVE  Made(low, stop, blocks, files, overwrite, by, err) \in Writers(K)
BY DEF Writers, Made

\* A writer with another error, field by field.
LEMMA ErrorMade ==
  ASSUME NEW K, NEW w \in Writers(K), NEW e
  PROVE  [w EXCEPT !.err = e] = Made(w.low, w.stop, w.blocks, w.files, w.overwrite, w.by, e)
BY DEF Writers, Made

\* A writer with another low boundary, field by field.
LEMMA LowMade ==
  ASSUME NEW K, NEW w \in Writers(K), NEW low
  PROVE  [w EXCEPT !.low = low] = Made(low, w.stop, w.blocks, w.files, w.overwrite, w.by, w.err)
BY DEF Writers, Made

\* A writer with other blocks, field by field.
LEMMA BlocksMade ==
  ASSUME NEW K, NEW w \in Writers(K), NEW blocks
  PROVE  [w EXCEPT !.blocks = blocks] = Made(w.low, w.stop, blocks, w.files, w.overwrite, w.by, w.err)
BY DEF Writers, Made

\* A writer at the next bundle, field by field.
LEMMA NextMade ==
  ASSUME NEW K, NEW w \in Writers(K), NEW low, NEW blocks
  PROVE  [w EXCEPT !.low = low, !.blocks = blocks] = Made(low, w.stop, blocks, w.files, w.overwrite, w.by, w.err)
<1>1. [w EXCEPT !.low = low, !.blocks = blocks] = [[w EXCEPT !.low = low] EXCEPT !.blocks = blocks]
  OBVIOUS
<1>2. [w EXCEPT !.low = low] = Made(low, w.stop, w.blocks, w.files, w.overwrite, w.by, w.err)
  BY LowMade
<1>3. [Made(low, w.stop, w.blocks, w.files, w.overwrite, w.by, w.err) EXCEPT !.blocks = blocks]
      = Made(low, w.stop, blocks, w.files, w.overwrite, w.by, w.err)
  BY DEF Made
<1>. QED BY <1>1, <1>2, <1>3

\* A writer that changes in one field.
LEMMA WithError ==
  ASSUME NEW K, NEW w \in Writers(K), NEW e \in WriterErrors, NEW t, t = [w EXCEPT !.err = e]
  PROVE  /\ t \in Writers(K) /\ t.err = e
         /\ t.low = w.low /\ t.stop = w.stop /\ t.blocks = w.blocks /\ t.files = w.files
         /\ t.overwrite = w.overwrite /\ t.by = w.by
<1>1. t = Made(w.low, w.stop, w.blocks, w.files, w.overwrite, w.by, e)
  BY ErrorMade
<1>2. t \in Writers(K)
  BY <1>1, WriterMade, WriterTypes
<1>. QED BY <1>1, <1>2 DEF Made

\* Moving the low boundary to a multiple changes nothing else.
LEMMA WithLow ==
  ASSUME NEW K, NEW w \in Writers(K), NEW low \in Multiples, NEW t, t = [w EXCEPT !.low = low]
  PROVE  /\ t \in Writers(K) /\ t.low = low
         /\ t.err = w.err /\ t.stop = w.stop /\ t.blocks = w.blocks /\ t.files = w.files
         /\ t.overwrite = w.overwrite /\ t.by = w.by
<1>1. t = Made(low, w.stop, w.blocks, w.files, w.overwrite, w.by, w.err)
  BY LowMade
<1>2. t \in Writers(K)
  BY <1>1, WriterMade, WriterTypes
<1>. QED BY <1>1, <1>2 DEF Made

\* Collecting a block changes nothing else.
LEMMA WithBlock ==
  ASSUME NEW K, NEW w \in Writers(K), NEW blk \in K, NEW t, t = [w EXCEPT !.blocks = Append(w.blocks, blk)]
  PROVE  /\ t \in Writers(K) /\ t.blocks = Append(w.blocks, blk)
         /\ t.err = w.err /\ t.stop = w.stop /\ t.low = w.low /\ t.files = w.files
         /\ t.overwrite = w.overwrite /\ t.by = w.by
<1> DEFINE more == Append(w.blocks, blk)
<1>1. more \in Seq(K)
  BY WriterTypes
<1>. HIDE DEF more
<1>2. t = Made(w.low, w.stop, more, w.files, w.overwrite, w.by, w.err)
  BY BlocksMade DEF more
<1>3. Made(w.low, w.stop, more, w.files, w.overwrite, w.by, w.err) \in Writers(K)
  <2>1. /\ w.low \in Multiples /\ w.stop \in Int /\ w.files \in Stores(K) /\ w.overwrite \in BOOLEAN
        /\ w.by \in Issued /\ w.err \in WriterErrors
    BY WriterTypes
  <2>. QED BY <1>1, <2>1, WriterMade
<1>4. t \in Writers(K)
  BY <1>2, <1>3
<1>. QED BY <1>2, <1>4 DEF Made, more

\* The two outcomes of a write of some blocks.
LEMMA WriteMade ==
  ASSUME NEW K, NEW w \in Writers(K), w.blocks # <<>>, NEW t \in WriteBundle(w)
  PROVE  \/ t = Made(w.low + BundleSize, w.stop, <<>>, Stored(w), w.overwrite, w.by, w.err)
         \/ t = Made(w.low + BundleSize, w.stop, <<>>, w.files, w.overwrite, w.by, "store")
<1> DEFINE next == [w EXCEPT !.low = w.low + BundleSize, !.blocks = <<>>]
<1>1. t = [next EXCEPT !.files = Stored(w)] \/ t = [next EXCEPT !.err = "store"]
  BY DEF WriteBundle
<1>2. next = Made(w.low + BundleSize, w.stop, <<>>, w.files, w.overwrite, w.by, w.err)
  BY NextMade, Zenon
<1>. HIDE DEF next
<1>. QED BY <1>1, <1>2 DEF Made

\* A multiple that is not above the height of a block names a file.
LEMMA BaseOfHeight ==
  ASSUME NEW low \in Multiples, NEW num \in 0..MaxBlockNum - 1, low =< num PROVE low \in BundleBases
BY ScenariosAssumption DEF Multiples, BundleBases

\* What a write leaves behind.
LEMMA WriteTyped ==
  ASSUME NEW K, NEW w \in Writers(K), w.low \in BundleBases, NEW t \in WriteBundle(w)
  PROVE  /\ t \in Writers(K)
         /\ \/ w.blocks = <<>> /\ t.err = "no blocks" /\ t.low = w.low /\ t.files = w.files
            \/ w.blocks # <<>> /\ t.err = "store" /\ t.low = w.low + BundleSize /\ t.files = w.files
            \/ w.blocks # <<>> /\ t.err = w.err /\ t.low = w.low + BundleSize /\ t.files = Stored(w)
         /\ w.blocks # <<>> => t.blocks = <<>>
         /\ t.stop = w.stop /\ t.overwrite = w.overwrite /\ t.by = w.by
<1>1. w.low + BundleSize \in Multiples /\ <<>> \in Seq(K) /\ Stored(w) \in Stores(K)
  <2>1. <<>> \in Seq(K)
    OBVIOUS
  <2>. QED BY <2>1, NextMultiple, StoredTyped, WriterTypes
<1>2. CASE w.blocks = <<>>
  <2>1. t = Made(w.low, w.stop, w.blocks, w.files, w.overwrite, w.by, "no blocks")
    BY <1>2, ErrorMade DEF WriteBundle
  <2>2. t \in Writers(K)
    BY <2>1, WriterMade, WriterTypes DEF WriterErrors
  <2>. QED BY <1>2, <2>1, <2>2 DEF Made
<1>3. CASE w.blocks # <<>>
  <2>1. CASE t = Made(w.low + BundleSize, w.stop, <<>>, Stored(w), w.overwrite, w.by, w.err)
    <3>1. t \in Writers(K)
      BY <1>1, <2>1, WriterMade, WriterTypes
    <3>. QED BY <1>3, <2>1, <3>1 DEF Made
  <2>2. CASE t = Made(w.low + BundleSize, w.stop, <<>>, w.files, w.overwrite, w.by, "store")
    <3>1. t \in Writers(K)
      BY <1>1, <2>2, WriterMade, WriterTypes DEF WriterErrors
    <3>. QED BY <1>3, <2>2, <3>1 DEF Made
  <2>. QED BY <1>3, <2>1, <2>2, WriteMade
<1>. QED BY <1>2, <1>3

\* A block that ends the bundle before its own has that written; what it then meets.
LEMMA ReadyTyped ==
  ASSUME NEW K, NEW w \in Writers(K), NEW num \in 0..MaxBlockNum - 1,
         NEW u \in IF num >= w.low + BundleSize THEN WriteBundle(w) ELSE {w}
  PROVE  u \in Writers(K) /\ (u.low = w.low \/ u.low =< num)
<1>0. w.low \in Nat /\ BundleSize \in Nat /\ BundleSize > 0
  BY RangeAssumption, WriterTypes
<1>1. CASE num >= w.low + BundleSize
  <2>1. w.low \in BundleBases
    <3>1. w.low =< num /\ w.low \in Multiples
      BY <1>0, <1>1, WriterTypes
    <3>. QED BY <3>1, BaseOfHeight
  <2>2. u \in WriteBundle(w)
    BY <1>1
  <2>. QED BY <1>0, <1>1, <2>1, <2>2, WriteTyped
<1>2. CASE ~(num >= w.low + BundleSize)
  BY <1>2
<1>. QED BY <1>1, <1>2

\* ProcessBlock leaves a writer of known blocks, whose low boundary still names a file.
LEMMA ProcessTyped ==
  ASSUME NEW K, K \subseteq HeldBlocks, NEW w \in Writers(K), NEW blk \in K, NEW t \in ProcessBlock(w, blk)
  PROVE  /\ t \in Writers(K)
         /\ w.low =< MaxBlockNum \/ w.low =< blk.num => t.low =< MaxBlockNum
<1> DEFINE initial == w.low = 0 /\ blk.num >= BundleSize
           start == IF initial THEN [w EXCEPT !.low = RoundToBundleStartBlock(blk.num)] ELSE w
           ready == IF blk.num >= start.low + BundleSize THEN WriteBundle(start) ELSE {start}
           Keep(u) == [u EXCEPT !.blocks = Append(@, blk)]
           Takes(u) ==
             IF u.err # "none" THEN {u}
             ELSE IF u.stop > 0 /\ blk.num >= u.stop THEN {[u EXCEPT !.err = "EOF"]}
             ELSE IF blk.num = u.low + BundleSize - 1 THEN WriteBundle(Keep(u))
             ELSE {Keep(u)}
           refused == initial /\ blk.num % BundleSize # 0 /\ blk.num # FirstStreamable
<1>0. /\ BundleSize \in Nat /\ BundleSize > 0 /\ MaxBlockNum \in Nat /\ w.low \in Nat
      /\ blk.num \in 0..MaxBlockNum - 1 /\ blk.num \in Nat
  <2>1. blk \in HeldBlocks /\ MaxBlockNum \in Nat
    BY ScenariosAssumption
  <2>2. blk.num \in 0..MaxBlockNum - 1
    BY <2>1 DEF HeldBlocks
  <2>3. w.low \in Nat
    BY WriterTypes
  <2>. QED BY <2>1, <2>2, <2>3, RangeAssumption
<1>1. t \in IF refused THEN {[w EXCEPT !.err = "not a boundary"]} ELSE UNION {Takes(u) : u \in ready}
  BY DEF ProcessBlock
<1>2. CASE refused
  <2>1. t = [w EXCEPT !.err = "not a boundary"]
    BY <1>1, <1>2
  <2>2. t \in Writers(K) /\ t.low = w.low
    <3>1. "not a boundary" \in WriterErrors
      BY DEF WriterErrors
    <3>2. t \in Writers(K) /\ t.low = w.low
      <4>1. PICK e \in WriterErrors : t = [w EXCEPT !.err = e]
        BY <2>1, <3>1
      <4>. HIDE DEF initial, refused
      <4>. QED BY <4>1, WithError
    <3>. QED BY <3>2
  <2>. QED BY <1>0, <2>2
<1>3. CASE ~refused
  <2>1. PICK u \in ready : t \in Takes(u)
    BY <1>1, <1>3
  <2>2. start \in Writers(K) /\ (start.low = w.low \/ start.low =< blk.num)
    <3>1. RoundToBundleStartBlock(blk.num) \in Multiples /\ RoundToBundleStartBlock(blk.num) =< blk.num
      BY <1>0, RoundedIs
    <3>. QED BY <3>1, WithLow
  <2>3. u \in Writers(K) /\ (u.low = w.low \/ u.low =< blk.num)
    <3>. HIDE DEF start
    <3>. QED BY <1>0, <2>1, <2>2, ReadyTyped
  <2>a. u.low \in Multiples /\ u.low \in Nat
    BY <2>3, WriterTypes
  <2>b. w.low =< MaxBlockNum \/ w.low =< blk.num => u.low =< MaxBlockNum
    <3>1. u.low \in Nat /\ w.low \in Nat
      BY <2>3, WriterTypes
    <3>. HIDE DEF ready, start
    <3>. QED BY <1>0, <2>3, <3>1
  <2>. HIDE DEF ready, start
  <2>4. Keep(u) \in Writers(K) /\ Keep(u).low = u.low
    BY <2>3, WithBlock
  <2>5. CASE u.err # "none"
    BY <2>1, <2>3, <2>b, <2>5
  <2>6. CASE u.err = "none" /\ u.stop > 0 /\ blk.num >= u.stop
    <3>1. t = [u EXCEPT !.err = "EOF"]
      BY <2>1, <2>6
    <3>2. t \in Writers(K) /\ t.low = u.low
      <4>1. "EOF" \in WriterErrors
        BY DEF WriterErrors
      <4>. QED BY <2>3, <3>1, <4>1, WithError
    <3>. QED BY <2>b, <3>2
  <2>7. CASE u.err = "none" /\ ~(u.stop > 0 /\ blk.num >= u.stop) /\ blk.num = u.low + BundleSize - 1
    <3>1. t \in WriteBundle(Keep(u))
      BY <2>1, <2>7
    <3>2. u.low \in BundleBases
      <4>1. u.low =< blk.num
        BY <1>0, <2>7, <2>a
      <4>. QED BY <1>0, <2>a, <4>1, BaseOfHeight
    <3>. HIDE DEF Keep
    <3>3. t \in Writers(K) /\ (t.low = u.low \/ t.low = u.low + BundleSize)
      BY <2>4, <3>1, <3>2, WriteTyped
    <3>. QED BY <1>0, <2>7, <2>a, <2>b, <3>3
  <2>8. CASE u.err = "none" /\ ~(u.stop > 0 /\ blk.num >= u.stop) /\ blk.num # u.low + BundleSize - 1
    <3>1. t = Keep(u)
      BY <2>1, <2>8
    <3>. HIDE DEF Keep
    <3>. QED BY <2>4, <2>b, <3>1
  <2>. QED BY <2>5, <2>6, <2>7, <2>8
<1>. QED BY <1>2, <1>3

-----------------------------------------------------------------------------
(* The order of the blocks of a file.                                      *)

Ascends(blocks) == \A i, j \in DOMAIN blocks : i < j => blocks[i].num < blocks[j].num
Within(blocks, low) == \A i \in DOMAIN blocks : blocks[i].num \in low .. EndOf(low)
UpTo(blocks, num) == \A i \in DOMAIN blocks : blocks[i].num =< num

OrderedFiles(files) ==
  \A b \in DOMAIN files : Orders(files[b].by) => Within(files[b].blocks, b) /\ Ascends(files[b].blocks)

Fresh(w) == w.low = 0 /\ w.blocks = <<>>

\* The writer after a block of this height
After(w, num) ==
  /\ w.low =< num + 1 /\ num < w.low + BundleSize
  /\ Within(w.blocks, w.low) /\ Ascends(w.blocks) /\ UpTo(w.blocks, num)
  /\ w.low = 0 => num < BundleSize - 1

\* No blocks are blocks in order.
LEMMA NothingOrdered == ASSUME NEW low, NEW num PROVE Within(<<>>, low) /\ Ascends(<<>>) /\ UpTo(<<>>, num)
BY DEF Within, Ascends, UpTo

\* Blocks in order stay so with one that is above them and in the bundle.
LEMMA AppendOrdered ==
  ASSUME NEW K, K \subseteq HeldBlocks, NEW blocks \in Seq(K), NEW blk \in K, NEW low \in Nat, NEW num \in Int,
         Within(blocks, low), Ascends(blocks), UpTo(blocks, num), num < blk.num, blk.num \in low .. EndOf(low)
  PROVE  LET more == Append(blocks, blk)
         IN  Within(more, low) /\ Ascends(more) /\ UpTo(more, blk.num)
<1> DEFINE more == Append(blocks, blk)
<1>1. /\ DOMAIN more = 1..Len(blocks) + 1 /\ DOMAIN blocks = 1..Len(blocks) /\ Len(blocks) \in Nat
      /\ more[Len(blocks) + 1] = blk /\ \A i \in 1..Len(blocks) : more[i] = blocks[i]
  OBVIOUS
<1>2. \A i \in DOMAIN blocks : blocks[i].num \in Nat
  <2>1. \A i \in DOMAIN blocks : blocks[i] \in HeldBlocks
    BY <1>1
  <2>. QED BY <2>1, ScenariosAssumption DEF HeldBlocks
<1>3. blk.num \in Nat
  BY ScenariosAssumption DEF HeldBlocks
<1>. HIDE DEF more
<1>4. Within(more, low)
  BY <1>1 DEF Within
<1>5. Ascends(more)
  <2> SUFFICES ASSUME NEW i \in DOMAIN more, NEW j \in DOMAIN more, i < j PROVE more[i].num < more[j].num
    BY DEF Ascends
  <2>1. i \in 1..Len(blocks) /\ more[i] = blocks[i] /\ i \in DOMAIN blocks
    BY <1>1
  <2>2. CASE j = Len(blocks) + 1
    BY <1>1, <1>2, <1>3, <2>1, <2>2 DEF UpTo
  <2>3. CASE j # Len(blocks) + 1
    BY <1>1, <2>1, <2>3 DEF Ascends
  <2>. QED BY <2>2, <2>3
<1>6. UpTo(more, blk.num)
  BY <1>1, <1>2, <1>3 DEF UpTo
<1>. QED BY <1>4, <1>5, <1>6 DEF more

\* WriteBundle keeps the files in order when what it stores is.
LEMMA StoredOrdered ==
  ASSUME NEW w, OrderedFiles(w.files), Orders(w.by) => Within(w.blocks, w.low) /\ Ascends(w.blocks)
  PROVE  OrderedFiles(Stored(w))
<1>1. CASE w.low \in DOMAIN w.files /\ ~w.overwrite
  BY <1>1 DEF Stored
<1>2. CASE ~(w.low \in DOMAIN w.files /\ ~w.overwrite)
  <2>1. Stored(w) = [b \in DOMAIN w.files \cup {w.low} |->
           IF b = w.low THEN [blocks |-> w.blocks, broken |-> FALSE, by |-> w.by] ELSE w.files[b]]
    BY <1>2 DEF Stored
  <2>. QED BY <2>1 DEF OrderedFiles
<1>. QED BY <1>1, <1>2

\* The block that the writer may be handed next.
Continues(w, blk) ==
  \/ Fresh(w)
  \/ \E num \in Int : /\ After(w, num) /\ num < blk.num /\ blk.num < w.low + 2 * BundleSize
                      /\ w.low = 0 => blk.num < BundleSize

\* What the write of a full bundle leaves.
LEMMA WriteOrdered ==
  ASSUME NEW K, NEW w \in Writers(K), w.low \in BundleBases, NEW t \in WriteBundle(w),
         OrderedFiles(w.files), Within(w.blocks, w.low), Ascends(w.blocks)
  PROVE  /\ t \in Writers(K) /\ OrderedFiles(t.files)
         /\ t.err = "none" => w.blocks # <<>> /\ t.low = w.low + BundleSize /\ t.blocks = <<>>
<1>1. /\ t \in Writers(K)
      /\ \/ w.blocks = <<>> /\ t.err = "no blocks" /\ t.low = w.low /\ t.files = w.files
         \/ w.blocks # <<>> /\ t.err = "store" /\ t.low = w.low + BundleSize /\ t.files = w.files
         \/ w.blocks # <<>> /\ t.err = w.err /\ t.low = w.low + BundleSize /\ t.files = Stored(w)
      /\ w.blocks # <<>> => t.blocks = <<>>
  BY WriteTyped
<1>2. OrderedFiles(Stored(w))
  BY StoredOrdered
<1>. QED BY <1>1, <1>2

\* ProcessBlock keeps the files in order when the block is one the writer can be handed next.
LEMMA ProcessOrdered ==
  ASSUME NEW K, K \subseteq HeldBlocks, NEW w \in Writers(K), NEW blk \in K, NEW t \in ProcessBlock(w, blk),
         OrderedFiles(w.files), w.err = "none", Continues(w, blk)
  PROVE  OrderedFiles(t.files) /\ (t.err = "none" => After(t, blk.num))
<1> DEFINE initial == w.low = 0 /\ blk.num >= BundleSize
           start == IF initial THEN [w EXCEPT !.low = RoundToBundleStartBlock(blk.num)] ELSE w
           ready == IF blk.num >= start.low + BundleSize THEN WriteBundle(start) ELSE {start}
           Keep(u) == [u EXCEPT !.blocks = Append(@, blk)]
           Takes(u) ==
             IF u.err # "none" THEN {u}
             ELSE IF u.stop > 0 /\ blk.num >= u.stop THEN {[u EXCEPT !.err = "EOF"]}
             ELSE IF blk.num = u.low + BundleSize - 1 THEN WriteBundle(Keep(u))
             ELSE {Keep(u)}
           refused == initial /\ blk.num % BundleSize # 0 /\ blk.num # FirstStreamable
<1>0. /\ BundleSize \in Nat /\ BundleSize > 0 /\ MaxBlockNum \in Nat /\ w.low \in Nat
      /\ blk.num \in 0..MaxBlockNum - 1 /\ blk.num \in Nat
  <2>1. blk \in HeldBlocks /\ MaxBlockNum \in Nat
    BY ScenariosAssumption
  <2>2. blk.num \in 0..MaxBlockNum - 1
    BY <2>1 DEF HeldBlocks
  <2>3. w.low \in Nat
    BY WriterTypes
  <2>. QED BY <2>1, <2>2, <2>3, RangeAssumption
<1>1. t \in IF refused THEN {[w EXCEPT !.err = "not a boundary"]} ELSE UNION {Takes(u) : u \in ready}
  BY DEF ProcessBlock
<1>2. CASE refused
  <2>1. t = [w EXCEPT !.err = "not a boundary"]
    BY <1>1, <1>2
  <2>2. PICK e \in WriterErrors : t = [w EXCEPT !.err = e] /\ e # "none"
    BY <2>1 DEF WriterErrors
  <2>3. t.files = w.files /\ t.err = e
    <3>. HIDE DEF initial, refused
    <3>. QED BY <2>2, WithError
  <2>. QED BY <2>2, <2>3
<1>3. CASE ~refused
  <2>1. PICK u \in ready : t \in Takes(u)
    BY <1>1, <1>3
  \* The writer that looks at the bundle, and the block's place in it
  <2>2. /\ start \in Writers(K) /\ start.files = w.files /\ start.err = "none" /\ start.blocks = w.blocks
        /\ start.low = (IF initial THEN RoundToBundleStartBlock(blk.num) ELSE w.low)
    <3>1. RoundToBundleStartBlock(blk.num) \in Multiples
      BY <1>0, RoundedIs
    <3>2. ASSUME initial
          PROVE /\ start \in Writers(K) /\ start.files = w.files /\ start.err = "none" /\ start.blocks = w.blocks
                /\ start.low = RoundToBundleStartBlock(blk.num)
      <4>1. start = [w EXCEPT !.low = RoundToBundleStartBlock(blk.num)]
        BY <3>2
      <4>. HIDE DEF start
      <4>. QED BY <3>1, <4>1, WithLow
    <3>. QED BY <3>2
  <2>3. PICK num \in Int :
           /\ start.low \in Nat /\ start.low =< num + 1 /\ num < blk.num
           /\ blk.num < start.low + 2 * BundleSize
           /\ Within(start.blocks, start.low) /\ Ascends(start.blocks) /\ UpTo(start.blocks, num)
    <3>1. CASE Fresh(w)
      <4>1. RoundToBundleStartBlock(blk.num) =< blk.num /\ blk.num < RoundToBundleStartBlock(blk.num) + BundleSize
            /\ RoundToBundleStartBlock(blk.num) \in Nat
        BY <1>0, RoundedIs DEF Multiples
      <4>2. start.low \in Nat /\ start.low =< blk.num /\ blk.num < start.low + 2 * BundleSize
        <5>. HIDE DEF start
        <5>1. CASE initial
          BY <1>0, <2>2, <4>1, <5>1
        <5>2. CASE ~initial
          BY <1>0, <2>2, <3>1, <5>2 DEF Fresh
        <5>. QED BY <5>1, <5>2
      <4>3. start.blocks = <<>>
        BY <2>2, <3>1 DEF Fresh
      <4>. HIDE DEF start, initial
      <4>4. start.low =< (blk.num - 1) + 1 /\ blk.num - 1 < blk.num /\ blk.num - 1 \in Int
        BY <1>0, <4>2
      <4>. QED BY <4>2, <4>3, <4>4, NothingOrdered
    <3>2. CASE ~Fresh(w)
      <4>1. PICK num \in Int : After(w, num) /\ num < blk.num /\ blk.num < w.low + 2 * BundleSize
                               /\ (w.low = 0 => blk.num < BundleSize)
        BY <3>2 DEF Continues
      <4>2. start = w
        BY <1>0, <4>1
      <4>. QED BY <1>0, <4>1, <4>2 DEF After
    <3>. QED BY <3>1, <3>2
  <2>. HIDE DEF start, initial, refused
  \* Its bundle, when that was not yet the one of the writer
  <2>4. /\ u \in Writers(K) /\ OrderedFiles(u.files)
        /\ u.err = "none" => /\ u.low \in Nat /\ u.low =< blk.num /\ blk.num < u.low + BundleSize
                             /\ Within(u.blocks, u.low) /\ Ascends(u.blocks) /\ UpTo(u.blocks, num)
    <3>1. CASE blk.num >= start.low + BundleSize
      <4>1. u \in WriteBundle(start)
        BY <2>1, <3>1
      <4>2. start.low \in BundleBases
        <5>1. start.low \in Multiples
          BY <2>2, WriterTypes
        <5>2. start.low =< blk.num
          BY <1>0, <2>3, <3>1
        <5>. QED BY <1>0, <5>1, <5>2, BaseOfHeight
      <4>3. /\ u \in Writers(K) /\ OrderedFiles(u.files)
            /\ u.err = "none" => u.low = start.low + BundleSize /\ u.blocks = <<>>
        BY <2>2, <2>3, <4>1, <4>2, WriteOrdered
      <4>. QED BY <1>0, <2>3, <3>1, <4>3, NothingOrdered
    <3>2. CASE ~(blk.num >= start.low + BundleSize)
      <4>1. u = start
        BY <2>1, <3>2
      <4>. QED BY <1>0, <2>2, <2>3, <3>2, <4>1
    <3>. QED BY <3>1, <3>2
  <2>. HIDE DEF ready
  <2>5. CASE u.err # "none"
    BY <2>1, <2>4, <2>5
  <2>6. CASE u.err = "none" /\ u.stop > 0 /\ blk.num >= u.stop
    <3>1. t = [u EXCEPT !.err = "EOF"]
      BY <2>1, <2>6
    <3>2. PICK e \in WriterErrors : t = [u EXCEPT !.err = e] /\ e # "none"
      BY <3>1 DEF WriterErrors
    <3>3. t.files = u.files /\ t.err = e
      BY <2>4, <3>2, WithError
    <3>. QED BY <2>4, <3>2, <3>3
  <2>7. CASE u.err = "none" /\ ~(u.stop > 0 /\ blk.num >= u.stop)
    <3>1. /\ Keep(u) \in Writers(K) /\ Keep(u).low = u.low /\ Keep(u).files = u.files
          /\ Keep(u).blocks = Append(u.blocks, blk) /\ Keep(u).err = "none"
      BY <2>4, <2>7, WithBlock
    <3>2. /\ u.low \in Nat /\ u.low =< blk.num /\ blk.num < u.low + BundleSize /\ u.blocks \in Seq(K)
          /\ u.low \in Multiples
      BY <2>4, <2>7, WriterTypes
    <3>3. blk.num \in u.low .. EndOf(u.low)
      BY <1>0, <3>2 DEF EndOf
    <3>4. Within(Keep(u).blocks, u.low) /\ Ascends(Keep(u).blocks) /\ UpTo(Keep(u).blocks, blk.num)
      <4>. HIDE DEF Keep
      <4>. QED BY <2>3, <2>4, <2>7, <3>1, <3>2, <3>3, AppendOrdered
    <3>5. CASE blk.num = u.low + BundleSize - 1
      <4>1. t \in WriteBundle(Keep(u))
        BY <2>1, <2>7, <3>5
      <4>2. u.low \in BundleBases
        BY <1>0, <3>2, BaseOfHeight
      <4>. HIDE DEF Keep
      <4>3. /\ OrderedFiles(t.files)
            /\ t.err = "none" => t.low = u.low + BundleSize /\ t.blocks = <<>>
        BY <2>4, <3>1, <3>4, <4>1, <4>2, WriteOrdered
      <4>4. t.err = "none" => After(t, blk.num)
        <5>. SUFFICES ASSUME t.err = "none" PROVE After(t, blk.num)
          OBVIOUS
        <5>1. t.low = blk.num + 1 /\ t.blocks = <<>>
          BY <1>0, <3>2, <3>5, <4>3
        <5>2. Within(t.blocks, t.low) /\ Ascends(t.blocks) /\ UpTo(t.blocks, blk.num)
          BY <5>1, NothingOrdered
        <5>3. t.low =< blk.num + 1 /\ blk.num < t.low + BundleSize /\ t.low # 0
          BY <1>0, <5>1
        <5>. QED BY <5>2, <5>3 DEF After
      <4>. QED BY <4>3, <4>4
    <3>6. CASE blk.num # u.low + BundleSize - 1
      <4>1. t = Keep(u)
        BY <2>1, <2>7, <3>6
      <4>. HIDE DEF Keep
      <4>2. After(t, blk.num)
        <5>1. t.low = u.low
          BY <3>1, <4>1
        <5>2. Within(t.blocks, t.low) /\ Ascends(t.blocks) /\ UpTo(t.blocks, blk.num)
          BY <3>4, <4>1, <5>1
        <5>3. t.low =< blk.num + 1 /\ blk.num < t.low + BundleSize /\ (t.low = 0 => blk.num < BundleSize - 1)
          BY <1>0, <3>2, <3>6, <5>1
        <5>. QED BY <5>2, <5>3 DEF After
      <4>. QED BY <2>4, <3>1, <4>1, <4>2
    <3>. QED BY <3>5, <3>6
  <2>. QED BY <2>5, <2>6, <2>7
<1>. QED BY <1>2, <1>3

-----------------------------------------------------------------------------
(* The walks through the blocks of a file.                                 *)

\* What a call leaves when its loop has ended like this
Rewritten(f, base, st) ==
  [f EXCEPT !.writer = st.writer, !.trouble = st.writer.err = "store",
            !.end = CASE st.end = "error" -> "error"
                      [] st.end = "break" -> "go"
                      [] OTHER -> AfterRead(base)]
Upgraded(f, base, w) ==
  [f EXCEPT !.writer = w, !.trouble = w.err = "store",
            !.end = CASE w.err = "EOF" -> "ok"
                      [] w.err # "none" \/ File(base).broken -> "error"
                      [] OTHER -> "go"]

\* What the loop of fix and legacy keeps from block to block, it has kept at the end.
LEMMA RewriteKeeps ==
  ASSUME NEW f, NEW base, NEW K, File(base).blocks \in Seq(K), NEW T,
         [writer |-> NewWriter(f.writer.files, 0, 0, FALSE, command), seen |-> {}, last |-> NoId, end |-> "go"] \in T,
         \A st \in T, blk \in K : RewriteBlock(st, base, blk) \subseteq T,
         NEW g \in RewriteFile(f, base)
  PROVE  \E st \in T : g = Rewritten(f, base, st)
<1> DEFINE blocks == File(base).blocks
           first == [writer |-> NewWriter(f.writer.files, 0, 0, FALSE, command), seen |-> {}, last |-> NoId, end |-> "go"]
           begin == {first}
           n == Len(blocks)
           S == SUBSET T
           step(s, i) == UNION {RewriteBlock(st, base, blocks[i]) : st \in s}
           F == [p \in S \X (1..n) |-> step(p[1], p[2])]
           Is(h) == h = [i \in 0..n |-> IF i = 0 THEN begin ELSE step(h[i - 1], i)]
           upTo == CHOOSE h : Is(h)
<1>0. n \in Nat /\ begin \in S /\ \A i \in 1..n : blocks[i] \in K
  OBVIOUS
<1>1. ASSUME NEW s \in S, NEW i \in 1..n PROVE step(s, i) \in S
  <2>1. \A st \in s : RewriteBlock(st, base, blocks[i]) \subseteq T
    BY <1>0
  <2>. QED BY <2>1
<1>2. \E h : Is(h)
  <2>. HIDE DEF n, S, step, begin
  <2>1. \A x \in S, i \in 1..n : F[<<x, i>>] = step(x, i)
    OBVIOUS
  <2>2. \A x \in S, i \in 1..n : F[<<x, i>>] \in S
    BY <1>1, <2>1
  <2>. HIDE DEF F
  <2>3. PICK h : Solves(h, n, begin, F) /\ \A i \in 0..n : h[i] \in S
    BY <1>0, <2>2, RecursionIn
  <2>4. \A i \in 1..n : F[<<h[i - 1], i>>] = step(h[i - 1], i)
    <3>1. \A i \in 1..n : i - 1 \in 0..n
      BY <1>0
    <3>. QED BY <2>1, <2>3, <3>1
  <2>5. Is(h)
    BY <1>0, <2>3, <2>4 DEF Solves
  <2>. QED BY <2>5
<1>3. Is(upTo)
  <2>. HIDE DEF Is
  <2>. QED BY <1>2
<1>4. upTo[n] \in S
  <2>. HIDE DEF upTo, n, S, step, begin
  <2>1. upTo[0] \in S
    BY <1>0, <1>3
  <2>2. \A i \in 1..n : upTo[i - 1] \in S => upTo[i] \in S
    BY <1>0, <1>1, <1>3
  <2>3. \A i \in 0..n : upTo[i] \in S
    BY <1>0, <2>1, <2>2, KeptIn
  <2>. QED BY <1>0, <2>3
<1>5. RewriteFile(f, base) = {Rewritten(f, base, st) : st \in upTo[n]}
  BY DEF RewriteFile, Rewritten
<1>. HIDE DEF upTo, n, blocks, first, begin
<1>. QED BY <1>4, <1>5

\* And that of upgrade
LEMMA UpgradeKeeps ==
  ASSUME NEW f, NEW base, NEW K, File(base).blocks \in Seq(K), NEW T, f.writer \in T,
         \A w \in T, blk \in K : ProcessBlock(w, blk) \subseteq T,
         NEW g \in UpgradeFile(f, base)
  PROVE  \E w \in T : g = Upgraded(f, base, w)
<1> DEFINE blocks == File(base).blocks
           first == f.writer
           Processed(w, blk) == IF w.err = "none" /\ blk.num >= Wanted.start THEN ProcessBlock(w, blk) ELSE {w}
           begin == {first}
           n == Len(blocks)
           S == SUBSET T
           step(s, i) == UNION {Processed(w, blocks[i]) : w \in s}
           F == [p \in S \X (1..n) |-> step(p[1], p[2])]
           Is(h) == h = [i \in 0..n |-> IF i = 0 THEN begin ELSE step(h[i - 1], i)]
           upTo == CHOOSE h : Is(h)
<1>0. n \in Nat /\ begin \in S /\ \A i \in 1..n : blocks[i] \in K
  OBVIOUS
<1>1. ASSUME NEW s \in S, NEW i \in 1..n PROVE step(s, i) \in S
  <2>1. \A w \in s : Processed(w, blocks[i]) \subseteq T
    BY <1>0
  <2>. QED BY <2>1
<1>2. \E h : Is(h)
  <2>. HIDE DEF n, S, step, begin
  <2>1. \A x \in S, i \in 1..n : F[<<x, i>>] = step(x, i)
    OBVIOUS
  <2>2. \A x \in S, i \in 1..n : F[<<x, i>>] \in S
    BY <1>1, <2>1
  <2>. HIDE DEF F
  <2>3. PICK h : Solves(h, n, begin, F) /\ \A i \in 0..n : h[i] \in S
    BY <1>0, <2>2, RecursionIn
  <2>4. \A i \in 1..n : F[<<h[i - 1], i>>] = step(h[i - 1], i)
    <3>1. \A i \in 1..n : i - 1 \in 0..n
      BY <1>0
    <3>. QED BY <2>1, <2>3, <3>1
  <2>5. Is(h)
    BY <1>0, <2>3, <2>4 DEF Solves
  <2>. QED BY <2>5
<1>3. Is(upTo)
  <2>. HIDE DEF Is
  <2>. QED BY <1>2
<1>4. upTo[n] \in S
  <2>. HIDE DEF upTo, n, S, step, begin
  <2>1. upTo[0] \in S
    BY <1>0, <1>3
  <2>2. \A i \in 1..n : upTo[i - 1] \in S => upTo[i] \in S
    BY <1>0, <1>1, <1>3
  <2>3. \A i \in 0..n : upTo[i] \in S
    BY <1>0, <2>1, <2>2, KeptIn
  <2>. QED BY <1>0, <2>3
<1>5. UpgradeFile(f, base) = {Upgraded(f, base, w) : w \in upTo[n]}
  BY DEF Upgraded, UpgradeFile
<1>. HIDE DEF upTo, n, blocks, first, begin
<1>. QED BY <1>4, <1>5

\* The reference of the batch check stays one of ids and heights.
References == [hash : Nat, num : Nat, broken : BOOLEAN]

\* What the batch check remembers of the last block has its type.
LEMMA BrokenTyped ==
  ASSUME NEW ref \in References, NEW blk \in HeldBlocks PROVE BrokenBlock(ref, blk) \in References
<1> DEFINE below == IF blk.num # 0 THEN blk.num - 1 ELSE 0
           last == IF Unset(ref) THEN [ref EXCEPT !.hash = blk.parent, !.num = below] ELSE ref
           again == blk.id = last.hash /\ blk.num = last.num
<1>1. blk.num \in Nat /\ blk.id \in Nat /\ blk.parent \in Nat /\ below \in Nat
  BY ScenariosAssumption DEF HeldBlocks
<1>2. last \in References
  <2>. HIDE DEF below
  <2>. QED BY <1>1 DEF References
<1>3. BrokenBlock(ref, blk) =
        IF ref.broken THEN ref
        ELSE IF blk.id = NoId THEN [ref EXCEPT !.broken = TRUE]
        ELSE IF blk.parent # last.hash THEN [last EXCEPT !.broken = ~again]
        ELSE [last EXCEPT !.hash = blk.id, !.num = blk.num]
  BY DEF BrokenBlock
<1>4. (~again) \in BOOLEAN
  OBVIOUS
<1>. HIDE DEF last, again
<1>. QED BY <1>1, <1>2, <1>3, <1>4 DEF References

\* A call of the batch check goes on from some reference.
LEMMA BatchGives ==
  ASSUME NEW f, NEW base, File(base).blocks \in Seq(HeldBlocks), f.local.refHash \in Nat, f.local.refNum \in Nat
  PROVE  \E ref \in References : BatchFile(f, base) = BatchFrames(f, base, ref)
<1> DEFINE blocks == File(base).blocks
           first == [hash |-> f.local.refHash, num |-> f.local.refNum, broken |-> FALSE]
           n == Len(blocks)
           S == References
           F == [p \in S \X (1..n) |-> BrokenBlock(p[1], blocks[p[2]])]
           Is(h) == h = [i \in 0..n |-> IF i = 0 THEN first ELSE BrokenBlock(h[i - 1], blocks[i])]
           upTo == CHOOSE h : Is(h)
<1>0. n \in Nat /\ first \in S /\ \A i \in 1..n : blocks[i] \in HeldBlocks
  BY DEF References
<1>1. ASSUME NEW s \in S, NEW i \in 1..n PROVE BrokenBlock(s, blocks[i]) \in S
  BY <1>0, BrokenTyped
<1>2. \E h : Is(h)
  <2>. HIDE DEF n, S, blocks, first
  <2>1. \A x \in S, i \in 1..n : F[<<x, i>>] = BrokenBlock(x, blocks[i])
    OBVIOUS
  <2>2. \A x \in S, i \in 1..n : F[<<x, i>>] \in S
    BY <1>1, <2>1
  <2>. HIDE DEF F
  <2>3. PICK h : Solves(h, n, first, F) /\ \A i \in 0..n : h[i] \in S
    BY <1>0, <2>2, RecursionIn
  <2>4. \A i \in 1..n : F[<<h[i - 1], i>>] = BrokenBlock(h[i - 1], blocks[i])
    <3>1. \A i \in 1..n : i - 1 \in 0..n
      BY <1>0
    <3>. QED BY <2>1, <2>3, <3>1
  <2>5. Is(h)
    BY <1>0, <2>3, <2>4 DEF Solves
  <2>. QED BY <2>5
<1>3. Is(upTo)
  <2>. HIDE DEF Is
  <2>. QED BY <1>2
<1>4. upTo[n] \in S
  <2>. HIDE DEF upTo, n, S, blocks, first
  <2>1. upTo[0] \in S
    BY <1>0, <1>3
  <2>2. \A i \in 1..n : upTo[i - 1] \in S => upTo[i] \in S
    BY <1>0, <1>1, <1>3
  <2>3. \A i \in 0..n : upTo[i] \in S
    BY <1>0, <2>1, <2>2, KeptIn
  <2>. QED BY <1>0, <2>3
<1>5. BatchFile(f, base) = BatchFrames(f, base, upTo[n])
  BY DEF BatchFile
<1>. QED BY <1>4, <1>5

-----------------------------------------------------------------------------
(* The stream of an endpoint.                                              *)

FeedElements == {Feed[i] : i \in DOMAIN Feed}

\* What the stream hands over is of the feed, whatever is asked.
LEMMA StreamTyped ==
  ASSUME NEW req PROVE StreamOf(req) \in Seq(FeedElements)
<1> DEFINE n == Len(Feed)
           S == Seq(FeedElements)
           step(s, i) == IF InRequest(Feed[i], req) THEN Append(s, Feed[i]) ELSE s
           F == [p \in S \X (1..n) |-> step(p[1], p[2])]
           Is(h) == h = [i \in 0..n |-> IF i = 0 THEN <<>>
                                        ELSE IF InRequest(Feed[i], req) THEN Append(h[i - 1], Feed[i]) ELSE h[i - 1]]
           upTo == CHOOSE h : Is(h)
<1>0. n \in Nat /\ <<>> \in S /\ \A i \in 1..n : Feed[i] \in FeedElements
  BY ScenariosAssumption DEF FeedElements
<1>1. ASSUME NEW s \in S, NEW i \in 1..n PROVE step(s, i) \in S
  <2>1. Append(s, Feed[i]) \in S
    BY <1>0
  <2>. QED BY <2>1
<1>2. \E h : Is(h)
  <2>. HIDE DEF n, S, step
  <2>1. \A x \in S, i \in 1..n : F[<<x, i>>] = step(x, i)
    OBVIOUS
  <2>2. \A x \in S, i \in 1..n : F[<<x, i>>] \in S
    BY <1>1, <2>1
  <2>. HIDE DEF F
  <2>3. PICK h : Solves(h, n, <<>>, F) /\ \A i \in 0..n : h[i] \in S
    BY <1>0, <2>2, RecursionIn
  <2>4. \A i \in 1..n : F[<<h[i - 1], i>>] = step(h[i - 1], i)
    <3>1. \A i \in 1..n : i - 1 \in 0..n
      BY <1>0
    <3>. QED BY <2>1, <2>3, <3>1
  <2>5. Is(h)
    BY <1>0, <2>3, <2>4 DEF Solves, step
  <2>. QED BY <2>5
<1>3. Is(upTo)
  <2>. HIDE DEF Is
  <2>. QED BY <1>2
<1>4. upTo[n] \in S
  <2>0. ASSUME NEW i \in 1..n PROVE upTo[i] = step(upTo[i - 1], i)
    <3>. HIDE DEF upTo, n, S
    <3>1. i \in 0..n /\ i # 0
      BY <1>0
    <3>2. upTo[i] = IF i = 0 THEN <<>>
                    ELSE IF InRequest(Feed[i], req) THEN Append(upTo[i - 1], Feed[i]) ELSE upTo[i - 1]
      BY <1>3, <3>1
    <3>. QED BY <3>1, <3>2
  <2>. HIDE DEF upTo, n, S, step
  <2>1. upTo[0] \in S
    BY <1>0, <1>3
  <2>2. \A i \in 1..n : upTo[i - 1] \in S => upTo[i] \in S
    BY <1>0, <1>1, <2>0
  <2>3. \A i \in 0..n : upTo[i] \in S
    BY <1>0, <2>1, <2>2, KeptIn
  <2>. QED BY <1>0, <2>3
<1>5. StreamOf(req) = upTo[n]
  BY DEF StreamOf
<1>. QED BY <1>4, <1>5

-----------------------------------------------------------------------------
(* The order of a walk.                                                    *)

\* Elements are taken one by one out of a finite set: each is of those that the ones before it
\* have left.
LEMMA TakenInTurn ==
  ASSUME NEW S, IsFiniteSet(S), NEW low, \A T \in SUBSET S : T # {} => low[T] \in T,
         NEW left, left[0] = S, \A i \in 1..Cardinality(S) : left[i] = left[i - 1] \ {low[left[i - 1]]}
  PROVE  /\ Cardinality(S) \in Nat
         /\ \A i \in 1..Cardinality(S) : left[i - 1] \in SUBSET S /\ low[left[i - 1]] \in left[i - 1]
         /\ \A i \in 0..Cardinality(S), j \in 0..Cardinality(S) : i =< j => left[j] \subseteq left[i]
<1> DEFINE n == Cardinality(S)
           Good(i) == left[i] \in SUBSET S /\ Cardinality(left[i]) = n - i
<1>0. n \in Nat
  BY FS_CardinalityType
<1>. HIDE DEF n
<1>1. ASSUME NEW i \in 1..n, Good(i - 1) PROVE low[left[i - 1]] \in left[i - 1] /\ Good(i)
  <2> DEFINE T == left[i - 1]
  <2>1. T \in SUBSET S /\ Cardinality(T) = n - (i - 1)
    BY <1>1
  <2>2. left[i] = T \ {low[T]}
    BY DEF n
  <2>. HIDE DEF T
  <2>3. IsFiniteSet(T) /\ T # {}
    <3>1. IsFiniteSet(T)
      BY <2>1, FS_Subset
    <3>2. Cardinality(T) # 0
      BY <1>0, <2>1
    <3>. QED BY <3>1, <3>2, FS_EmptySet
  <2>4. low[T] \in T
    BY <2>1, <2>3
  <2>5. Cardinality(T \ {low[T]}) = Cardinality(T) - 1
    BY <2>3, <2>4, FS_RemoveElement
  <2>6. Good(i)
    BY <1>0, <2>1, <2>2, <2>5
  <2>. QED BY <2>4, <2>6 DEF T
<1>2. \A i \in 0..n : Good(i)
  <2> DEFINE Bad == {i \in 0..n : ~Good(i)}
  <2> SUFFICES ASSUME Bad # {} PROVE FALSE
    OBVIOUS
  <2>1. PICK k \in Bad : \A j \in Bad : k =< j
    <3>1. Bad \subseteq Nat
      BY <1>0
    <3>. HIDE DEF Bad
    <3>. QED BY <3>1, LeastNumber
  <2>2. k # 0
    <3>1. Good(0)
      BY <1>0 DEF n
    <3>. QED BY <3>1
  <2>3. k \in 1..n /\ k - 1 \in 0..n /\ k - 1 \notin Bad
    BY <1>0, <2>1, <2>2
  <2>4. Good(k - 1)
    BY <2>3
  <2>. QED BY <1>1, <2>3, <2>4
<1>3. \A i \in 1..n : left[i - 1] \in SUBSET S /\ low[left[i - 1]] \in left[i - 1]
  <2> SUFFICES ASSUME NEW i \in 1..n PROVE left[i - 1] \in SUBSET S /\ low[left[i - 1]] \in left[i - 1]
    OBVIOUS
  <2>1. i - 1 \in 0..n
    BY <1>0
  <2>. QED BY <1>1, <1>2, <2>1
<1>4. ASSUME NEW i \in 0..n, NEW j \in 0..n, i =< j PROVE left[j] \subseteq left[i]
  <2> DEFINE Bad == {m \in 0..n : i =< m /\ ~(left[m] \subseteq left[i])}
  <2> SUFFICES ASSUME Bad # {} PROVE FALSE
    BY <1>4
  <2>1. PICK k \in Bad : \A m \in Bad : k =< m
    <3>1. Bad \subseteq Nat
      BY <1>0
    <3>. HIDE DEF Bad
    <3>. QED BY <3>1, LeastNumber
  <2>2. k \in 1..n /\ k - 1 \in 0..n /\ k - 1 \notin Bad /\ i =< k - 1
    BY <1>0, <2>1
  <2>3. left[k - 1] \subseteq left[i]
    BY <2>2
  <2>4. left[k] \subseteq left[k - 1]
    <3>1. left[k] = left[k - 1] \ {low[left[k - 1]]}
      BY <2>2 DEF n
    <3>. QED BY <3>1
  <2>. QED BY <2>1, <2>3, <2>4
<1>. QED BY <1>0, <1>3, <1>4 DEF n

\* There is such a sequence of sets.
Turns(left, n, S, low) == left = [i \in 0..n |-> IF i = 0 THEN S ELSE left[i - 1] \ {low[left[i - 1]]}]

\* A finite set can be drawn until nothing is left of it.
LEMMA TurnsExist ==
  ASSUME NEW S, IsFiniteSet(S), NEW low
  PROVE  \E left : Turns(left, Cardinality(S), S, low)
<1> DEFINE n == Cardinality(S)
           begin == S
           P == SUBSET S
           step(x) == x \ {low[x]}
           F == [p \in P \X (1..n) |-> step(p[1])]
           Is(h) == h = [i \in 0..n |-> IF i = 0 THEN begin ELSE step(h[i - 1])]
<1>0. n \in Nat /\ begin \in P
  BY FS_CardinalityType
<1>1. \A x \in P : step(x) \in P
  OBVIOUS
<1>5. \E h : Is(h)
  <2>. HIDE DEF n, P, begin, step
  <2>1. \A x \in P, i \in 1..n : F[<<x, i>>] = step(x)
    OBVIOUS
  <2>2. \A x \in P, i \in 1..n : F[<<x, i>>] \in P
    BY <1>1, <2>1
  <2>. HIDE DEF F
  <2>3. PICK h : Solves(h, n, begin, F) /\ \A i \in 0..n : h[i] \in P
    BY <1>0, <2>2, RecursionIn
  <2>4. \A i \in 1..n : F[<<h[i - 1], i>>] = step(h[i - 1])
    <3>1. \A i \in 1..n : i - 1 \in 0..n
      BY <1>0
    <3>. QED BY <2>1, <2>3, <3>1
  <2>5. Is(h)
    BY <1>0, <2>3, <2>4 DEF Solves
  <2>. QED BY <2>5
<1>6. PICK h : Is(h)
  BY <1>5
<1>7. Turns(h, n, S, low)
  BY <1>6 DEF Turns
<1>. QED BY <1>7

\* Elements drawn one by one are a sequence of the set, each drawn from what the later ones are part of.
LEMMA DrawnTyped ==
  ASSUME NEW S, IsFiniteSet(S), NEW low, \A T \in SUBSET S : T # {} => low[T] \in T
  PROVE  /\ Drawn(S, low) \in Seq(S)
         /\ \A i \in DOMAIN Drawn(S, low), j \in DOMAIN Drawn(S, low) : i =< j =>
               \E T \in SUBSET S : T # {} /\ Drawn(S, low)[i] = low[T] /\ Drawn(S, low)[j] \in T
<1> DEFINE n == Cardinality(S)
           Is(h) == h = [i \in 0..n |-> IF i = 0 THEN S ELSE h[i - 1] \ {low[h[i - 1]]}]
           left == CHOOSE h : Is(h)
<1>1. n \in Nat
  BY FS_CardinalityType
<1>2. \E h : Is(h)
  <2>1. PICK h : Turns(h, n, S, low)
    BY TurnsExist
  <2>2. Is(h)
    BY <2>1 DEF Turns
  <2>. QED BY <2>2
<1>3. Is(left)
  <2>. HIDE DEF Is
  <2>. QED BY <1>2
<1>4. Drawn(S, low) = [i \in 1..n |-> low[left[i - 1]]]
  BY DEF Drawn
<1>. HIDE DEF left, n
<1>5. left[0] = S /\ \A i \in 1..n : left[i] = left[i - 1] \ {low[left[i - 1]]}
  <2> DEFINE begin == S
             step(x) == x \ {low[x]}
  <2>1. left = [i \in 0..n |-> IF i = 0 THEN begin ELSE step(left[i - 1])]
    BY <1>3
  <2>. HIDE DEF begin, step
  <2>2. left[0] = begin /\ \A i \in 1..n : left[i] = step(left[i - 1])
    BY <1>1, <2>1
  <2>. QED BY <2>2 DEF begin, step
<1>6. /\ \A i \in 1..n : left[i - 1] \in SUBSET S /\ low[left[i - 1]] \in left[i - 1]
      /\ \A i \in 0..n, j \in 0..n : i =< j => left[j] \subseteq left[i]
  BY <1>5, TakenInTurn DEF n
<1>7. ASSUME NEW i \in 1..n, NEW j \in 1..n, i =< j
      PROVE  \E T \in SUBSET S : T # {} /\ low[left[i - 1]] = low[T] /\ low[left[j - 1]] \in T
  <2>1. i - 1 \in 0..n /\ j - 1 \in 0..n /\ i - 1 =< j - 1
    BY <1>1, <1>7
  <2>2. left[j - 1] \subseteq left[i - 1]
    BY <1>6, <2>1
  <2>3. left[i - 1] \in SUBSET S /\ low[left[i - 1]] \in left[i - 1] /\ low[left[j - 1]] \in left[j - 1]
    BY <1>6
  <2>. QED BY <2>2, <2>3
<1>8. Drawn(S, low) \in Seq(S)
  <2>1. Drawn(S, low) \in [1..n -> S]
    BY <1>4, <1>6
  <2>. QED BY <1>1, <2>1
<1>9. ASSUME NEW i \in 1..n, NEW j \in 1..n, i =< j
      PROVE  \E T \in SUBSET S : T # {} /\ Drawn(S, low)[i] = low[T] /\ Drawn(S, low)[j] \in T
  <2>1. Drawn(S, low)[i] = low[left[i - 1]] /\ Drawn(S, low)[j] = low[left[j - 1]]
    BY <1>4
  <2>. QED BY <1>7, <1>9, <2>1
<1>. QED BY <1>4, <1>8, <1>9

\* The bases of a walk are those of the store, each a file of its own.
Named(bases) == {[base |-> b] : b \in bases}

\* A walk over merged files names the bases of the store.
LEMMA AscendingTyped ==
  ASSUME NEW bases \in SUBSET Nat, IsFiniteSet(bases)
  PROVE  Ascending(bases) \in Seq(Named(bases))
<1> DEFINE S == Named(bases)
           low == [T \in SUBSET S |-> CHOOSE x \in T : \A y \in T : ~(y.base < x.base)]
<1>1. IsFiniteSet(S)
  <2> DEFINE m == [b \in bases |-> [base |-> b]]
  <2>1. m \in Surjection(bases, S)
    BY DEF Surjection, Named
  <2>. HIDE DEF m, S
  <2>. QED BY <2>1, FS_Surjection
<1>2. ASSUME NEW T \in SUBSET S, T # {} PROVE low[T] \in T
  <2> DEFINE N == {f.base : f \in T}
  <2>1. N \subseteq Nat /\ N # {}
    BY <1>2 DEF Named
  <2>2. PICK k \in N : \A j \in N : k =< j
    <3>. HIDE DEF N
    <3>. QED BY <2>1, LeastNumber
  <2>3. PICK x \in T : x.base = k
    OBVIOUS
  <2>4. \A y \in T : ~(y.base < x.base)
    BY <2>1, <2>2, <2>3
  <2>. QED BY <2>4
<1>3. Ascending(bases) = Drawn(S, low)
  BY DEF Ascending, Sorted, Named
<1>. HIDE DEF low, S
<1>4. Drawn(S, low) \in Seq(S)
  BY <1>1, <1>2, DrawnTyped
<1>. QED BY <1>3, <1>4 DEF S

\* One-block files are walked by height.
OneFiles(K) == [blk : K, suffix : {"mind", "extracted"}]

\* One-block files sorted by their names are in the order of their heights.
LEMMA OnesSorted ==
  ASSUME NEW S, IsFiniteSet(S), S \subseteq OneFiles(HeldBlocks)
  PROVE  /\ Sorted(S, OneFileBefore) \in Seq(S)
         /\ \A i \in DOMAIN Sorted(S, OneFileBefore), j \in DOMAIN Sorted(S, OneFileBefore) : i =< j =>
               Sorted(S, OneFileBefore)[i].blk.num =< Sorted(S, OneFileBefore)[j].blk.num
<1> DEFINE low == [T \in SUBSET S |-> CHOOSE x \in T : \A y \in T : ~OneFileBefore(y, x)]
<1>1. ASSUME NEW f \in S
      PROVE  /\ f.blk.num \in Nat /\ f.blk.id \in Nat /\ f.suffix \in {"mind", "extracted"}
             /\ f = [blk |-> f.blk, suffix |-> f.suffix]
  BY ScenariosAssumption DEF OneFiles, HeldBlocks
<1>2. ASSUME NEW T \in SUBSET S, T # {}
      PROVE  low[T] \in T /\ \A y \in T : ~OneFileBefore(y, low[T])
  <2> DEFINE N == {f.blk.num : f \in T}
  <2>1. N \subseteq Nat /\ N # {}
    BY <1>1, <1>2
  <2>2. PICK num \in N : \A j \in N : num =< j
    <3>. HIDE DEF N
    <3>. QED BY <2>1, LeastNumber
  <2> DEFINE I == {f.blk.id : f \in {g \in T : g.blk.num = num}}
  <2>3. I \subseteq Nat /\ I # {}
    BY <1>1
  <2>4. PICK id \in I : \A j \in I : id =< j
    <3>. HIDE DEF I
    <3>. QED BY <2>3, LeastNumber
  <2>5. PICK f \in T : f.blk.num = num /\ f.blk.id = id
    OBVIOUS
  <2>6. ASSUME NEW y \in T PROVE ~(y.blk.num < num) /\ (y.blk.num = num => ~(y.blk.id < id))
    <3>1. num =< y.blk.num /\ (y.blk.num = num => id =< y.blk.id)
      BY <2>2, <2>4
    <3>2. y.blk.num \in Nat /\ y.blk.id \in Nat /\ num \in Nat /\ id \in Nat
      BY <1>1, <2>1, <2>3
    <3>. QED BY <3>1, <3>2
  <2>7. \E x \in T : \A y \in T : ~OneFileBefore(y, x)
    <3>1. CASE \E g \in T : g.blk = f.blk /\ g.suffix = "extracted"
      <4>1. PICK g \in T : g.blk = f.blk /\ g.suffix = "extracted"
        BY <3>1
      <4>2. g.blk.num = num /\ g.blk.id = id
        BY <2>5, <4>1
      <4>. QED BY <2>6, <4>1, <4>2 DEF OneFileBefore
    <3>2. CASE ~ \E g \in T : g.blk = f.blk /\ g.suffix = "extracted"
      BY <2>5, <2>6, <3>2 DEF OneFileBefore
    <3>. QED BY <3>1, <3>2
  <2>. QED BY <2>7
<1>3. Sorted(S, OneFileBefore) = Drawn(S, low)
  BY DEF Sorted
<1>. HIDE DEF low
<1>4. /\ Drawn(S, low) \in Seq(S)
      /\ \A i \in DOMAIN Drawn(S, low), j \in DOMAIN Drawn(S, low) : i =< j =>
            \E T \in SUBSET S : T # {} /\ Drawn(S, low)[i] = low[T] /\ Drawn(S, low)[j] \in T
  BY <1>2, DrawnTyped
<1>5. ASSUME NEW i \in DOMAIN Drawn(S, low), NEW j \in DOMAIN Drawn(S, low), i =< j
      PROVE  Drawn(S, low)[i].blk.num =< Drawn(S, low)[j].blk.num
  <2>1. PICK T \in SUBSET S : T # {} /\ Drawn(S, low)[i] = low[T] /\ Drawn(S, low)[j] \in T
    BY <1>4, <1>5
  <2>2. low[T] \in S /\ Drawn(S, low)[j] \in S /\ ~OneFileBefore(Drawn(S, low)[j], low[T])
    BY <1>2, <2>1
  <2>3. ~(Drawn(S, low)[j].blk.num < low[T].blk.num)
    BY <2>2 DEF OneFileBefore
  <2>4. low[T].blk.num \in Nat /\ Drawn(S, low)[j].blk.num \in Nat
    BY <1>1, <2>2
  <2>. QED BY <2>1, <2>3, <2>4
<1>. QED BY <1>3, <1>4, <1>5

-----------------------------------------------------------------------------
(* What a call of a walk may leave.                                        *)

WalkMarks == [base : BundleBases, kind : {"missing", "broken"}]
FrameEnds == {"go", "stop", "ok", "error", "panic"}

IsFrame(f) == f = [writer |-> f.writer, ones |-> f.ones, marks |-> f.marks, local |-> f.local,
                   end |-> f.end, trouble |-> f.trouble]

GoodFrame(K, f) ==
  /\ IsFrame(f)
  /\ f.writer \in Writers(K) /\ DOMAIN writer.files \subseteq DOMAIN f.writer.files
  /\ f.ones \subseteq OneFiles(K) /\ IsFiniteSet(f.ones)
  /\ f.marks \subseteq WalkMarks
  /\ f.end \in FrameEnds /\ f.trouble \in BOOLEAN

\* The batch check goes on from the last block it has seen.
Referring(l) == DOMAIN l = DOMAIN NoLocals /\ l.expected \in Multiples /\ l.refHash \in Nat /\ l.refNum \in Nat

\* A merge holds blocks only of a bundle that has a name.
InNames(w) == w.low =< MaxBlockNum \/ (w.low = Wanted.start /\ w.blocks = <<>>)

\* The walks whose files are those of the store
Listed == {"unmerge", "fix", "legacy", "batch"}
WalkKept(K) ==
  /\ command.op = "merge" => walk \in Seq({f \in OneFiles(K) : f.blk.num >= Wanted.start})
  /\ command.op \in Listed => walk \in Seq(Named(DOMAIN Files(command)))

Kept(K) ==
  /\ writer \in Writers(K) /\ source \in Stores(K)
  /\ ones \subseteq OneFiles(K) /\ IsFiniteSet(ones)
  /\ marks \subseteq WalkMarks
  /\ command \in Issued
  /\ WalkKept(K)
  /\ command.op = "batch" => Referring(local)
  /\ command.op = "merge" => InNames(writer) /\ Wanted.start \in Multiples

\* Files are written, never removed; a command that does not order what it writes leaves the other files as they are.
Grows(w, t) ==
  /\ DOMAIN w.files \subseteq DOMAIN t.files /\ t.by = w.by
  /\ ~Orders(w.by) /\ OrderedFiles(w.files) => OrderedFiles(t.files)

\* WriteBundle only adds files, and keeps the command that they are from.
LEMMA WriteGrows ==
  ASSUME NEW K, NEW w \in Writers(K), NEW t \in WriteBundle(w)
  PROVE  Grows(w, t)
<1>1. CASE w.blocks = <<>>
  <2>1. t = Made(w.low, w.stop, w.blocks, w.files, w.overwrite, w.by, "no blocks")
    BY <1>1, ErrorMade DEF WriteBundle
  <2>2. t.files = w.files /\ t.by = w.by
    BY <2>1 DEF Made
  <2>. QED BY <2>2 DEF Grows
<1>2. CASE w.blocks # <<>>
  <2>1. t.by = w.by /\ (t.files = Stored(w) \/ t.files = w.files)
    BY <1>2, WriteMade DEF Made
  <2>2. DOMAIN w.files \subseteq DOMAIN Stored(w)
    BY DEF Stored
  <2>3. ~Orders(w.by) /\ OrderedFiles(w.files) => OrderedFiles(Stored(w))
    BY StoredOrdered
  <2>. QED BY <2>1, <2>2, <2>3 DEF Grows
<1>. QED BY <1>1, <1>2

\* ProcessBlock only adds files, and keeps the command that they are from.
LEMMA ProcessGrows ==
  ASSUME NEW K, K \subseteq HeldBlocks, NEW w \in Writers(K), NEW blk \in K, NEW t \in ProcessBlock(w, blk)
  PROVE  Grows(w, t)
<1> DEFINE initial == w.low = 0 /\ blk.num >= BundleSize
           start == IF initial THEN [w EXCEPT !.low = RoundToBundleStartBlock(blk.num)] ELSE w
           ready == IF blk.num >= start.low + BundleSize THEN WriteBundle(start) ELSE {start}
           Keep(u) == [u EXCEPT !.blocks = Append(@, blk)]
           Takes(u) ==
             IF u.err # "none" THEN {u}
             ELSE IF u.stop > 0 /\ blk.num >= u.stop THEN {[u EXCEPT !.err = "EOF"]}
             ELSE IF blk.num = u.low + BundleSize - 1 THEN WriteBundle(Keep(u))
             ELSE {Keep(u)}
           refused == initial /\ blk.num % BundleSize # 0 /\ blk.num # FirstStreamable
<1>0. blk.num \in 0..MaxBlockNum - 1 /\ blk.num \in Nat
  BY ScenariosAssumption DEF HeldBlocks
<1>1. t \in IF refused THEN {[w EXCEPT !.err = "not a boundary"]} ELSE UNION {Takes(u) : u \in ready}
  BY DEF ProcessBlock
<1>2. CASE refused
  <2>1. t = [w EXCEPT !.err = "not a boundary"]
    BY <1>1, <1>2
  <2>2. t.files = w.files /\ t.by = w.by
    BY <2>1, ErrorMade DEF Made
  <2>. QED BY <2>2 DEF Grows
<1>3. CASE ~refused
  <2>1. PICK u \in ready : t \in Takes(u)
    BY <1>1, <1>3
  <2>2. start \in Writers(K) /\ start.files = w.files /\ start.by = w.by
    <3>1. RoundToBundleStartBlock(blk.num) \in Multiples
      BY <1>0, RoundedIs
    <3>. QED BY <3>1, WithLow
  <2>3. u \in Writers(K) /\ Grows(w, u)
    <3>. HIDE DEF start
    <3>1. u \in Writers(K)
      BY <1>0, <2>1, <2>2, ReadyTyped
    <3>2. u = start \/ Grows(start, u)
      BY <2>1, <2>2, WriteGrows
    <3>. QED BY <2>2, <3>1, <3>2 DEF Grows
  <2>. HIDE DEF ready, start
  <2>4. Keep(u) \in Writers(K) /\ Keep(u).files = u.files /\ Keep(u).by = u.by
    BY <2>3, WithBlock
  <2>5. [u EXCEPT !.err = "EOF"].files = u.files /\ [u EXCEPT !.err = "EOF"].by = u.by
    BY <2>3, ErrorMade DEF Made
  <2>6. t = u \/ t = [u EXCEPT !.err = "EOF"] \/ t \in WriteBundle(Keep(u)) \/ t = Keep(u)
    BY <2>1
  <2>. HIDE DEF Keep, Takes
  <2>7. t \in WriteBundle(Keep(u)) => Grows(Keep(u), t)
    BY <2>4, WriteGrows
  <2>. QED BY <2>3, <2>4, <2>5, <2>6, <2>7 DEF Grows
<1>. QED BY <1>2, <1>3

\* The frame of a call is good to begin with, and remains so with another end.
LEMMA FirstFrame ==
  ASSUME NEW K, Kept(K) PROVE GoodFrame(K, Frame)
<1>1. IsFrame(Frame) /\ Frame.end = "go" /\ Frame.trouble = FALSE
  BY DEF IsFrame, Frame
<1>. QED BY <1>1 DEF GoodFrame, Frame, Kept, FrameEnds

\* A call that changes only its locals and how it ends leaves a good frame.
LEMMA OtherFrame ==
  ASSUME NEW K, NEW f, GoodFrame(K, f), NEW g, IsFrame(g),
         g.writer = f.writer, g.ones = f.ones, g.marks = f.marks, g.end \in FrameEnds, g.trouble \in BOOLEAN
  PROVE  GoodFrame(K, g)
BY DEF GoodFrame

\* A call that changes only the local variables
LEMMA LocalFrame ==
  ASSUME NEW K, NEW f, GoodFrame(K, f), NEW l, NEW e \in FrameEnds, NEW g,
         \/ g = [f EXCEPT !.local = l, !.end = e] 
         \/ g = [f EXCEPT !.local = l]
         \/ g = [f EXCEPT !.end = e]
         \/ g = f
  PROVE  GoodFrame(K, g)
<1>1. /\ IsFrame(g) /\ g.writer = f.writer /\ g.ones = f.ones /\ g.marks = f.marks
      /\ g.end \in FrameEnds /\ g.trouble = f.trouble
  BY DEF GoodFrame, IsFrame
<1>. QED BY <1>1, OtherFrame DEF GoodFrame

\* merge-blocks
LEMMA MergeGood ==
  ASSUME NEW K, K \subseteq HeldBlocks, Kept(K), command.op = "merge", walk # <<>>, NEW g \in MergeFile(Frame, Head(walk))
  PROVE  GoodFrame(K, g) /\ InNames(g.writer)
<1> DEFINE file == Head(walk)
<1>1. file \in OneFiles(K) /\ file.blk.num >= Wanted.start
  BY DEF Kept, WalkKept
<1>2. GoodFrame(K, Frame) /\ InNames(Frame.writer) /\ Frame.writer \in Writers(K)
  BY FirstFrame DEF Kept, Frame
<1>3. CASE g = Frame \/ g = [Frame EXCEPT !.end = "stop"]
  <2>1. GoodFrame(K, g)
    <3>1. "stop" \in FrameEnds
      BY DEF FrameEnds
    <3>. QED BY <1>2, <1>3, <3>1, LocalFrame
  <2>2. g.writer = Frame.writer
    BY <1>3 DEF Frame
  <2>. QED BY <1>2, <2>1, <2>2
<1>4. CASE \E w \in ProcessBlock(Frame.writer, file.blk) :
              g = [Frame EXCEPT !.writer = w, !.local.prev = file.blk.num,
                                !.end = IF w.err = "none" THEN "go" ELSE "error", !.trouble = w.err = "store"]
  <2>1. PICK w \in ProcessBlock(writer, file.blk) :
              g = [Frame EXCEPT !.writer = w, !.local.prev = file.blk.num,
                                !.end = IF w.err = "none" THEN "go" ELSE "error", !.trouble = w.err = "store"]
    BY <1>4 DEF Frame
  <2>2. /\ IsFrame(g) /\ g.writer = w /\ g.ones = ones /\ g.marks = marks
        /\ g.end \in FrameEnds /\ g.trouble \in BOOLEAN
    BY <2>1 DEF Frame, IsFrame, FrameEnds
  <2>3. file.blk \in K /\ file.blk.num \in 0..MaxBlockNum - 1 /\ MaxBlockNum \in Nat
    BY <1>1, ScenariosAssumption DEF OneFiles, HeldBlocks
  <2>4. w \in Writers(K) /\ (writer.low =< MaxBlockNum \/ writer.low =< file.blk.num => w.low =< MaxBlockNum)
    BY <2>3, ProcessTyped DEF Kept
  <2>5. DOMAIN writer.files \subseteq DOMAIN w.files
    BY <2>3, ProcessGrows DEF Kept, Grows
  <2>6. w.low =< MaxBlockNum
    <3>1. writer.low =< MaxBlockNum \/ writer.low = Wanted.start
      BY DEF Kept, InNames
    <3>. QED BY <1>1, <2>4, <3>1
  <2>7. GoodFrame(K, g)
    BY <2>2, <2>4, <2>5 DEF GoodFrame, Kept
  <2>. QED BY <2>2, <2>6, <2>7 DEF InNames
<1>. QED BY <1>3, <1>4 DEF MergeFile

\* The last bundle of merge-blocks leaves a good frame.
LEMMA MergeEndGood ==
  ASSUME NEW K, K \subseteq HeldBlocks, NEW f, GoodFrame(K, f), InNames(f.writer), NEW g \in MergeEnd(f)
  PROVE  GoodFrame(K, g)
<1>1. PICK w \in WriteBundle(f.writer) :
         g = [f EXCEPT !.writer = w, !.end = IF w.err = "none" THEN "ok" ELSE "error", !.trouble = w.err = "store"]
  BY DEF MergeEnd
<1>2. /\ IsFrame(g) /\ g.writer = w /\ g.ones = f.ones /\ g.marks = f.marks
      /\ g.end \in FrameEnds /\ g.trouble \in BOOLEAN
  BY <1>1 DEF GoodFrame, IsFrame, FrameEnds
<1>3. f.writer \in Writers(K)
  BY DEF GoodFrame
<1>4. w \in Writers(K)
  <2>1. CASE f.writer.blocks = <<>>
    <3>1. w = [f.writer EXCEPT !.err = "no blocks"]
      BY <2>1 DEF WriteBundle
    <3>2. "no blocks" \in WriterErrors
      BY DEF WriterErrors
    <3>. QED BY <1>3, <3>1, <3>2, WithError
  <2>2. CASE f.writer.blocks # <<>>
    <3>1. f.writer.low \in BundleBases
      BY <1>3, <2>2, WriterTypes, ScenariosAssumption DEF InNames, BundleBases, Multiples
    <3>. QED BY <1>3, <3>1, WriteTyped
  <2>. QED BY <2>1, <2>2
<1>5. DOMAIN f.writer.files \subseteq DOMAIN w.files
  BY <1>3, WriteGrows DEF Grows
<1>. QED BY <1>2, <1>4, <1>5 DEF GoodFrame

\* The files of the store that is read
LEMMA FileTyped ==
  ASSUME NEW K, Kept(K), NEW base \in DOMAIN Files(command)
  PROVE  File(base).blocks \in Seq(K) /\ File(base).broken \in BOOLEAN /\ base \in BundleBases
<1>1. Files(command) \in Stores(K)
  BY WriterTypes DEF Kept, Files
<1>2. File(base) \in MergedFiles(K) /\ base \in BundleBases
  BY <1>1, StoresAre DEF File
<1>. QED BY <1>2 DEF MergedFiles

\* unmerge-blocks
LEMMA UnmergeGood ==
  ASSUME NEW K, K \subseteq HeldBlocks, Kept(K), NEW base \in DOMAIN Files(command), NEW g \in UnmergeFile(Frame, base)
  PROVE  GoodFrame(K, g) /\ g.writer = writer
<1> DEFINE blocks == File(base).blocks
           past == {i \in DOMAIN blocks : ~Before(blocks[i].num, Wanted) /\ blocks[i].num > StopOr(Wanted, MaxUint)}
           upTo == IF past = {} THEN Len(blocks) ELSE Min(past) - 1
           Taken(k) == {j \in 1..k : ~Before(blocks[j].num, Wanted)}
           Written(k) == {[blk |-> blocks[i], suffix |-> "extracted"] : i \in Taken(k)}
<1>1. blocks \in Seq(K)
  BY FileTyped
<1>2. upTo \in Nat /\ upTo =< Len(blocks)
  <2>1. CASE past = {}
    BY <1>1, <2>1
  <2>2. CASE past # {}
    <3>1. past \subseteq 1..Len(blocks) /\ past \subseteq Nat
      BY <1>1
    <3>2. PICK k \in past : \A j \in past : k =< j
      <4>. HIDE DEF past
      <4>. QED BY <2>2, <3>1, LeastNumber
    <3>3. Min(past) \in past
      <4>. HIDE DEF past
      <4>. QED BY <3>2 DEF Min
    <3>. HIDE DEF past
    <3>4. upTo = Min(past) - 1
      BY <2>2
    <3>5. Min(past) \in 1..Len(blocks) /\ Len(blocks) \in Nat
      <4>1. Len(blocks) \in Nat
        BY <1>1
      <4>. HIDE DEF blocks
      <4>. QED BY <3>1, <3>3, <4>1
    <3>. HIDE DEF upTo, blocks
    <3>. QED BY <3>4, <3>5
  <2>. QED BY <2>1, <2>2
<1>3. ASSUME NEW k \in Nat, k =< Len(blocks)
      PROVE  Written(k) \subseteq OneFiles(K) /\ IsFiniteSet(Written(k))
  <2>1. Written(k) \subseteq OneFiles(K)
    BY <1>1, <1>3 DEF OneFiles
  <2>2. IsFiniteSet(Taken(k))
    <3>1. IsFiniteSet(1..k) /\ Taken(k) \subseteq 1..k
      BY <1>3, FS_Interval
    <3>. HIDE DEF Taken
    <3>. QED BY <3>1, FS_Subset
  <2>3. IsFiniteSet(Written(k))
    <3> DEFINE m == [i \in Taken(k) |-> [blk |-> blocks[i], suffix |-> "extracted"]]
    <3>1. m \in Surjection(Taken(k), Written(k))
      <4>. HIDE DEF blocks, Taken
      <4>. QED BY DEF Surjection
    <3>. HIDE DEF m, Taken, Written
    <3>. QED BY <2>2, <3>1, FS_Surjection
  <2>. QED BY <2>1, <2>3
<1>4. GoodFrame(K, Frame)
  BY FirstFrame
<1>5. AfterRead(base) \in {"panic", "go"}
  BY DEF AfterRead
<1>6. \E k \in 0..upTo :
         \/ g = [Frame EXCEPT !.ones = @ \cup Written(k), !.end = IF past = {} THEN AfterRead(base) ELSE "go"]
         \/ g = [Frame EXCEPT !.ones = @ \cup Written(k), !.end = "error", !.trouble = TRUE]
  <2>1. \A k \in 0..upTo - 1 : k \in 0..upTo
    BY <1>2
  <2>2. upTo \in 0..upTo
    BY <1>2
  <2>3. UnmergeFile(Frame, base) =
           {[Frame EXCEPT !.ones = @ \cup Written(upTo), !.end = IF past = {} THEN AfterRead(base) ELSE "go"]}
           \cup {[Frame EXCEPT !.ones = @ \cup Written(k), !.end = "error", !.trouble = TRUE] : k \in 0..upTo - 1}
    BY DEF UnmergeFile
  <2>. HIDE DEF upTo, Written, past
  <2>. QED BY <2>1, <2>2, <2>3
<1>. HIDE DEF upTo, Written, past, blocks
<1>7. PICK k \in 0..upTo :
         \/ g = [Frame EXCEPT !.ones = @ \cup Written(k), !.end = IF past = {} THEN AfterRead(base) ELSE "go"]
         \/ g = [Frame EXCEPT !.ones = @ \cup Written(k), !.end = "error", !.trouble = TRUE]
  BY <1>6
<1>8. /\ IsFrame(g) /\ g.writer = writer /\ g.marks = marks /\ g.ones = ones \cup Written(k)
      /\ g.end \in FrameEnds /\ g.trouble \in BOOLEAN
  BY <1>5, <1>7 DEF Frame, IsFrame, FrameEnds
<1>9. Written(k) \subseteq OneFiles(K) /\ IsFiniteSet(Written(k))
  <2>1. k \in Nat /\ k =< Len(blocks)
    BY <1>1, <1>2
  <2>. QED BY <1>3, <2>1
<1>10. IsFiniteSet(ones \cup Written(k))
  BY <1>9, FS_Union DEF Kept
<1>. QED BY <1>8, <1>9, <1>10 DEF GoodFrame, Kept

\* fix-bloated-merged-blocks and legacy_2_block_any
LEMMA RewriteGood ==
  ASSUME NEW K, K \subseteq HeldBlocks, Kept(K), NEW base \in DOMAIN Files(command), NEW g \in RewriteFile(Frame, base)
  PROVE  GoodFrame(K, g)
<1> DEFINE W == {w \in Writers(K) : DOMAIN writer.files \subseteq DOMAIN w.files}
           T == [writer : W, seen : {s : s \in SUBSET Nat}, last : Nat, end : {"go", "error", "break"}]
           first == [writer |-> NewWriter(writer.files, 0, 0, FALSE, command), seen |-> {}, last |-> NoId, end |-> "go"]
<1>1. File(base).blocks \in Seq(K)
  BY FileTyped
<1>2. [writer |-> NewWriter(Frame.writer.files, 0, 0, FALSE, command), seen |-> {}, last |-> NoId, end |-> "go"] \in T
  <2>1. NewWriter(writer.files, 0, 0, FALSE, command) = Made(0, 0, <<>>, writer.files, FALSE, command, "none")
    BY DEF NewWriter, Made
  <2>2. /\ 0 \in Multiples /\ 0 \in Int /\ <<>> \in Seq(K) /\ writer.files \in Stores(K) /\ FALSE \in BOOLEAN
        /\ command \in Issued /\ "none" \in WriterErrors
    <3>1. 0 \in Multiples
      BY MultipleIs, RangeAssumption DEF Multiples
    <3>2. <<>> \in Seq(K)
      OBVIOUS
    <3>3. writer.files \in Stores(K) /\ command \in Issued
      BY WriterTypes DEF Kept
    <3>4. "none" \in WriterErrors
      BY DEF WriterErrors
    <3>. QED BY <3>1, <3>2, <3>3, <3>4
  <2>3. NewWriter(writer.files, 0, 0, FALSE, command) \in Writers(K)
    BY <2>1, <2>2, WriterMade
  <2>4. NewWriter(writer.files, 0, 0, FALSE, command) \in W
    <3>1. NewWriter(writer.files, 0, 0, FALSE, command).files = writer.files
      BY DEF NewWriter
    <3>. QED BY <2>3, <3>1
  <2>. HIDE DEF W
  <2>5. Frame.writer = writer
    BY DEF Frame
  <2>. QED BY <2>4, <2>5 DEF NoId
<1>3. ASSUME NEW st \in T, NEW blk \in K, NEW u \in RewriteBlock(st, base, blk) PROVE u \in T
  <2>1. st.writer \in W /\ st.seen \in SUBSET Nat /\ blk.id \in Nat
    BY DEF HeldBlocks
  <2>2. CASE u = st
    BY <2>2
  <2>3. CASE u = [st EXCEPT !.end = "break"] \/ u = [st EXCEPT !.end = "error"]
    <3>. HIDE DEF W
    <3>. QED BY <2>3
  <2>4. CASE \E w \in ProcessBlock(st.writer, blk) :
                u = [writer |-> w, seen |-> st.seen \cup {blk.id}, last |-> blk.id,
                     end |-> IF w.err = "none" THEN "go" ELSE "error"]
    <3>1. PICK w \in ProcessBlock(st.writer, blk) :
                u = [writer |-> w, seen |-> st.seen \cup {blk.id}, last |-> blk.id,
                     end |-> IF w.err = "none" THEN "go" ELSE "error"]
      BY <2>4
    <3>2. w \in Writers(K) /\ DOMAIN st.writer.files \subseteq DOMAIN w.files
      BY <2>1, ProcessTyped, ProcessGrows DEF Grows
    <3>3. w \in W
      BY <2>1, <3>2
    <3>. HIDE DEF W
    <3>. QED BY <2>1, <3>1, <3>3
  <2>. QED BY <2>2, <2>3, <2>4 DEF RewriteBlock
<1>. HIDE DEF T
<1>4. PICK st \in T : g = Rewritten(Frame, base, st)
  <2>1. \A st \in T, blk \in K : RewriteBlock(st, base, blk) \subseteq T
    BY <1>3
  <2>. QED BY <1>1, <1>2, <2>1, RewriteKeeps
<1>5. st.writer \in Writers(K) /\ DOMAIN writer.files \subseteq DOMAIN st.writer.files
  BY DEF T
<1>6. AfterRead(base) \in {"panic", "go"}
  BY DEF AfterRead
<1>7. /\ IsFrame(g) /\ g.writer = st.writer /\ g.marks = marks /\ g.ones = ones
      /\ g.end \in FrameEnds /\ g.trouble \in BOOLEAN
  BY <1>4, <1>6 DEF Rewritten, Frame, IsFrame, FrameEnds
<1>. QED BY <1>5, <1>7 DEF GoodFrame, Kept

\* upgrade-merged-blocks
LEMMA UpgradeGood ==
  ASSUME NEW K, K \subseteq HeldBlocks, Kept(K), NEW base \in DOMAIN Files(command), NEW g \in UpgradeFile(Frame, base)
  PROVE  GoodFrame(K, g)
<1> DEFINE W == {w \in Writers(K) : DOMAIN writer.files \subseteq DOMAIN w.files}
<1>1. File(base).blocks \in Seq(K)
  BY FileTyped
<1>2. Frame.writer \in W
  BY DEF Frame, Kept
<1>3. \A w \in W, blk \in K : ProcessBlock(w, blk) \subseteq W
  <2>1. ASSUME NEW w \in W, NEW blk \in K, NEW t \in ProcessBlock(w, blk) PROVE t \in W
    <3>1. t \in Writers(K) /\ DOMAIN w.files \subseteq DOMAIN t.files
      BY ProcessTyped, ProcessGrows DEF Grows
    <3>. QED BY <3>1
  <2>. QED BY <2>1
<1>. HIDE DEF W
<1>4. PICK w \in W : g = Upgraded(Frame, base, w)
  BY <1>1, <1>2, <1>3, UpgradeKeeps
<1>5. /\ IsFrame(g) /\ g.writer = w /\ g.marks = marks /\ g.ones = ones
      /\ g.end \in FrameEnds /\ g.trouble \in BOOLEAN
  BY <1>4 DEF Upgraded, Frame, IsFrame, FrameEnds
<1>. QED BY <1>5 DEF GoodFrame, Kept, W

\* check merged-blocks, compare-blocks, print: only local variables
LEMMA CheckGood ==
  ASSUME NEW K, Kept(K), NEW base, NEW g \in CheckFile(Frame, base)
  PROVE  GoodFrame(K, g) /\ g.writer = writer
<1>1. "go" \in FrameEnds /\ "stop" \in FrameEnds
  BY DEF FrameEnds
<1>2. g = Frame \/ \E l : \E e \in {"go", "stop"} : g = [Frame EXCEPT !.local = l, !.end = e]
  <2> DEFINE l0 == [Frame.local EXCEPT !.hole = @ \/ base # Frame.local.expected, !.expected = base + BundleSize]
             seen == IF command.op = "stats" THEN ValidateSegment(l0, base)
                     ELSE [l0 EXCEPT !.lowest = IF base < @ THEN base ELSE @,
                                     !.highest = IF base + BundleSize > @ THEN base + BundleSize ELSE @]
             last == Wanted.stop # 0 /\ ~IsOpen(Wanted) /\ RoundToBundleEndBlock(base) >= Wanted.stop - 1
  <2>1. g \in IF Before(EndOf(base), Wanted) THEN {Frame}
              ELSE {[Frame EXCEPT !.local = seen, !.end = IF last THEN "stop" ELSE "go"]}
    BY DEF CheckFile
  <2>. HIDE DEF seen, last
  <2>2. g = Frame \/ g = [Frame EXCEPT !.local = seen, !.end = IF last THEN "stop" ELSE "go"]
    BY <2>1
  <2>. QED BY <2>2
<1>3. g.writer = writer
  <2>1. Frame.writer = writer /\ \A l, e : [Frame EXCEPT !.local = l, !.end = e].writer = writer
    BY DEF Frame
  <2>. QED BY <1>2, <2>1
<1>. QED BY <1>1, <1>2, <1>3, FirstFrame, LocalFrame

\* A call of compare-blocks leaves a good frame and does not write.
LEMMA CompareGood ==
  ASSUME NEW K, Kept(K), NEW base, NEW g \in CompareFile(Frame, base)
  PROVE  GoodFrame(K, g) /\ g.writer = writer
<1>1. "stop" \in FrameEnds /\ "error" \in FrameEnds
  BY DEF FrameEnds
<1>2. \/ g = Frame
      \/ g = [Frame EXCEPT !.end = "stop"]
      \/ g = [Frame EXCEPT !.end = "error"]
      \/ \E l : g = [Frame EXCEPT !.local = l]
      \/ \E l : g = [[Frame EXCEPT !.local = l] EXCEPT !.local.lost = TRUE]
  BY DEF CompareFile
<1>3. ASSUME NEW l, g = [[Frame EXCEPT !.local = l] EXCEPT !.local.lost = TRUE] PROVE GoodFrame(K, g)
  <2>1. \E m : g = [Frame EXCEPT !.local = m]
    <3>1. g = [Frame EXCEPT !.local = [l EXCEPT !.lost = TRUE]]
      BY <1>3 DEF Frame
    <3>. QED BY <3>1
  <2>. QED BY <1>1, <2>1, FirstFrame, LocalFrame
<1>4. g.writer = writer
  <2>1. /\ Frame.writer = writer /\ \A e : [Frame EXCEPT !.end = e].writer = writer
        /\ \A l : [Frame EXCEPT !.local = l].writer = writer
        /\ \A l : [[Frame EXCEPT !.local = l] EXCEPT !.local.lost = TRUE].writer = writer
    BY DEF Frame
  <2>2. CASE \E l : g = [[Frame EXCEPT !.local = l] EXCEPT !.local.lost = TRUE]
    <3>1. PICK l : g = [[Frame EXCEPT !.local = l] EXCEPT !.local.lost = TRUE]
      BY <2>2
    <3>. QED BY <2>1, <3>1
  <2>3. CASE \E l : g = [Frame EXCEPT !.local = l]
    BY <2>1, <2>3
  <2>4. CASE g = Frame \/ \E e \in {"stop", "error"} : g = [Frame EXCEPT !.end = e]
    BY <2>1, <2>4
  <2>. QED BY <1>2, <2>2, <2>3, <2>4
<1>5. GoodFrame(K, g)
  BY <1>1, <1>2, <1>3, FirstFrame, LocalFrame
<1>. QED BY <1>4, <1>5

\* A call of a print command leaves a good frame and does not write.
LEMMA ShowGood ==
  ASSUME NEW K, Kept(K), NEW file, NEW base, NEW g \in ShowFile(Frame, base) \cup ShowOne(Frame, file)
  PROVE  GoodFrame(K, g) /\ g.writer = writer
<1>1. "ok" \in FrameEnds /\ "error" \in FrameEnds
  BY DEF FrameEnds
<1>2. \/ \E e \in {"ok", "error"} : g = [Frame EXCEPT !.end = e]
      \/ \E l : \E e \in {"ok", "error"} : g = [Frame EXCEPT !.local = l, !.end = e]
      \/ \E l : g = [Frame EXCEPT !.local = l]
  <2>1. CASE g \in ShowFile(Frame, base)
    <3>1. CASE base \notin DOMAIN Files(command)
      BY <2>1, <3>1 DEF ShowFile
    <3>2. CASE base \in DOMAIN Files(command)
      <4>1. g = [Frame EXCEPT !.local.shown = File(base).blocks, !.end = IF File(base).broken THEN "error" ELSE "ok"]
        BY <2>1, <3>2 DEF ShowFile
      <4>2. g = [Frame EXCEPT !.local = [Frame.local EXCEPT !.shown = File(base).blocks],
                              !.end = IF File(base).broken THEN "error" ELSE "ok"]
        BY <4>1
      <4>3. \E e \in {"ok", "error"} : g = [Frame EXCEPT !.local = [Frame.local EXCEPT !.shown = File(base).blocks], !.end = e]
        BY <4>2
      <4>. QED BY <4>3, Zenon
    <3>. QED BY <3>1, <3>2
  <2>2. CASE g \in ShowOne(Frame, file)
    <3>1. g = [Frame EXCEPT !.local.shown = Append(@, file.blk)]
      BY <2>2 DEF ShowOne
    <3>2. g = [Frame EXCEPT !.local = [Frame.local EXCEPT !.shown = Append(Frame.local.shown, file.blk)]]
      BY <3>1
    <3>. QED BY <3>2, Zenon
  <2>. QED BY <2>1, <2>2
<1>3. g.writer = writer
  BY <1>2 DEF Frame
<1>. QED BY <1>1, <1>2, <1>3, FirstFrame, LocalFrame

\* check merged-blocks-batch
LEMMA BatchGood ==
  ASSUME NEW K, K \subseteq HeldBlocks, Kept(K), command.op = "batch", NEW base \in DOMAIN Files(command),
         NEW g \in BatchFile(Frame, base)
  PROVE  GoodFrame(K, g) /\ Referring(g.local) /\ g.writer = writer
<1>0. /\ BundleSize \in Nat /\ BundleSize > 0 /\ MaxBlockNum \in Nat
      /\ base \in Nat /\ base \in Multiples /\ base =< MaxBlockNum /\ base + BundleSize \in Multiples
  <2>1. base \in BundleBases /\ MaxBlockNum \in Nat
    BY FileTyped, ScenariosAssumption
  <2>2. base \in Multiples /\ base \in Nat /\ base =< MaxBlockNum
    BY <2>1 DEF BundleBases, Multiples
  <2>. QED BY <2>1, <2>2, RangeAssumption, NextMultiple
<1>1. Referring(local)
  BY DEF Kept
<1>2. PICK ref \in References : g \in BatchFrames(Frame, base, ref)
  <2>1. File(base).blocks \in Seq(HeldBlocks)
    <3>1. File(base).blocks \in Seq(K)
      BY FileTyped
    <3>. QED BY <3>1
  <2>2. Frame.local.refHash \in Nat /\ Frame.local.refNum \in Nat
    BY <1>1 DEF Frame, Referring
  <2>. QED BY <2>1, <2>2, BatchGives
<1> DEFINE missing == {b \in Frame.local.expected .. base - 1 : (b - Frame.local.expected) % BundleSize = 0}
           since == IF Unset(ref) THEN base ELSE RoundToBundleStartBlock(ref.num + 1)
           broken == IF ~ref.broken THEN {}
                     ELSE {b \in since .. base : (b - since) % BundleSize = 0}
           new == {[base |-> b, kind |-> "missing"] : b \in missing}
                  \cup {[base |-> b, kind |-> "broken"] : b \in broken}
           hash == IF ref.broken THEN NoId ELSE ref.hash
           num == IF ref.broken THEN 0 ELSE ref.num
<1>3. local.expected \in Multiples /\ local.expected \in Nat
  BY <1>1 DEF Referring, Multiples
<1>4. since \in Multiples /\ since \in Nat
  <2>1. ref.num + 1 \in Nat
    BY DEF References
  <2>2. RoundToBundleStartBlock(ref.num + 1) \in Multiples
    BY <2>1, RoundedIs
  <2>3. since \in Multiples
    BY <1>0, <2>2
  <2>. QED BY <2>3 DEF Multiples
<1>5. \A b \in missing : b \in BundleBases
  <2> SUFFICES ASSUME NEW b \in missing PROVE b \in BundleBases
    OBVIOUS
  <2>1. b \in Nat /\ b >= local.expected /\ b =< MaxBlockNum /\ (b - local.expected) % BundleSize = 0
    <3>1. Frame.local = local
      BY DEF Frame
    <3>. QED BY <1>0, <1>3, <3>1
  <2>2. b \in Multiples
    BY <1>3, <2>1, FromMultiple
  <2>. QED BY <1>0, <2>1, <2>2 DEF BundleBases, Multiples
<1>6. \A b \in broken : b \in BundleBases
  <2> SUFFICES ASSUME NEW b \in broken PROVE b \in BundleBases
    OBVIOUS
  <2>1. b \in since .. base /\ (b - since) % BundleSize = 0
    OBVIOUS
  <2>. HIDE DEF since
  <2>2. b \in Nat /\ b >= since /\ b =< MaxBlockNum
    BY <1>0, <1>4, <2>1
  <2>3. b \in Multiples
    BY <1>4, <2>1, <2>2, FromMultiple
  <2>. QED BY <1>0, <2>2, <2>3 DEF BundleBases, Multiples
<1>7. new \subseteq WalkMarks
  <2>. HIDE DEF missing, broken
  <2>. QED BY <1>5, <1>6 DEF WalkMarks
<1>8. hash \in Nat /\ num \in Nat
  BY DEF References, NoId
<1> DEFINE last == RoundToBundleEndBlock(base) >= Wanted.stop - 1
           read == ~File(base).broken \/ ref.broken
           seen == [Frame EXCEPT !.marks = @ \cup new,
                          !.local.refHash = hash,
                          !.local.refNum = num,
                          !.local.expected = IF last THEN @ ELSE base + BundleSize,
                          !.end = IF ~read THEN "error" ELSE IF last THEN "stop" ELSE "go"]
           Looked(m) == m.kind = "broken" /\ ~Unset(ref)
           Unwritten(m) == {m} \cup {n \in new : Looked(m) /\ n.kind = "broken" /\ n.base > m.base}
           cut(m) == new \ Unwritten(m)
<1>9. \/ g = seen
      \/ \E m \in new : g = [seen EXCEPT !.marks = marks \cup cut(m), !.trouble = TRUE, !.local.lost = TRUE,
                                         !.end = IF Looked(m) THEN "error" ELSE @]
  <2>1. BatchFrames(Frame, base, ref) =
          {seen} \cup {[seen EXCEPT !.marks = Frame.marks \cup (new \ Unwritten(m)), !.trouble = TRUE, !.local.lost = TRUE,
                           !.end = IF Looked(m) THEN "error" ELSE @] : m \in new}
    BY DEF BatchFrames
  <2>2. Frame.marks = marks
    BY DEF Frame
  <2>. HIDE DEF seen, new, Unwritten, Looked
  <2>. QED BY <1>2, <2>1, <2>2
<1>10. \A m : cut(m) \subseteq new
  OBVIOUS
<1>. HIDE DEF new, hash, num, last, read, Looked, Unwritten, cut
<1>11. /\ IsFrame(seen) /\ seen.writer = writer /\ seen.ones = ones /\ seen.end \in FrameEnds /\ seen.trouble \in BOOLEAN
       /\ seen.marks = marks \cup new
  <2>1. IsFrame(seen)
    <3> DEFINE l0 == [Frame.local EXCEPT !.refHash = hash, !.refNum = num,
                                         !.expected = IF last THEN @ ELSE base + BundleSize]
               e0 == IF ~read THEN "error" ELSE IF last THEN "stop" ELSE "go"
    <3>1. seen = [Frame EXCEPT !.marks = Frame.marks \cup new, !.local = l0, !.end = e0]
      BY DEF Frame
    <3>. HIDE DEF seen, l0, e0
    <3>. QED BY <3>1 DEF Frame, IsFrame
  <2>2. seen.writer = writer /\ seen.ones = ones /\ seen.marks = marks \cup new
    BY DEF Frame
  <2>3. seen.end \in FrameEnds
    BY DEF Frame, FrameEnds
  <2>4. seen.trouble \in BOOLEAN
    BY DEF Frame
  <2>. QED BY <2>1, <2>2, <2>3, <2>4
<1>12. /\ DOMAIN seen.local = DOMAIN NoLocals
       /\ seen.local.refHash = hash /\ seen.local.refNum = num /\ seen.local.expected \in Multiples
  <2>1. Frame.local = local
    BY DEF Frame
  <2>2. /\ DOMAIN local = DOMAIN NoLocals
        /\ "refHash" \in DOMAIN NoLocals /\ "refNum" \in DOMAIN NoLocals /\ "expected" \in DOMAIN NoLocals
    BY <1>1 DEF Referring, NoLocals
  <2>3. seen.local = [local EXCEPT !.refHash = hash, !.refNum = num,
                                   !.expected = IF last THEN @ ELSE base + BundleSize]
    BY DEF Frame
  <2>. HIDE DEF seen
  <2>. QED BY <1>0, <1>3, <2>2, <2>3
<1>. HIDE DEF seen
<1>13. CASE g = seen
  BY <1>1, <1>7, <1>8, <1>11, <1>12, <1>13 DEF GoodFrame, Kept, Referring
<1>14. CASE \E m \in new : g = [seen EXCEPT !.marks = marks \cup cut(m), !.trouble = TRUE, !.local.lost = TRUE,
                                         !.end = IF Looked(m) THEN "error" ELSE @]
  <2>1. PICK m \in new : g = [seen EXCEPT !.marks = marks \cup cut(m), !.trouble = TRUE, !.local.lost = TRUE,
                                         !.end = IF Looked(m) THEN "error" ELSE @]
    BY <1>14
  <2>2. /\ IsFrame(g) /\ g.writer = writer /\ g.ones = ones /\ g.end \in FrameEnds /\ g.trouble \in BOOLEAN
        /\ g.marks = marks \cup cut(m)
    BY <1>11, <2>1 DEF IsFrame, FrameEnds
  <2>3. g.local = [seen.local EXCEPT !.lost = TRUE]
    BY <1>11, <2>1 DEF IsFrame
  <2>4. DOMAIN g.local = DOMAIN NoLocals /\ g.local.refHash = hash /\ g.local.refNum = num
        /\ g.local.expected \in Multiples
    BY <1>12, <2>3 DEF NoLocals
  <2>5. GoodFrame(K, g)
    BY <1>7, <1>10, <2>2 DEF GoodFrame, Kept
  <2>. QED BY <1>8, <2>2, <2>4, <2>5 DEF Referring
<1>. QED BY <1>9, <1>13, <1>14

\* A call of any walk
LEMMA VisitGood ==
  ASSUME NEW K, K \subseteq HeldBlocks, Kept(K), command.op \notin Streaming \cup {"idle", "forks"}, walk # <<>>,
         command.op = "upgrade" => Head(walk).base \in DOMAIN Files(command),
         NEW g \in VisitFile(Frame, Head(walk))
  PROVE  /\ GoodFrame(K, g)
         /\ command.op = "batch" => Referring(g.local)
         /\ command.op = "merge" => InNames(g.writer)
         /\ command.op \notin {"merge", "fix", "legacy", "upgrade"} => g.writer = writer
<1> DEFINE file == Head(walk)  base == file.base
<1>1. command.op \in {"merge", "one", "show", "upgrade", "check", "stats", "batch", "compare"} \cup {"unmerge", "fix", "legacy"}
  BY DEF Kept, Issued, Operations, Streaming
<1>2. command.op \in Listed => base \in DOMAIN Files(command)
  <2>1. SUFFICES ASSUME command.op \in Listed PROVE base \in DOMAIN Files(command)
    OBVIOUS
  <2>2. walk \in Seq(Named(DOMAIN Files(command)))
    BY <2>1 DEF Kept, WalkKept
  <2>3. file \in Named(DOMAIN Files(command))
    <3>. HIDE DEF Named
    <3>. QED BY <2>2
  <2>. HIDE DEF file
  <2>4. PICK b \in DOMAIN Files(command) : file = [base |-> b]
    BY <2>3 DEF Named
  <2>. QED BY <2>4
<1>. HIDE DEF base, file
<1>3. CASE command.op = "merge"
  <2>1. g \in MergeFile(Frame, Head(walk))
    BY <1>3 DEF VisitFile
  <2>. QED BY <1>3, <2>1, MergeGood
<1>4. CASE command.op = "one"
  <2>1. g \in ShowOne(Frame, file)
    BY <1>4 DEF VisitFile, file
  <2>. QED BY <1>4, <2>1, ShowGood
<1>5. CASE command.op = "show"
  <2>1. g \in ShowFile(Frame, base)
    BY <1>5 DEF VisitFile, file, base
  <2>. QED BY <1>5, <2>1, ShowGood
<1>6. CASE command.op = "upgrade"
  <2>1. g \in UpgradeFile(Frame, base) /\ base \in DOMAIN Files(command)
    BY <1>6 DEF VisitFile, file, base
  <2>. QED BY <1>6, <2>1, UpgradeGood
<1>7. CASE command.op \in {"check", "stats"}
  <2>1. g \in CheckFile(Frame, base)
    BY <1>7 DEF VisitFile, file, base
  <2>. QED BY <1>7, <2>1, CheckGood
<1>8. CASE command.op = "batch"
  <2>1. g \in BatchFile(Frame, base) /\ base \in DOMAIN Files(command)
    BY <1>2, <1>8 DEF VisitFile, file, base, Listed
  <2>. QED BY <1>8, <2>1, BatchGood
<1>9. CASE command.op = "compare"
  <2>1. g \in CompareFile(Frame, base)
    BY <1>9 DEF VisitFile, file, base
  <2>. QED BY <1>9, <2>1, CompareGood
<1>10. CASE command.op \in {"unmerge", "fix", "legacy"}
  <2>1. g \in RangedFile(Frame, base) /\ base \in DOMAIN Files(command)
    BY <1>2, <1>10 DEF VisitFile, file, base, Listed
  <2>2. \/ g = [Frame EXCEPT !.end = "stop"] \/ g = Frame
        \/ g \in UnmergeFile(Frame, base) \/ g \in RewriteFile(Frame, base)
    BY <2>1 DEF RangedFile, LegacyFile
  <2>3. "stop" \in FrameEnds
    BY DEF FrameEnds
  <2>4. GoodFrame(K, g)
    BY <2>1, <2>2, <2>3, FirstFrame, LocalFrame, UnmergeGood, RewriteGood
  <2>5. command.op = "unmerge" => g.writer = writer
    <3>1. SUFFICES ASSUME command.op = "unmerge" PROVE g.writer = writer
      OBVIOUS
    <3>2. g = [Frame EXCEPT !.end = "stop"] \/ g = Frame \/ g \in UnmergeFile(Frame, base)
      BY <2>1, <3>1 DEF RangedFile
    <3>3. g = [Frame EXCEPT !.end = "stop"] \/ g = Frame => g.writer = writer
      BY DEF Frame
    <3>. QED BY <2>1, <3>2, <3>3, UnmergeGood
  <2>. QED BY <1>10, <2>4, <2>5
<1>. QED BY <1>1, <1>3, <1>4, <1>5, <1>6, <1>7, <1>8, <1>9, <1>10

\* The end of a walk, after its last call
LEMMA ClosingGood ==
  ASSUME NEW K, K \subseteq HeldBlocks, NEW f, GoodFrame(K, f), command.op = "merge" => InNames(f.writer),
         NEW g \in Closing(f)
  PROVE  GoodFrame(K, g)
<1>1. "ok" \in FrameEnds
  BY DEF FrameEnds
<1>2. \/ command.op = "merge" /\ g \in MergeEnd(f)
      \/ g = [f EXCEPT !.end = "ok"]
      \/ g = [f EXCEPT !.local = Said(@), !.end = "ok"]
  BY DEF Closing
<1>3. CASE g = [f EXCEPT !.local = Said(@), !.end = "ok"]
  <2>1. g = [f EXCEPT !.local = Said(f.local), !.end = "ok"]
    BY <1>3
  <2>2. \E l : g = [f EXCEPT !.local = l, !.end = "ok"]
    BY <2>1, Zenon
  <2>. QED BY <1>1, <2>2, LocalFrame
<1>. QED BY <1>1, <1>2, <1>3, LocalFrame, MergeEndGood

-----------------------------------------------------------------------------
(* The blocks that the stores and the endpoint of a scenario have.         *)

Inside(files) == UNION {{files[b].blocks[i] : i \in DOMAIN files[b].blocks} : b \in DOMAIN files}
FromFeed(e) == [num |-> e.num, id |-> e.id, parent |-> e.parent, body |-> 0]
Known(n) == Inside(Scenarios[n].source) \cup Inside(Scenarios[n].dest) \cup {f.blk : f \in Scenarios[n].ones}
            \cup {FromFeed(e) : e \in FeedElements}

\* A block that the endpoint sends has its type.
LEMMA FeedTyped ==
  ASSUME NEW e \in FeedElements
  PROVE  e.num \in 0..MaxBlockNum - 1 /\ e.id \in Nat /\ e.parent \in Nat /\ FromFeed(e) \in HeldBlocks
<1>1. e \in [num : 0..MaxBlockNum - 1, id : Nat, parent : Nat, steps : SUBSET {"new", "undo", "irreversible"}]
  <2> DEFINE S == [num : 0..MaxBlockNum - 1, id : Nat, parent : Nat, steps : SUBSET {"new", "undo", "irreversible"}]
  <2>1. Feed \in Seq(S)
    BY ScenariosAssumption
  <2>2. PICK i \in DOMAIN Feed : e = Feed[i]
    BY DEF FeedElements
  <2>. HIDE DEF S
  <2>3. e \in S
    BY <2>1, <2>2
  <2>. QED BY <2>3 DEF S
<1>. QED BY <1>1 DEF FromFeed, HeldBlocks

\* No command is a command like the others.
LEMMA IdleIssued == Idle \in Issued /\ Idle.op = "idle"
<1>1. Idle.op = "idle" /\ Idle.on = "source" /\ Idle.range = [start |-> 0, stop |-> -1]
  BY DEF Idle, OpenRange, NoStop
<1>2. Idle = [op |-> Idle.op, on |-> Idle.on, range |-> Idle.range]
  BY DEF Idle
<1>. HIDE DEF Idle
<1>3. Idle.range \in [start : Int, stop : Int]
  BY <1>1
<1>. QED BY <1>1, <1>2, <1>3 DEF Issued

\* A store whose blocks are known is a store of known blocks.
LEMMA StoreHeld ==
  ASSUME NEW K, NEW files, IsStore(files), Inside(files) \subseteq K PROVE files \in Stores(K)
<1>1. files \in [DOMAIN files -> HeldFiles] /\ DOMAIN files \subseteq BundleBases
  BY DEF IsStore, BundleBases
<1>2. ASSUME NEW b \in DOMAIN files PROVE files[b] \in MergedFiles(K)
  <2>1. /\ files[b] = [blocks |-> files[b].blocks, broken |-> files[b].broken, by |-> files[b].by]
        /\ files[b].blocks \in Seq(HeldBlocks) /\ files[b].broken \in BOOLEAN /\ files[b].by = Idle
    BY <1>1 DEF HeldFiles
  <2>2. files[b].blocks \in Seq(K)
    <3> DEFINE blocks == files[b].blocks
    <3>1. blocks \in Seq(HeldBlocks)
      BY <2>1
    <3>2. \A i \in DOMAIN blocks : blocks[i] \in K
      BY DEF Inside
    <3>. HIDE DEF blocks
    <3>3. blocks \in Seq(K)
      BY <3>1, <3>2
    <3>. QED BY <3>3 DEF blocks
  <2>. QED BY <2>1, <2>2, IdleIssued DEF MergedFiles
<1>. QED BY <1>1, <1>2, StoresAre

\* The known blocks of a scenario are blocks.
LEMMA KnownHeld ==
  ASSUME NEW n \in DOMAIN Scenarios PROVE Known(n) \subseteq HeldBlocks
<1> DEFINE s == Scenarios[n]
<1>1. IsStore(s.source) /\ IsStore(s.dest) /\ s.ones \subseteq [blk : HeldBlocks, suffix : {"mind", "extracted"}]
  BY ScenariosAssumption
<1>2. ASSUME NEW files, IsStore(files) PROVE Inside(files) \subseteq HeldBlocks
  <2>1. ASSUME NEW b \in DOMAIN files, NEW i \in DOMAIN files[b].blocks PROVE files[b].blocks[i] \in HeldBlocks
    <3>1. files[b].blocks \in Seq(HeldBlocks)
      BY <1>2 DEF IsStore, HeldFiles
    <3>. QED BY <3>1
  <2>. QED BY <2>1 DEF Inside
<1>3. {f.blk : f \in s.ones} \subseteq HeldBlocks
  BY <1>1
<1>4. {FromFeed(e) : e \in FeedElements} \subseteq HeldBlocks
  BY FeedTyped
<1>. QED BY <1>1, <1>2, <1>3, <1>4 DEF Known

\* The stores of a scenario hold its known blocks.
LEMMA FirstKept ==
  ASSUME Init PROVE Kept(Known(scenario))
<1> DEFINE s == Scenarios[scenario]  K == Known(scenario)
<1>1. /\ scenario \in DOMAIN Scenarios /\ source = s.source /\ ones = s.ones
      /\ writer = NewWriter(s.dest, 0, 0, FALSE, Idle)
      /\ marks = {} /\ command = Idle /\ walk = <<>> /\ local = NoLocals
  BY DEF Init
<1>2. /\ IsStore(s.source) /\ IsStore(s.dest) /\ IsFiniteSet(s.ones)
      /\ s.ones \subseteq [blk : HeldBlocks, suffix : {"mind", "extracted"}]
  BY <1>1, ScenariosAssumption
<1>3. source \in Stores(K) /\ s.dest \in Stores(K)
  <2>1. Inside(s.source) \subseteq K /\ Inside(s.dest) \subseteq K
    BY DEF Known
  <2>. HIDE DEF K, s
  <2>. QED BY <1>1, <1>2, <2>1, StoreHeld
<1>4. ones \subseteq OneFiles(K)
  BY <1>1, <1>2 DEF OneFiles, Known
<1>5. writer \in Writers(K)
  <2>1. writer = Made(0, 0, <<>>, s.dest, FALSE, Idle, "none")
    BY <1>1 DEF NewWriter, Made
  <2>2. 0 \in Multiples
    BY MultipleIs, RangeAssumption DEF Multiples
  <2>3. <<>> \in Seq(K) /\ "none" \in WriterErrors
    BY DEF WriterErrors
  <2>4. 0 \in Int /\ FALSE \in BOOLEAN
    OBVIOUS
  <2>. HIDE DEF s, K
  <2>5. Made(0, 0, <<>>, s.dest, FALSE, Idle, "none") \in Writers(K)
    BY <1>3, <2>2, <2>3, <2>4, WriterMade, IdleIssued
  <2>. QED BY <2>1, <2>5
<1>. QED BY <1>1, <1>2, <1>3, <1>4, <1>5, IdleIssued DEF Kept, WalkKept, Listed

-----------------------------------------------------------------------------
(* Steps on the stores.                                                    *)

\* What a command that is over leaves
LEMMA EndKept ==
  ASSUME NEW K, Kept(K), command' = Idle, source' = source, writer' \in Writers(K),
         ones' \subseteq OneFiles(K), IsFiniteSet(ones'), marks' \subseteq WalkMarks
  PROVE  Kept(K)'
BY IdleIssued DEF Kept, WalkKept, Listed

\* The end of a command keeps what the stores hold.
LEMMA OverKept ==
  ASSUME NEW K, Kept(K), NEW f, GoodFrame(K, f), Over(f)
  PROVE  Kept(K)'
<1>1. command' = Idle /\ source' = source /\ writer' = f.writer /\ ones' = f.ones /\ marks' = f.marks
  BY DEF Over, Becomes, Ends
<1>. QED BY <1>1, EndKept DEF GoodFrame

\* A call of a walk keeps what the stores hold.
LEMMA VisitKept ==
  ASSUME NEW K, K \subseteq HeldBlocks, Kept(K), Visit
  PROVE  Kept(K)'
<1>1. /\ command.op \notin Streaming \cup {"idle", "forks"} /\ walk # <<>>
      /\ command.op = "upgrade" => Head(walk).base \in DOMAIN Files(command)
  BY DEF Visit
<1>2. PICK f \in VisitFile(Frame, Head(walk)) :
         \/ /\ f.end = "go"
            /\ Becomes(f)
            /\ local' = f.local
            /\ walk' = IF command.op = "upgrade" THEN Ascending({Head(walk).base + BundleSize}) ELSE Tail(walk)
            /\ UNCHANGED <<command, printer, report>>
         \/ f.end = "stop" /\ \E g \in Closing(f) : Over(g)
         \/ f.end \notin {"go", "stop"} /\ Over(f)
  BY DEF Visit
<1>3. /\ GoodFrame(K, f)
      /\ command.op = "batch" => Referring(f.local)
      /\ command.op = "merge" => InNames(f.writer)
  BY <1>1, VisitGood
<1>4. CASE f.end = "stop" /\ \E g \in Closing(f) : Over(g)
  BY <1>3, <1>4, ClosingGood, OverKept
<1>5. CASE f.end \notin {"go", "stop"} /\ Over(f)
  BY <1>3, <1>5, OverKept
<1>6. CASE /\ Becomes(f) /\ local' = f.local
           /\ walk' = IF command.op = "upgrade" THEN Ascending({Head(walk).base + BundleSize}) ELSE Tail(walk)
           /\ UNCHANGED command
  <2>1. command' = command /\ source' = source /\ writer' = f.writer /\ ones' = f.ones /\ marks' = f.marks /\ local' = f.local
    BY <1>6 DEF Becomes
  <2>2. command.op # "upgrade" => walk' = Tail(walk)
    BY <1>6
  <2>3. ASSUME command.op = "merge"
        PROVE  InNames(writer') /\ Wanted' = Wanted /\ walk' \in Seq({g \in OneFiles(K) : g.blk.num >= Wanted.start})
    <3> DEFINE S == {g \in OneFiles(K) : g.blk.num >= Wanted.start}
    <3>1. walk \in Seq(S)
      BY <2>3 DEF Kept, WalkKept
    <3>. HIDE DEF S
    <3>2. Tail(walk) \in Seq(S)
      BY <1>1, <3>1
    <3>3. walk' \in Seq(S)
      BY <2>2, <2>3, <3>2
    <3>. QED BY <1>3, <2>1, <2>3, <3>3 DEF Wanted, S
  <2>4. ASSUME command.op \in Listed PROVE walk' \in Seq(Named(DOMAIN Files(command)))'
    <3> DEFINE S == Named(DOMAIN Files(command))
               T == Named(DOMAIN (IF command.on = "source" THEN source ELSE f.writer.files))
    <3>1. walk \in Seq(S)
      BY <2>4 DEF Kept, WalkKept
    <3>2. S \subseteq T
      BY <1>3 DEF Named, Files, GoodFrame
    <3>3. T = Named(DOMAIN Files(command))'
      BY <2>1 DEF Files, Named
    <3>. HIDE DEF S, T
    <3>4. Tail(walk) \in Seq(S)
      BY <1>1, <3>1
    <3>5. Tail(walk) \in Seq(T)
      BY <3>2, <3>4
    <3>6. walk' = Tail(walk)
      BY <2>2, <2>4 DEF Listed
    <3>. QED BY <3>3, <3>5, <3>6
  <2>5. command.op = "merge" => InNames(writer)' /\ Wanted'.start \in Multiples
    BY <2>1, <2>3 DEF Kept, InNames, Wanted
  <2>6. WalkKept(K)'
    BY <2>1, <2>3, <2>4 DEF WalkKept, Wanted
  <2>. QED BY <1>3, <2>1, <2>5, <2>6 DEF Kept, GoodFrame
<1>. QED BY <1>2, <1>4, <1>5, <1>6

\* The end of a walk and the loop of check forks keep what the stores hold.
LEMMA WalkStepsKept ==
  ASSUME NEW K, K \subseteq HeldBlocks, Kept(K), WalkEnds \/ MoveFork \/ ForksEnd
  PROVE  Kept(K)'
<1>0. GoodFrame(K, Frame)
  BY FirstFrame
<1>1. CASE WalkEnds
  <2>1. command.op = "merge" => InNames(Frame.writer)
    BY DEF Kept, Frame
  <2>. QED BY <1>0, <1>1, <2>1, ClosingGood, OverKept DEF WalkEnds
<1>2. CASE MoveFork
  <2>1. PICK f \in ForksSteps(Frame) : Becomes(f) /\ UNCHANGED command
    BY <1>2 DEF MoveFork
  <2>2. f.writer = writer /\ f.ones = ones /\ f.marks = marks
    BY DEF ForksSteps, Frame
  <2>3. command.op = "forks"
    BY <1>2 DEF MoveFork
  <2>. QED BY <2>1, <2>2, <2>3 DEF Becomes, Kept, WalkKept, Listed
<1>3. CASE ForksEnd
  <2>1. "ok" \in FrameEnds
    BY DEF FrameEnds
  <2>2. GoodFrame(K, [Frame EXCEPT !.end = "ok"])
    BY <1>0, <2>1, LocalFrame
  <2>. QED BY <1>3, <2>2, OverKept DEF ForksEnd
<1>. QED BY <1>1, <1>2, <1>3

\* What an operator types is a range, or refused.
RangesOfBlocks == [start : Int, stop : Int]

\* An argument that is parsed yields a range of heights.
LEMMA RangeTyped ==
  ASSUME NEW default \in RangesOfBlocks, NEW arg \in [before : Sides, colon : BOOLEAN, after : Sides],
         NEW g \in ParseBlockRange(arg, default)
  PROVE  g \in RangesOfBlocks
<1> DEFINE start == IF arg.before = Blank THEN FirstStreamable ELSE arg.before.value
           stop == IF arg.after.plus THEN start + arg.after.value ELSE arg.after.value
<1>1. arg.before.value \in Int /\ arg.after.value \in Int /\ FirstStreamable \in Int
  BY RangeAssumption DEF Sides
<1>2. start \in Int
  BY <1>1
<1>3. stop \in Int
  <2>. HIDE DEF start
  <2>. QED BY <1>1, <1>2
<1>4. g = default \/ g = OpenRange(start) \/ g = ClosedRange(start, stop)
  BY DEF ParseBlockRange
<1>. HIDE DEF start, stop
<1>. QED BY <1>2, <1>3, <1>4 DEF OpenRange, ClosedRange, NoStop, RangesOfBlocks

\* Before the first call
FirstStep(cmd) == /\ command' = cmd /\ writer' = FirstWriter(cmd)
                  /\ local' = FirstLocals(cmd) /\ walk' = WalkOf(cmd)
                  /\ UNCHANGED <<source, ones, marks>>

\* The writer of a new command has its type and no blocks yet.
LEMMA FirstWriterTyped ==
  ASSUME NEW K, Kept(K), NEW cmd \in Issued, cmd.op \in {"merge", "upgrade"} => cmd.range.start \in Nat,
         cmd.op = "merge" => cmd.range.start \in Multiples
  PROVE  /\ FirstWriter(cmd) \in Writers(K) /\ FirstWriter(cmd).files = writer.files
         /\ FirstWriter(cmd).blocks = <<>>
         /\ cmd.op = "merge" => FirstWriter(cmd).low = cmd.range.start
<1>1. /\ writer.files \in Stores(K) /\ 0 \in Multiples /\ 0 \in Int /\ "none" \in WriterErrors
      /\ cmd.range.stop \in Int /\ <<>> \in Seq(K)
  <2>1. writer.files \in Stores(K)
    BY WriterTypes DEF Kept
  <2>2. 0 \in Multiples
    BY MultipleIs, RangeAssumption DEF Multiples
  <2>3. <<>> \in Seq(K) /\ "none" \in WriterErrors
    BY DEF WriterErrors
  <2>4. cmd.range.stop \in Int
    BY DEF Issued
  <2>. QED BY <2>1, <2>2, <2>3, <2>4
<1>2. TRUE \in BOOLEAN /\ FALSE \in BOOLEAN
  OBVIOUS
<1> DEFINE New(low, stop, o) == NewWriter(writer.files, low, stop, o, cmd)
           Good(w, low) == w \in Writers(K) /\ w.files = writer.files /\ w.blocks = <<>> /\ w.low = low
<1>3. ASSUME NEW low \in Multiples, NEW stop \in Int, NEW o \in BOOLEAN PROVE Good(New(low, stop, o), low)
  <2>1. NewWriter(writer.files, low, stop, o, cmd) = Made(low, stop, <<>>, writer.files, o, cmd, "none")
    BY DEF NewWriter, Made
  <2>2. Made(low, stop, <<>>, writer.files, o, cmd, "none") \in Writers(K)
    BY <1>1, WriterMade
  <2>. QED BY <2>1, <2>2 DEF Made
<1>4. CASE cmd.op = "merge"
  <2>1. FirstWriter(cmd) = NewWriter(writer.files, cmd.range.start, 0, FALSE, cmd)
    BY <1>4 DEF FirstWriter
  <2>2. cmd.range.start \in Multiples
    BY <1>4
  <2>. HIDE DEF New, Good
  <2>3. Good(New(cmd.range.start, 0, FALSE), cmd.range.start)
    BY <1>1, <1>2, <1>3, <2>2, Zenon
  <2>. QED BY <1>4, <2>1, <2>3 DEF New, Good
<1>5. CASE cmd.op = "upgrade"
  <2>1. FirstWriter(cmd) = NewWriter(writer.files, RoundToBundleStartBlock(cmd.range.start), cmd.range.stop, TRUE, cmd)
    BY <1>5 DEF FirstWriter
  <2>2. RoundToBundleStartBlock(cmd.range.start) \in Multiples
    BY <1>5, RoundedIs
  <2> DEFINE start == RoundToBundleStartBlock(cmd.range.start)
  <2>. HIDE DEF New, Good, start
  <2>3. Good(New(start, cmd.range.stop, TRUE), start)
    <3>1. start \in Multiples
      BY <2>2 DEF start
    <3>. QED BY <1>1, <1>2, <1>3, <3>1, Zenon
  <2>. QED BY <1>5, <2>1, <2>3 DEF New, Good, start
<1>6. CASE cmd.op \notin {"merge", "upgrade"}
  <2>1. FirstWriter(cmd) = NewWriter(writer.files, 0, 0, FALSE, cmd)
    BY <1>6 DEF FirstWriter
  <2>. HIDE DEF New, Good
  <2>2. Good(New(0, 0, FALSE), 0)
    BY <1>1, <1>2, <1>3, Zenon
  <2>. QED BY <1>6, <2>1, <2>2 DEF New, Good
<1>. QED BY <1>4, <1>5, <1>6

\* A new walk goes over files of the store, or over one-block files from the start of the range.
LEMMA FirstWalkTyped ==
  ASSUME NEW K, K \subseteq HeldBlocks, Kept(K), NEW cmd \in Issued
  PROVE  /\ cmd.op = "merge" => WalkOf(cmd) \in Seq({f \in OneFiles(K) : f.blk.num >= cmd.range.start})
         /\ cmd.op \in Listed => WalkOf(cmd) \in Seq(Named(DOMAIN Files(cmd)))
<1>1. ASSUME cmd.op = "merge" PROVE WalkOf(cmd) \in Seq({f \in OneFiles(K) : f.blk.num >= cmd.range.start})
  <2> DEFINE S == {f \in ones : f.blk.num >= cmd.range.start}
             T == {f \in OneFiles(K) : f.blk.num >= cmd.range.start}
  <2>1. WalkOf(cmd) = Sorted(S, OneFileBefore)
    BY <1>1 DEF WalkOf
  <2>2. IsFiniteSet(S)
    BY FS_Subset DEF Kept
  <2>3. S \subseteq OneFiles(HeldBlocks) /\ S \subseteq T
    BY DEF Kept, OneFiles
  <2>. HIDE DEF S, T
  <2>4. Sorted(S, OneFileBefore) \in Seq(S)
    BY <2>2, <2>3, OnesSorted
  <2>5. Sorted(S, OneFileBefore) \in Seq(T)
    BY <2>3, <2>4
  <2>. QED BY <2>1, <2>5 DEF T
<1>2. ASSUME cmd.op \in Listed PROVE WalkOf(cmd) \in Seq(Named(DOMAIN Files(cmd)))
  <2> DEFINE D == DOMAIN Files(cmd)
  <2>1. D \subseteq BundleBases
    <3>1. Files(cmd) \in Stores(K)
      BY WriterTypes DEF Kept, Files
    <3>. QED BY <3>1, StoresAre
  <2>2. D \in SUBSET Nat /\ IsFiniteSet(D)
    <3>1. D \subseteq 0..MaxBlockNum /\ MaxBlockNum \in Nat
      BY <2>1, ScenariosAssumption DEF BundleBases
    <3>2. IsFiniteSet(0..MaxBlockNum) /\ 0..MaxBlockNum \subseteq Nat
      BY <3>1, FS_Interval
    <3>. HIDE DEF D
    <3>. QED BY <3>1, <3>2, FS_Subset
  <2>3. PICK B \in SUBSET D : WalkOf(cmd) = Ascending(B)
    <3>1. CASE cmd.op = "batch"
      BY <3>1 DEF WalkOf
    <3>2. CASE cmd.op \in {"unmerge", "fix", "legacy"}
      <4>1. WalkOf(cmd) = Ascending({b \in D : HasPrefix(b, WalkBlockPrefix(cmd.range))})
        BY <3>2 DEF WalkOf
      <4>. QED BY <4>1
    <3>. QED BY <1>2, <3>1, <3>2 DEF Listed
  <2>. HIDE DEF D
  <2>4. B \in SUBSET Nat /\ IsFiniteSet(B)
    BY <2>2, FS_Subset
  <2>5. Ascending(B) \in Seq(Named(B))
    BY <2>4, AscendingTyped
  <2>6. Named(B) \subseteq Named(D)
    BY DEF Named
  <2>7. Ascending(B) \in Seq(Named(D))
    BY <2>5, <2>6
  <2>. QED BY <2>3, <2>7 DEF D
<1>. QED BY <1>1, <1>2

\* The start of a command keeps what the stores hold.
LEMMA StartKept ==
  ASSUME NEW K, K \subseteq HeldBlocks, Kept(K), scenario \in DOMAIN Scenarios, started \in Nat, Start
  PROVE  Kept(K)'
<1>1. started + 1 \in DOMAIN Scenarios[scenario].plan /\ Scenarios[scenario].plan \in Seq(SUBSET Commands)
  <2>1. Scenarios[scenario].plan \in Seq(SUBSET Commands)
    BY ScenariosAssumption
  <2>2. started < Len(Scenarios[scenario].plan)
    BY DEF Start
  <2> DEFINE plan == Scenarios[scenario].plan
  <2>. HIDE DEF plan
  <2>3. plan \in Seq(SUBSET Commands) /\ started < Len(plan)
    BY <2>1, <2>2 DEF plan
  <2>4. started + 1 \in DOMAIN plan
    BY <2>3
  <2>. QED BY <2>1, <2>4 DEF plan
<1> DEFINE AskedRange(c) == ParseBlockRange(c.arg, DefaultRange(c.op))
           Cmd(c) == [op |-> c.op, on |-> c.on, range |-> CHOOSE g \in AskedRange(c) : TRUE]
<1>2. PICK c \in Scenarios[scenario].plan[started + 1] :
         IF AskedRange(c) = {} \/ (c.op \in NeedsResolved /\ \E g \in AskedRange(c) : ~IsResolved(g))
         THEN UNCHANGED <<writer, command, walk, local>>
         ELSE /\ command' = Cmd(c)
              /\ writer' = FirstWriter(Cmd(c)) /\ local' = FirstLocals(Cmd(c)) /\ walk' = WalkOf(Cmd(c))
  BY DEF Start
<1>3. UNCHANGED <<source, ones, marks>>
  BY DEF Start, storesKept
<1>4. c \in Commands
  <2> DEFINE plan == Scenarios[scenario].plan
  <2>1. plan \in Seq(SUBSET Commands) /\ started + 1 \in DOMAIN plan
    BY <1>1
  <2>. HIDE DEF plan
  <2>2. plan[started + 1] \in SUBSET Commands
    BY <2>1
  <2>. QED BY <2>2 DEF plan
<1>5. CASE UNCHANGED <<writer, command, walk, local>>
  BY <1>3, <1>5 DEF Kept, WalkKept, Wanted, Referring, InNames, Files
<1>6. CASE AskedRange(c) # {} /\ (c.op \in NeedsResolved => \A g \in AskedRange(c) : IsResolved(g)) /\ FirstStep(Cmd(c))
  <2> DEFINE cmd == Cmd(c)
  <2>1. /\ c.op \in Operations /\ c.on \in {"source", "dest"}
        /\ c.arg \in [before : Sides, colon : BOOLEAN, after : Sides]
    BY <1>4 DEF Commands
  <2>2. cmd.op = c.op /\ cmd.on = c.on /\ cmd.range \in AskedRange(c)
    <3>. HIDE DEF AskedRange
    <3>. QED BY <1>6
  <2>3. cmd.range \in RangesOfBlocks
    <3>1. DefaultRange(c.op) \in RangesOfBlocks
      BY DEF DefaultRange, OpenRange, NoStop, RangesOfBlocks
    <3>. QED BY <2>1, <2>2, <3>1, RangeTyped
  <2>4. cmd \in Issued
    <3>1. cmd = [op |-> cmd.op, on |-> cmd.on, range |-> cmd.range]
      OBVIOUS
    <3>. HIDE DEF cmd
    <3>. QED BY <2>1, <2>2, <2>3, <3>1 DEF Issued, RangesOfBlocks
  <2>5. cmd.op \in NeedsResolved => cmd.range.start \in Nat
    <3>. HIDE DEF cmd, AskedRange
    <3>. QED BY <1>6, <2>2, <2>3 DEF IsResolved, RangesOfBlocks
  <2>6. cmd.op = "merge" => cmd.range.start % BundleSize = 0
    <3>1. SUFFICES ASSUME c.op = "merge" PROVE cmd.range.start % BundleSize = 0
      BY <2>2
    <3>2. AskedRange(c) = ParseBlockRange(c.arg, OpenRange(-1))
      BY <3>1 DEF DefaultRange
    <3>3. \A g \in ParseBlockRange(c.arg, OpenRange(-1)) : g.start % BundleSize = 0
      BY <1>1, <3>1, ScenariosAssumption
    <3>. HIDE DEF cmd, AskedRange
    <3>. QED BY <2>2, <3>2, <3>3
  <2>7. command' = cmd /\ writer' = FirstWriter(cmd) /\ local' = FirstLocals(cmd) /\ walk' = WalkOf(cmd)
    BY <1>6 DEF FirstStep
  <2>. HIDE DEF cmd
  <2>8. cmd.op = "merge" => cmd.range.start \in Multiples
    BY <2>5, <2>6 DEF NeedsResolved, Multiples
  <2>9. /\ writer' \in Writers(K) /\ writer'.files = writer.files /\ writer'.blocks = <<>>
        /\ cmd.op = "merge" => writer'.low = cmd.range.start
    BY <2>4, <2>5, <2>7, <2>8, FirstWriterTyped DEF NeedsResolved
  <2>10. WalkKept(K)'
    <3>1. Files(cmd)' = Files(cmd)
      BY <1>3, <2>9 DEF Files
    <3>2. Wanted' = cmd.range
      BY <2>7 DEF Wanted
    <3>3. /\ cmd.op = "merge" => WalkOf(cmd) \in Seq({f \in OneFiles(K) : f.blk.num >= cmd.range.start})
          /\ cmd.op \in Listed => WalkOf(cmd) \in Seq(Named(DOMAIN Files(cmd)))
      BY <2>4, FirstWalkTyped
    <3>. QED BY <2>7, <3>1, <3>2, <3>3 DEF WalkKept, Files
  <2>11. cmd.op = "batch" => Referring(local')
    <3>1. SUFFICES ASSUME cmd.op = "batch" PROVE Referring(local')
      OBVIOUS
    <3>2. local' = [NoLocals EXCEPT !.expected = RoundToBundleStartBlock(cmd.range.start)]
      BY <2>7, <3>1 DEF FirstLocals
    <3>3. RoundToBundleStartBlock(cmd.range.start) \in Multiples
      BY <2>5, <3>1, RoundedIs DEF NeedsResolved
    <3>. QED BY <3>2, <3>3 DEF Referring, NoLocals, NoId
  <2>. QED BY <1>3, <2>4, <2>7, <2>8, <2>9, <2>10, <2>11 DEF Kept, InNames, Wanted, Referring
<1>. QED BY <1>2, <1>3, <1>5, <1>6 DEF FirstStep

-----------------------------------------------------------------------------
(* The connection.                                                         *)

Responses == {r \in [num : Nat, id : Nat, parent : Nat, step : {"FINAL", "NEW", "UNDO", "skip"}] :
                 \E e \in FeedElements : r.num = e.num /\ r.id = e.id /\ r.parent = e.parent}
Phases == {"none", "asked", "open", "closed"}

Connected(c) ==
  /\ c = [phase |-> c.phase, req |-> c.req, left |-> c.left, wire |-> c.wire, status |-> c.status]
  /\ c.phase \in Phases
  /\ c.left \in Seq(FeedElements)
  /\ c.wire \in Seq(Responses) /\ Size(c.wire) =< WireSize

\* No connection is a connection like the others.
LEMMA NoConnConnected == Connected(NoConn)
<1>1. <<>> \in Seq(FeedElements) /\ <<>> \in Seq(Responses)
  OBVIOUS
<1>. QED BY <1>1, EmptySequence, EndpointAssumption DEF Connected, NoConn, Phases

\* A new request has no stream yet.
LEMMA AskedConnected ==
  ASSUME NEW req PROVE Connected([NoConn EXCEPT !.phase = "asked", !.req = req])
<1>1. <<>> \in Seq(FeedElements) /\ <<>> \in Seq(Responses)
  OBVIOUS
<1>2. [NoConn EXCEPT !.phase = "asked", !.req = req]
        = [phase |-> "asked", req |-> req, left |-> <<>>, wire |-> <<>>, status |-> "none"]
  <2> DEFINE one == [NoConn EXCEPT !.phase = "asked"]
  <2>1. one = [phase |-> "asked", req |-> NoRequest, left |-> <<>>, wire |-> <<>>, status |-> "none"]
    BY DEF NoConn
  <2>2. [NoConn EXCEPT !.phase = "asked", !.req = req] = [one EXCEPT !.req = req]
    OBVIOUS
  <2>. HIDE DEF one
  <2>. QED BY <2>1, <2>2
<1> DEFINE c == [NoConn EXCEPT !.phase = "asked", !.req = req]
<1>. HIDE DEF c
<1>3. c.phase = "asked" /\ c.left = <<>> /\ c.wire = <<>> /\ c.req = req /\ c.status = "none"
  BY <1>2 DEF c
<1>4. c = [phase |-> c.phase, req |-> c.req, left |-> c.left, wire |-> c.wire, status |-> c.status]
  BY <1>2, <1>3 DEF c
<1>5. Connected(c)
  BY <1>1, <1>3, <1>4, EmptySequence, EndpointAssumption DEF Connected, Phases
<1>. QED BY <1>5 DEF c

\* A response received
LEMMA TakenConnected ==
  ASSUME Connected(conn), conn.wire # <<>>
  PROVE  Connected([conn EXCEPT !.wire = Tail(@)]) /\ Head(conn.wire) \in Responses
<1> DEFINE rest == Tail(conn.wire)
<1>1. rest \in Seq(Responses) /\ Head(conn.wire) \in Responses
  <2>. HIDE DEF Responses
  <2>. QED BY DEF Connected
<1>2. Size(rest) =< WireSize
  <2>1. IsSequence(conn.wire)
    BY TypedSequence DEF Connected
  <2>2. Size(rest) = Size(conn.wire) - 1 /\ Size(conn.wire) \in Nat
    BY <2>1, TailSequence, SizeSequence DEF OneLess
  <2>. HIDE DEF rest
  <2>. QED BY <2>2, EndpointAssumption DEF Connected
<1>3. [conn EXCEPT !.wire = rest] = [phase |-> conn.phase, req |-> conn.req, left |-> conn.left,
                                     wire |-> rest, status |-> conn.status]
  <2>1. conn = [phase |-> conn.phase, req |-> conn.req, left |-> conn.left, wire |-> conn.wire, status |-> conn.status]
    BY DEF Connected
  <2>. HIDE DEF rest
  <2>. QED BY <2>1
<1>. HIDE DEF rest
<1>4. Connected([conn EXCEPT !.wire = rest])
  BY <1>1, <1>2, <1>3 DEF Connected
<1>. QED BY <1>1, <1>4 DEF rest

\* A stream that opens, or ends
LEMMA PhaseConnected ==
  ASSUME Connected(conn), NEW left \in Seq(FeedElements), NEW c,
         \/ c = [conn EXCEPT !.phase = "open", !.left = left]
         \/ \E s : c = [conn EXCEPT !.phase = "closed", !.status = s]
  PROVE  Connected(c)
<1>1. \/ c = [phase |-> "open", req |-> conn.req, left |-> left, wire |-> conn.wire, status |-> conn.status]
      \/ \E s : c = [phase |-> "closed", req |-> conn.req, left |-> conn.left, wire |-> conn.wire, status |-> s]
  BY DEF Connected
<1>. QED BY <1>1 DEF Connected, Phases

\* A response that is sent is one of the feed.
LEMMA DeliverConnected ==
  ASSUME Connected(conn), Deliver PROVE Connected(conn')
<1> DEFINE e == Head(conn.left)
           step == StepToProto(e.steps, conn.req.final)
           resp == [num |-> e.num, id |-> e.id, parent |-> e.parent, step |-> step]
           rest == Tail(conn.left)
           wire == IF step = "skip" THEN conn.wire ELSE Append(conn.wire, resp)
<1>1. conn.left # <<>> /\ Len(conn.wire) < WireSize /\ conn' = [conn EXCEPT !.left = rest, !.wire = wire]
  BY DEF Deliver
<1>2. e \in FeedElements /\ rest \in Seq(FeedElements)
  BY <1>1 DEF Connected
<1>3. resp \in Responses
  <2>1. step \in {"FINAL", "NEW", "UNDO", "skip"}
    BY DEF StepToProto
  <2>. HIDE DEF e, step
  <2>2. e.num \in Nat /\ e.id \in Nat /\ e.parent \in Nat
    BY <1>2, FeedTyped, ScenariosAssumption
  <2>. QED BY <1>2, <2>1, <2>2 DEF Responses
<1>4. wire \in Seq(Responses) /\ Size(wire) =< WireSize
  <2>1. CASE step = "skip"
    BY <2>1 DEF Connected
  <2>2. CASE step # "skip"
    <3>1. IsSequence(conn.wire)
      BY TypedSequence DEF Connected
    <3>2. Size(Append(conn.wire, resp)) = Size(conn.wire) + 1 /\ Size(conn.wire) \in Nat
      BY <3>1, AppendSequence, SizeSequence, Zenon DEF OneMore
    <3>. HIDE DEF resp, step
    <3>3. Append(conn.wire, resp) \in Seq(Responses)
      BY <1>3 DEF Connected
    <3>4. wire = Append(conn.wire, resp)
      BY <2>2
    <3>5. Size(conn.wire) < WireSize
      BY <1>1 DEF Size
    <3>. HIDE DEF wire
    <3>. QED BY <3>2, <3>3, <3>4, <3>5, EndpointAssumption
  <2>. QED BY <2>1, <2>2
<1>. HIDE DEF wire, rest
<1>5. conn' = [phase |-> conn.phase, req |-> conn.req, left |-> rest, wire |-> wire, status |-> conn.status]
  BY <1>1 DEF Connected
<1>. QED BY <1>2, <1>4, <1>5 DEF Connected

\* Every step keeps the types of the connection.
LEMMA ConnectedStep ==
  ASSUME Connected(conn), Next PROVE Connected(conn')
<1>1. ASSUME Disconnect PROVE Connected(conn')
  BY <1>1, NoConnConnected DEF Disconnect
<1>2. ASSUME NEW f, Becomes(f) PROVE Connected(conn')
  BY <1>2 DEF Becomes, endpointVars
<1>3. CASE Start
  <2>1. \/ conn' = conn
        \/ \E req : conn' = [NoConn EXCEPT !.phase = "asked", !.req = req]
    BY <1>3, Zenon DEF Start
  <2>. QED BY <2>1, AskedConnected
<1>4. CASE Visit \/ WalkEnds \/ MoveFork \/ ForksEnd
  BY <1>2, <1>4 DEF Visit, WalkEnds, MoveFork, ForksEnd, Over
<1>5. CASE DownloadBlock
  <2>1. conn.wire # <<>>
    BY <1>5 DEF DownloadBlock
  <2>2. conn' = [conn EXCEPT !.wire = Tail(@)] \/ Disconnect
    BY <1>5 DEF DownloadBlock
  <2>. QED BY <1>1, <2>1, <2>2, TakenConnected
<1>6. CASE DownloadStatus
  <2>1. Disconnect \/ Ask(conn.req)
    BY <1>6 DEF DownloadStatus
  <2>. QED BY <1>1, <2>1, AskedConnected DEF Ask
<1>7. CASE PrintStep
  <2>1. conn' = conn \/ Receive
    BY <1>7 DEF PrintStep, ClientStep, Queue, TakePromise, PrintLine, StatusReceived, AllDone, Encode, endpointVars
  <2>2. CASE Receive
    BY <2>2, TakenConnected DEF Receive
  <2>. QED BY <2>1, <2>2
<1>8. CASE PrintEnds \/ Kill
  BY <1>1, <1>8 DEF PrintEnds, Kill
<1>9. CASE Serve \/ StreamTrouble
  <2>1. \/ conn' = conn
        \/ conn' = [conn EXCEPT !.phase = "open", !.left = StreamOf(conn.req)]
        \/ conn' = [conn EXCEPT !.phase = "closed", !.status = "error"]
        \/ conn' = [conn EXCEPT !.phase = "closed", !.status = "EOF"]
        \/ Deliver
    BY <1>9 DEF Serve, StreamTrouble, EndpointStep, OtherEnds, OtherTakes, Admit, Refuse, StreamStops, StreamFails, Drip
  <2>2. StreamOf(conn.req) \in Seq(FeedElements)
    BY StreamTyped
  <2>. QED BY <2>1, <2>2, PhaseConnected, DeliverConnected
<1>. QED BY <1>3, <1>4, <1>5, <1>6, <1>7, <1>8, <1>9 DEF Next, ToolStep

-----------------------------------------------------------------------------
(* Every step on the stores.                                               *)

\* A response that is handed to the writer keeps what the stores hold.
LEMMA DownloadKept ==
  ASSUME NEW K, K \subseteq HeldBlocks, {FromFeed(e) : e \in FeedElements} \subseteq K,
         Kept(K), Connected(conn), DownloadBlock
  PROVE  Kept(K)'
<1> DEFINE resp == Head(conn.wire)
           blk == [num |-> resp.num, id |-> resp.id, parent |-> resp.parent, body |-> 0]
           next == [Frame EXCEPT !.local.prev = blk.id]
           Written(w) == [next EXCEPT !.writer = w, !.trouble = w.err = "store",
                                      !.end = IF w.err = "none" THEN "go" ELSE "error"]
<1>1. blk \in K
  <2>1. resp \in Responses
    BY TakenConnected DEF DownloadBlock
  <2>. HIDE DEF resp
  <2>2. PICK e \in FeedElements : resp.num = e.num /\ resp.id = e.id /\ resp.parent = e.parent
    BY <2>1 DEF Responses
  <2>3. blk = FromFeed(e)
    BY <2>2 DEF FromFeed
  <2>. QED BY <2>3
<1>2. \A w \in ProcessBlock(writer, blk) : w \in Writers(K)
  <2>. HIDE DEF blk
  <2>. QED BY <1>1, ProcessTyped DEF Kept
<1>3. PICK f \in IF Follows(blk) THEN {Written(w) : w \in ProcessBlock(writer, blk)} ELSE {[Frame EXCEPT !.end = "error"]} :
         /\ writer' = f.writer
         /\ UNCHANGED command \/ command' = Idle
  BY DEF DownloadBlock, Ends
<1>4. f.writer \in Writers(K)
  <2>1. writer \in Writers(K)
    BY DEF Kept
  <2>2. f.writer = writer \/ \E w \in ProcessBlock(writer, blk) : f.writer = w
    <3>1. \A w : Written(w).writer = w
      BY DEF Frame
    <3>. HIDE DEF blk, Written
    <3>. QED BY <1>3, <3>1 DEF Frame
  <2>. QED BY <1>2, <2>1, <2>2
<1>5. command.op = "download" /\ UNCHANGED storesKept
  BY DEF DownloadBlock
<1>6. CASE command' = Idle
  BY <1>3, <1>4, <1>5, <1>6, EndKept DEF Kept, storesKept
<1>7. CASE UNCHANGED command
  BY <1>3, <1>4, <1>5, <1>7 DEF Kept, WalkKept, Listed, storesKept
<1>. QED BY <1>3, <1>6, <1>7

\* Every step keeps what the stores hold.
LEMMA StoresStep ==
  ASSUME NEW K, K \subseteq HeldBlocks, {FromFeed(e) : e \in FeedElements} \subseteq K,
         Kept(K), Connected(conn), scenario \in DOMAIN Scenarios, started \in Nat, Next
  PROVE  Kept(K)'
<1>1. ASSUME UNCHANGED storeVars PROVE Kept(K)'
  BY <1>1 DEF storeVars, Kept, WalkKept, Wanted, Files, Referring, InNames
<1>2. ASSUME NEW result, Ends(result, local), UNCHANGED <<storesKept, writer>> PROVE Kept(K)'
  BY <1>2, EndKept DEF Ends, storesKept, Kept
<1>3. CASE Start
  BY <1>3, StartKept
<1>4. CASE Visit
  BY <1>4, VisitKept
<1>5. CASE WalkEnds \/ MoveFork \/ ForksEnd
  BY <1>5, WalkStepsKept
<1>6. CASE DownloadBlock
  BY <1>6, DownloadKept
<1>7. CASE DownloadStatus
  <2>1. CASE Ends("ok", local)
    BY <1>2, <1>7, <2>1 DEF DownloadStatus
  <2>2. CASE UNCHANGED <<command, walk, local, printer, report>>
    BY <1>1, <1>7, <2>2 DEF DownloadStatus, storesKept, storeVars
  <2>. QED BY <1>7, <2>1, <2>2 DEF DownloadStatus
<1>8. CASE PrintStep \/ Serve \/ StreamTrouble
  BY <1>1, <1>8 DEF PrintStep, Serve, StreamTrouble
<1>9. CASE PrintEnds
  BY <1>2, <1>9 DEF PrintEnds
<1>10. CASE Kill
  BY <1>2, <1>10 DEF Kill
<1>. QED BY <1>3, <1>4, <1>5, <1>6, <1>7, <1>8, <1>9, <1>10 DEF Next, ToolStep

-----------------------------------------------------------------------------
(* The run of the plan.                                                    *)

Results == {"none", "refused", "ok", "error", "panic", "killed"}
RunKept ==
  /\ scenario \in DOMAIN Scenarios
  /\ started \in 0..Len(Scenarios[scenario].plan)
  /\ troubles \in 0..MaxTroubles
  /\ report.result \in Results

\* After a walk without error, the result is one of these.
LEMMA ClosingEnds ==
  ASSUME NEW K, NEW f, GoodFrame(K, f), NEW g \in Closing(f) PROVE g.end \in {"ok", "error"}
<1>1. f = [writer |-> f.writer, ones |-> f.ones, marks |-> f.marks, local |-> f.local, end |-> f.end, trouble |-> f.trouble]
  BY DEF GoodFrame, IsFrame
<1>2. \/ g \in MergeEnd(f)
      \/ g = [f EXCEPT !.end = "ok"]
      \/ g = [f EXCEPT !.local = Said(@), !.end = "ok"]
  BY DEF Closing
<1>3. CASE g \in MergeEnd(f)
  <2>1. PICK w \in WriteBundle(f.writer) :
           g = [f EXCEPT !.writer = w, !.end = IF w.err = "none" THEN "ok" ELSE "error", !.trouble = w.err = "store"]
    BY <1>3 DEF MergeEnd
  <2>. QED BY <1>1, <2>1
<1>. QED BY <1>1, <1>2, <1>3

\* Every step keeps the types of the run of the plan.
LEMMA RunStep ==
  ASSUME NEW K, K \subseteq HeldBlocks, Kept(K), RunKept, Next PROVE RunKept'
<1>0. /\ scenario \in DOMAIN Scenarios /\ started \in 0..Len(Scenarios[scenario].plan)
      /\ troubles \in 0..MaxTroubles /\ report.result \in Results /\ MaxTroubles \in Nat
  BY ScenariosAssumption DEF RunKept
<1>1. ASSUME UNCHANGED <<scenario, started>>, troubles' \in 0..MaxTroubles, report'.result \in Results PROVE RunKept'
  BY <1>0, <1>1 DEF RunKept
<1>2. ASSUME Trouble PROVE troubles' \in 0..MaxTroubles
  BY <1>0, <1>2 DEF Trouble
<1>3. ASSUME NEW f, Becomes(f) PROVE UNCHANGED <<scenario, started>> /\ troubles' \in 0..MaxTroubles
  BY <1>0, <1>3 DEF Becomes
<1>4. ASSUME NEW f, Over(f), f.end \in Results PROVE RunKept'
  <2>1. report'.result = f.end
    BY <1>4 DEF Over, Ends
  <2>. QED BY <1>1, <1>3, <1>4, <2>1 DEF Over
<1>5. ASSUME NEW f, GoodFrame(K, f), \E g \in Closing(f) : Over(g) PROVE RunKept'
  <2>1. PICK g \in Closing(f) : Over(g)
    BY <1>5
  <2>2. g.end \in Results
    BY <1>5, ClosingEnds DEF Results
  <2>. QED BY <1>4, <2>1, <2>2
<1>6. CASE Start
  <2>1. scenario' = scenario /\ started' = started + 1 /\ started < Len(Scenarios[scenario].plan) /\ troubles' = troubles
    BY <1>6 DEF Start
  <2>2. report' = NoReport \/ report' = [NoReport EXCEPT !.result = "refused"]
    BY <1>6, Zenon DEF Start
  <2>3. report'.result \in Results
    BY <2>2 DEF NoReport, Results
  <2>4. Len(Scenarios[scenario].plan) \in Nat
    <3> DEFINE plan == Scenarios[scenario].plan
    <3>1. plan \in Seq(SUBSET Commands)
      BY <1>0, ScenariosAssumption
    <3>. HIDE DEF plan
    <3>2. Len(plan) \in Nat
      BY <3>1
    <3>. QED BY <3>2 DEF plan
  <2>. QED BY <1>0, <2>1, <2>3, <2>4 DEF RunKept
<1>7. CASE Visit
  <2>1. /\ command.op \notin Streaming \cup {"idle", "forks"} /\ walk # <<>>
        /\ command.op = "upgrade" => Head(walk).base \in DOMAIN Files(command)
    BY <1>7 DEF Visit
  <2>2. PICK f \in VisitFile(Frame, Head(walk)) :
           \/ f.end = "go" /\ Becomes(f) /\ UNCHANGED report
           \/ f.end = "stop" /\ \E g \in Closing(f) : Over(g)
           \/ f.end \notin {"go", "stop"} /\ Over(f)
    BY <1>7 DEF Visit
  <2>3. GoodFrame(K, f)
    BY <2>1, VisitGood
  <2>4. CASE Becomes(f) /\ UNCHANGED report
    BY <1>0, <1>1, <1>3, <2>4
  <2>5. CASE f.end \notin {"go", "stop"} /\ Over(f)
    <3>1. f.end \in Results
      BY <2>3, <2>5 DEF GoodFrame, FrameEnds, Results
    <3>. QED BY <1>4, <2>5, <3>1
  <2>. QED BY <1>5, <2>2, <2>3, <2>4, <2>5
<1>8. CASE WalkEnds
  BY <1>5, <1>8, FirstFrame DEF WalkEnds
<1>9. CASE MoveFork
  <2>1. UNCHANGED report /\ \E f : Becomes(f)
    BY <1>9 DEF MoveFork
  <2>. QED BY <1>0, <1>1, <1>3, <2>1
<1>10. CASE ForksEnd
  <2>1. [Frame EXCEPT !.end = "ok"].end \in Results
    BY DEF Frame, Results
  <2>. QED BY <1>4, <1>10, <2>1 DEF ForksEnd
<1>11. CASE DownloadBlock
  <2> DEFINE resp == Head(conn.wire)
             blk == [num |-> resp.num, id |-> resp.id, parent |-> resp.parent, body |-> 0]
             next == [Frame EXCEPT !.local.prev = blk.id]
             Written(w) == [next EXCEPT !.writer = w, !.trouble = w.err = "store",
                                        !.end = IF w.err = "none" THEN "go" ELSE "error"]
  <2>1. PICK f \in IF Follows(blk) THEN {Written(w) : w \in ProcessBlock(writer, blk)} ELSE {[Frame EXCEPT !.end = "error"]} :
           /\ f.trouble => troubles < MaxTroubles
           /\ troubles' = IF f.trouble THEN troubles + 1 ELSE troubles
           /\ IF f.end = "go" THEN report' = report ELSE Ends(f.end, f.local)
    BY <1>11 DEF DownloadBlock
  <2>2. f.end \in {"go", "error"}
    <3>1. \A w : Written(w).end \in {"go", "error"}
      BY DEF Frame
    <3>2. [Frame EXCEPT !.end = "error"].end = "error"
      BY DEF Frame
    <3>. HIDE DEF Written, blk
    <3>. QED BY <2>1, <3>1, <3>2
  <2>. HIDE DEF blk, Written
  <2>3. troubles' \in 0..MaxTroubles
    <3>1. CASE f.trouble
      BY <1>0, <2>1, <3>1
    <3>2. CASE ~f.trouble
      BY <1>0, <2>1, <3>2
    <3>. QED BY <3>1, <3>2
  <2>4. UNCHANGED <<scenario, started>>
    BY <1>11 DEF DownloadBlock
  <2>5. report'.result \in Results
    <3>1. CASE f.end = "go"
      BY <1>0, <2>1, <3>1
    <3>2. CASE f.end = "error"
      <4>1. report'.result = "error"
        BY <2>1, <3>2 DEF Ends
      <4>. QED BY <4>1 DEF Results
    <3>. QED BY <2>2, <3>1, <3>2
  <2>. QED BY <1>1, <2>3, <2>4, <2>5
<1>12. CASE DownloadStatus
  <2>1. Ends("ok", local) \/ UNCHANGED report
    BY <1>12 DEF DownloadStatus
  <2>2. CASE Ends("ok", local)
    <3>1. report'.result = "ok"
      BY <2>2 DEF Ends
    <3>2. report'.result \in Results
      BY <3>1 DEF Results
    <3>. QED BY <1>0, <1>1, <1>12, <3>2 DEF DownloadStatus
  <2>3. CASE UNCHANGED report
    BY <1>0, <1>1, <1>12, <2>3 DEF DownloadStatus
  <2>. QED BY <2>1, <2>2, <2>3
<1>13. CASE PrintStep \/ Serve
  BY <1>0, <1>1, <1>13 DEF PrintStep, Serve
<1>14. CASE PrintEnds
  BY <1>0, <1>1, <1>14 DEF PrintEnds, Ends, Results
<1>15. CASE StreamTrouble
  BY <1>0, <1>1, <1>2, <1>15 DEF StreamTrouble
<1>16. CASE Kill
  BY <1>0, <1>1, <1>2, <1>16 DEF Kill, Ends, Results
<1>. QED BY <1>6, <1>7, <1>8, <1>9, <1>10, <1>11, <1>12, <1>13, <1>14, <1>15, <1>16 DEF Next, ToolStep

\* The queue of promises has room for what enters it.
PrinterPhases == {"receiving", "closing", "done", "failed"}
QueueKept == Size(printer.queue) =< QueueSize /\ printer.phase \in PrinterPhases

\* A new printer has an empty queue.
LEMMA NewQueue ==
  ASSUME NEW c PROVE NewPrinter(c).phase \in PrinterPhases /\ Size(NewPrinter(c).queue) =< QueueSize
BY EmptySequence, QueueAssumption DEF NewPrinter, PrinterPhases

\* Every step keeps the queue of the printer within its size.
LEMMA QueueStep ==
  ASSUME PrinterInv(printer), QueueKept, Next PROVE QueueKept'
<1> DEFINE p == printer
<1>0. /\ p = [phase |-> p.phase, cursorOnly |-> p.cursorOnly, got |-> p.got, pending |-> p.pending,
              queue |-> p.queue, encoding |-> p.encoding, encoded |-> p.encoded,
              holding |-> p.holding, printed |-> p.printed]
      /\ IsSequence(p.queue) /\ Size(p.queue) \in Nat /\ QueueSize \in Nat
  BY SizeSequence, QueueAssumption DEF PrinterInv, PrinterType
<1>1. ASSUME UNCHANGED printer PROVE QueueKept'
  BY <1>1 DEF QueueKept
<1>2. ASSUME NEW c, printer' = NewPrinter(c) PROVE QueueKept'
  BY <1>2, NewQueue DEF QueueKept
<1>3. ASSUME NEW result, NEW loc, Ends(result, loc) PROVE QueueKept'
  BY <1>2, <1>3 DEF Ends
<1>4. CASE Start
  <2>1. UNCHANGED printer \/ \E c : printer' = NewPrinter(c)
    BY <1>4, Zenon DEF Start
  <2>. QED BY <1>1, <1>2, <2>1
<1>5. CASE Visit \/ WalkEnds \/ MoveFork \/ ForksEnd \/ DownloadBlock \/ DownloadStatus
  <2>1. UNCHANGED printer \/ \E result, loc : Ends(result, loc)
    BY <1>5 DEF Visit, WalkEnds, MoveFork, ForksEnd, DownloadBlock, DownloadStatus, Over
  <2>. QED BY <1>1, <1>3, <2>1
<1>6. CASE PrintStep
  <2>1. \/ UNCHANGED <<printer.queue, printer.phase>>
        \/ Queue \/ TakePromise \/ StatusReceived \/ AllDone
    BY <1>0, <1>6 DEF PrintStep, ClientStep, Receive, PrintLine, Encode
  <2>2. CASE UNCHANGED <<printer.queue, printer.phase>>
    BY <2>2 DEF QueueKept
  <2>3. CASE Queue
    <3> DEFINE more == Append(p.queue, p.pending)
    <3>1. Size(p.queue) < QueueSize /\ printer'.queue = more /\ printer'.phase = p.phase
      BY <1>0, <2>3 DEF Queue, Size
    <3>2. Size(more) = Size(p.queue) + 1
      BY <1>0, AppendSequence DEF OneMore
    <3>. HIDE DEF more
    <3>. QED BY <1>0, <3>1, <3>2 DEF QueueKept
  <2>4. CASE TakePromise
    <3> DEFINE rest == Tail(p.queue)
    <3>1. p.queue # <<>> /\ printer'.queue = rest /\ printer'.phase = p.phase
      BY <1>0, <2>4 DEF TakePromise
    <3>2. Size(rest) = Size(p.queue) - 1
      BY <1>0, <3>1, TailSequence DEF OneLess
    <3>. HIDE DEF rest
    <3>. QED BY <1>0, <3>1, <3>2 DEF QueueKept
  <2>5. CASE StatusReceived \/ AllDone
    BY <1>0, <2>5 DEF StatusReceived, AllDone, QueueKept, PrinterPhases
  <2>. QED BY <2>1, <2>2, <2>3, <2>4, <2>5
<1>7. CASE PrintEnds \/ Kill
  BY <1>3, <1>7 DEF PrintEnds, Kill
<1>8. CASE Serve \/ StreamTrouble
  BY <1>1, <1>8 DEF Serve, StreamTrouble
<1>. QED BY <1>4, <1>5, <1>6, <1>7, <1>8 DEF Next, ToolStep

-----------------------------------------------------------------------------
(* Types                                                                   *)

ToolsInv == /\ RunKept /\ Kept(Known(scenario)) /\ Connected(conn)
            /\ QueueKept /\ PrinterInv(printer)

\* The first states satisfy the inductive invariant.
LEMMA ToolsFirst ==
  ASSUME Init PROVE ToolsInv
<1>1. RunKept
  <2>1. scenario \in DOMAIN Scenarios /\ started = 0 /\ troubles = 0 /\ report = NoReport
    BY DEF Init
  <2> DEFINE plan == Scenarios[scenario].plan
  <2>2. plan \in Seq(SUBSET Commands) /\ MaxTroubles \in Nat
    BY <2>1, ScenariosAssumption
  <2>. HIDE DEF plan
  <2>3. 0 \in 0..Len(plan) /\ 0 \in 0..MaxTroubles
    BY <2>2
  <2>4. report.result \in Results
    BY <2>1 DEF NoReport, Results
  <2>. QED BY <2>1, <2>3, <2>4 DEF RunKept, plan
<1>2. Connected(conn)
  BY NoConnConnected DEF Init, EndpointInit
<1>3. QueueKept /\ PrinterInv(printer)
  BY NewQueue, NewPrinterInv DEF Init, QueueKept
<1>. QED BY <1>1, <1>2, <1>3, FirstKept DEF ToolsInv

\* The scenario of a run stays the same.
LEMMA ScenarioStays ==
  ASSUME [Next]_vars PROVE scenario' = scenario
BY DEF vars, Next, ToolStep, Start, Visit, WalkEnds, MoveFork, ForksEnd, Over, Becomes, DownloadBlock, DownloadStatus,
       PrintStep, PrintEnds, Serve, StreamTrouble, Kill

\* Every step keeps the inductive invariant.
LEMMA ToolsNext ==
  ASSUME ToolsInv, [Next]_vars PROVE ToolsInv'
<1>1. CASE UNCHANGED vars
  <2>1. RunKept' /\ Connected(conn)' /\ QueueKept' /\ PrinterInv(printer)'
    BY <1>1 DEF ToolsInv, RunKept, QueueKept, vars, endpointVars
  <2>2. Kept(Known(scenario))'
    BY <1>1 DEF ToolsInv, Kept, WalkKept, Wanted, Files, Referring, InNames, vars, storeVars
  <2>. QED BY <2>1, <2>2 DEF ToolsInv
<1>2. CASE Next
  <2>0. PICK n \in DOMAIN Scenarios : n = scenario
    BY DEF ToolsInv, RunKept
  <2> DEFINE K == Known(n)
  <2>1. K \subseteq HeldBlocks /\ {FromFeed(e) : e \in FeedElements} \subseteq K
    BY KnownHeld DEF Known
  <2>2. scenario \in DOMAIN Scenarios /\ started \in Nat /\ K = Known(scenario)
    BY <2>0 DEF ToolsInv, RunKept
  <2>. HIDE DEF K
  <2>3. Kept(K)'
    <3>1. Kept(K)
      BY <2>2 DEF ToolsInv
    <3>. QED BY <1>2, <2>1, <2>2, <3>1, StoresStep DEF ToolsInv
  <2>4. scenario' = scenario
    BY ScenarioStays
  <2>5. Kept(Known(scenario))'
    BY <2>0, <2>3, <2>4 DEF K
  <2>6. RunKept'
    <3>1. Kept(K)
      BY <2>2 DEF ToolsInv
    <3>. QED BY <1>2, <2>1, <3>1, RunStep DEF ToolsInv
  <2>7. Connected(conn)'
    BY <1>2, ConnectedStep DEF ToolsInv
  <2>8. QueueKept' /\ PrinterInv(printer)'
    BY <1>2, QueueStep, PrinterStep DEF ToolsInv
  <2>. QED BY <2>5, <2>6, <2>7, <2>8 DEF ToolsInv
<1>. QED BY <1>1, <1>2

(* The variables of the tools keep their types, whatever the stores hold, the commands, the       *)
(* failures and the kills: every file has the base of a bundle for its name, the batch check      *)
(* marks only such bases, the queue and the connection hold no more than they have room for, and  *)
(* the bucket no more tokens than its size.                                                        *)
THEOREM ToolTypes == Spec => []TypeOK
<1>1. ToolsInv /\ TokensInBucket => TypeOK
  <2>. SUFFICES ASSUME ToolsInv, TokensInBucket PROVE TypeOK
    OBVIOUS
  <2>1. tokens \in 0..BucketSize /\ others \in Nat
    BY DEF TokensInBucket
  <2>2. conn.phase \in {"none", "asked", "open", "closed"} /\ Len(conn.wire) <= WireSize
    BY DEF ToolsInv, Connected, Phases, Size
  <2>3. Len(printer.queue) <= QueueSize /\ printer.phase \in {"receiving", "closing", "done", "failed"}
    BY DEF ToolsInv, QueueKept, PrinterPhases, Size
  <2>4. DOMAIN writer.files \subseteq 0..MaxBlockNum
    <3>1. writer.files \in Stores(Known(scenario))
      BY WriterTypes DEF ToolsInv, Kept
    <3>. QED BY <3>1, StoresAre DEF BundleBases
  <2>5. \A f \in ones : f.suffix \in {"mind", "extracted"}
    BY DEF ToolsInv, Kept, OneFiles
  <2>6. \A m \in marks : m.base \in Bases(0, MaxBlockNum) /\ m.kind \in {"missing", "broken"}
    BY DEF ToolsInv, Kept, WalkMarks, BundleBases, Bases
  <2>7. /\ started \in 0..Len(Scenarios[scenario].plan) /\ troubles \in 0..MaxTroubles
        /\ report.result \in {"none", "refused", "ok", "error", "panic", "killed"}
    BY DEF ToolsInv, RunKept, Results
  <2>. QED BY <2>1, <2>2, <2>3, <2>4, <2>5, <2>6, <2>7 DEF TypeOK
<1>2. Spec => []ToolsInv
  <2>1. Init => ToolsInv
    BY ToolsFirst
  <2>2. ToolsInv /\ [Next]_vars => ToolsInv'
    BY ToolsNext
  <2>. QED BY <2>1, <2>2, PTL DEF Spec
<1>. QED BY <1>1, <1>2, BucketKept, PTL

-----------------------------------------------------------------------------
(* The order of what is written.                                           *)

\* Blocks that a writer can put in their files: each has an id, is above its parent, at most one
\* bundle further, and leaves bundle 0 only from its last block.
Linked(K) ==
  \A a \in K :
    /\ a.id # NoId
    /\ \A b \in K : b.parent = a.id =>
          /\ a.num < b.num
          /\ RoundToBundleStartBlock(b.num) =< RoundToBundleStartBlock(a.num) + BundleSize
          /\ b.num >= BundleSize => a.num >= BundleSize - 1

\* The writer of a command that follows the parents, after the block with this id
LinkAt(K, w, last) ==
  /\ w.err = "none"
  /\ (last = NoId /\ Fresh(w)) \/ \E a \in K : a.id = last /\ After(w, a.num)

\* A linked child of the last block is one the writer can be handed next.
LEMMA LinkNext ==
  ASSUME NEW K, K \subseteq HeldBlocks, Linked(K), NEW w \in Writers(K), NEW a \in K, NEW blk \in K,
         blk.parent = a.id, After(w, a.num)
  PROVE  Continues(w, blk)
<1> DEFINE from == RoundToBundleStartBlock(a.num)  to == RoundToBundleStartBlock(blk.num)
<1>0. /\ BundleSize \in Nat /\ BundleSize > 0 /\ w.low \in Nat /\ w.low \in Multiples
      /\ a.num \in Nat /\ blk.num \in Nat
  BY RangeAssumption, WriterTypes DEF HeldBlocks
<1>1. a.num < blk.num /\ to =< from + BundleSize /\ (blk.num >= BundleSize => a.num >= BundleSize - 1)
  BY DEF Linked
<1>2. from \in Multiples /\ from =< a.num /\ to \in Multiples /\ blk.num < to + BundleSize
  BY <1>0, RoundedIs
<1>3. w.low =< a.num + 1 /\ a.num < w.low + BundleSize /\ (w.low = 0 => a.num < BundleSize - 1)
  BY DEF After
<1>. HIDE DEF from, to
<1>4. from \in Nat /\ to \in Nat
  BY <1>2 DEF Multiples
<1>5. from =< w.low
  <2>1. from < w.low + BundleSize
    BY <1>0, <1>2, <1>3, <1>4
  <2>. QED BY <1>0, <1>2, <2>1, NextMultiple
<1>6. blk.num < w.low + 2 * BundleSize
  BY <1>0, <1>1, <1>2, <1>4, <1>5
<1>7. w.low = 0 => blk.num < BundleSize
  BY <1>0, <1>1, <1>3
<1>. QED BY <1>0, <1>1, <1>6, <1>7 DEF Continues

\* A writer that is handed linked blocks one after the other keeps its files in order.
LEMMA LinkTakes ==
  ASSUME NEW K, K \subseteq HeldBlocks, Linked(K), NEW w \in Writers(K), NEW last, LinkAt(K, w, last),
         NEW blk \in K, last = NoId \/ blk.parent = last, OrderedFiles(w.files), NEW t \in ProcessBlock(w, blk)
  PROVE  OrderedFiles(t.files) /\ (t.err = "none" => LinkAt(K, t, blk.id))
<1>1. Continues(w, blk)
  <2>1. CASE last = NoId /\ Fresh(w)
    BY <2>1 DEF Continues
  <2>2. CASE \E a \in K : a.id = last /\ After(w, a.num)
    <3>1. PICK a \in K : a.id = last /\ After(w, a.num)
      BY <2>2
    <3>2. blk.parent = a.id
      BY <3>1 DEF Linked
    <3>. QED BY <3>1, <3>2, LinkNext
  <2>. QED BY <2>1, <2>2 DEF LinkAt
<1>2. OrderedFiles(t.files) /\ (t.err = "none" => After(t, blk.num))
  BY <1>1, ProcessOrdered DEF LinkAt
<1>. QED BY <1>2 DEF LinkAt

\* fix-bloated-merged-blocks and legacy_2_block_any
LEMMA RewriteOrdered ==
  ASSUME NEW K, K \subseteq HeldBlocks, Linked(K), Kept(K), OrderedFiles(writer.files),
         NEW base \in DOMAIN Files(command), NEW g \in RewriteFile(Frame, base)
  PROVE  OrderedFiles(g.writer.files)
<1> DEFINE R == [writer : Writers(K), seen : SUBSET Nat, last : Nat, end : {"go", "error", "break"}]
           T == {st \in R : /\ OrderedFiles(st.writer.files)
                            /\ st.end = "go" => LinkAt(K, st.writer, st.last)}
           first == NewWriter(writer.files, 0, 0, FALSE, command)
<1>1. File(base).blocks \in Seq(K)
  BY FileTyped
<1>2. [writer |-> NewWriter(Frame.writer.files, 0, 0, FALSE, command), seen |-> {}, last |-> NoId, end |-> "go"] \in T
  <2>1. first = Made(0, 0, <<>>, writer.files, FALSE, command, "none")
    BY DEF NewWriter, Made
  <2>2. first \in Writers(K)
    <3>1. 0 \in Multiples
      BY MultipleIs, RangeAssumption DEF Multiples
    <3>2. <<>> \in Seq(K) /\ FALSE \in BOOLEAN /\ 0 \in Int
      OBVIOUS
    <3>3. writer.files \in Stores(K) /\ command \in Issued
      BY WriterTypes DEF Kept
    <3>4. "none" \in WriterErrors
      BY DEF WriterErrors
    <3>. HIDE DEF first
    <3>. QED BY <2>1, <3>1, <3>2, <3>3, <3>4, WriterMade
  <2>3. first.files = writer.files /\ first.err = "none" /\ Fresh(first)
    BY DEF NewWriter, Fresh
  <2>4. Frame.writer = writer
    BY DEF Frame
  <2>. HIDE DEF first
  <2>5. LinkAt(K, first, NoId)
    BY <2>3 DEF LinkAt
  <2> DEFINE st0 == [writer |-> first, seen |-> {}, last |-> NoId, end |-> "go"]
  <2>6. st0 \in R
    BY <2>2 DEF NoId
  <2>7. st0.writer = first /\ st0.last = NoId
    OBVIOUS
  <2>8. [writer |-> NewWriter(Frame.writer.files, 0, 0, FALSE, command), seen |-> {}, last |-> NoId, end |-> "go"] = st0
    BY <2>4 DEF first
  <2>. HIDE DEF st0, R
  <2>. QED BY <2>3, <2>5, <2>6, <2>7, <2>8
<1>3. ASSUME NEW st \in T, NEW blk \in K, NEW u \in RewriteBlock(st, base, blk) PROVE u \in T
  <2>1. /\ st \in R /\ st.writer \in Writers(K) /\ st.seen \in SUBSET Nat /\ blk.id \in Nat
        /\ OrderedFiles(st.writer.files) /\ (st.end = "go" => LinkAt(K, st.writer, st.last))
    BY DEF HeldBlocks
  <2>2. CASE u = st
    BY <2>2
  <2>3. CASE u = [st EXCEPT !.end = "break"] \/ u = [st EXCEPT !.end = "error"]
    <3>1. u \in R /\ u.writer = st.writer /\ u.end # "go"
      BY <2>1, <2>3
    <3>. HIDE DEF R
    <3>. QED BY <2>1, <3>1
  <2>4. CASE /\ st.end = "go" /\ (st.last = NoId \/ blk.parent = st.last)
             /\ \E w \in ProcessBlock(st.writer, blk) :
                   u = [writer |-> w, seen |-> st.seen \cup {blk.id}, last |-> blk.id,
                        end |-> IF w.err = "none" THEN "go" ELSE "error"]
    <3>1. PICK w \in ProcessBlock(st.writer, blk) :
                u = [writer |-> w, seen |-> st.seen \cup {blk.id}, last |-> blk.id,
                     end |-> IF w.err = "none" THEN "go" ELSE "error"]
      BY <2>4
    <3>2. w \in Writers(K)
      BY <2>1, ProcessTyped
    <3>3. OrderedFiles(w.files) /\ (w.err = "none" => LinkAt(K, w, blk.id))
      BY <2>1, <2>4, LinkTakes
    <3>4. u \in R
      BY <2>1, <3>1, <3>2
    <3>5. u.writer = w /\ u.last = blk.id /\ (u.end = "go" => w.err = "none")
      BY <3>1
    <3>. HIDE DEF R
    <3>. QED BY <3>3, <3>4, <3>5
  <2>. HIDE DEF T, R
  <2>. QED BY <2>2, <2>3, <2>4 DEF RewriteBlock
<1>. HIDE DEF T
<1>4. PICK st \in T : g = Rewritten(Frame, base, st)
  <2>1. \A st \in T, blk \in K : RewriteBlock(st, base, blk) \subseteq T
    BY <1>3
  <2>. QED BY <1>1, <1>2, <2>1, RewriteKeeps
<1>5. OrderedFiles(st.writer.files)
  BY DEF T
<1>6. g.writer = st.writer
  BY <1>4 DEF Rewritten, Frame
<1>. QED BY <1>5, <1>6

\* upgrade-merged-blocks orders nothing, and leaves the files of the others.
LEMMA UpgradeOrdered ==
  ASSUME NEW K, K \subseteq HeldBlocks, Kept(K), OrderedFiles(writer.files), writer.by = command, command.op = "upgrade",
         NEW base \in DOMAIN Files(command), NEW g \in UpgradeFile(Frame, base)
  PROVE  OrderedFiles(g.writer.files) /\ g.writer.by = command
<1> DEFINE W == {w \in Writers(K) : w.by = command /\ OrderedFiles(w.files)}
<1>1. File(base).blocks \in Seq(K)
  BY FileTyped
<1>2. Frame.writer \in W
  BY DEF Frame, Kept
<1>3. \A w \in W, blk \in K : ProcessBlock(w, blk) \subseteq W
  <2>1. ASSUME NEW w \in W, NEW blk \in K, NEW t \in ProcessBlock(w, blk) PROVE t \in W
    <3>1. ~Orders(w.by)
      BY DEF Orders
    <3>2. t \in Writers(K) /\ Grows(w, t)
      BY ProcessTyped, ProcessGrows
    <3>. QED BY <3>1, <3>2 DEF Grows
  <2>. QED BY <2>1
<1>. HIDE DEF W
<1>4. PICK w \in W : g = Upgraded(Frame, base, w)
  BY <1>1, <1>2, <1>3, UpgradeKeeps
<1>5. g.writer = w
  BY <1>4 DEF Upgraded, Frame
<1>. QED BY <1>5 DEF W

\* The writer of a merge from this block, after a block of that height
MergeAt(w, start, prev) ==
  /\ w.err = "none" /\ start =< w.low /\ prev \in Nat
  /\ (w.blocks = <<>> /\ w.low = start /\ prev = 0) \/ After(w, prev)

\* What is left of its walk
InTurn(files, prev) ==
  /\ \A i, j \in DOMAIN files : i =< j => files[i].blk.num =< files[j].blk.num
  /\ \A i \in DOMAIN files : prev =< files[i].blk.num

Placed(K) ==
  /\ OrderedFiles(writer.files)
  /\ command.op \in {"merge", "upgrade", "download"} => writer.by = command
  /\ command.op = "merge" /\ Wanted.start > 0 =>
        MergeAt(writer, Wanted.start, local.prev) /\ InTurn(walk, local.prev) /\ "prev" \in DOMAIN local
  /\ command.op = "download" => LinkAt(K, writer, local.prev) /\ "prev" \in DOMAIN local

\* A writer that merge-blocks hands ascending one-block files keeps its files in order.
LEMMA MergeTakes ==
  ASSUME NEW K, K \subseteq HeldBlocks, NEW w \in Writers(K), NEW start \in Multiples, start > 0, NEW prev,
         MergeAt(w, start, prev), OrderedFiles(w.files),
         NEW blk \in K, start =< blk.num, blk.num =< start + BundleSize, prev =< blk.num, prev # blk.num,
         NEW t \in ProcessBlock(w, blk)
  PROVE  OrderedFiles(t.files) /\ (t.err = "none" => MergeAt(t, start, blk.num))
<1>0. /\ BundleSize \in Nat /\ BundleSize > 0 /\ w.low \in Nat /\ start \in Nat /\ prev \in Nat
      /\ blk.num \in Nat /\ start =< w.low /\ w.err = "none"
  BY RangeAssumption, WriterTypes DEF HeldBlocks, Multiples, MergeAt
<1>1. Continues(w, blk)
  <2>1. blk.num < w.low + 2 * BundleSize /\ w.low # 0
    BY <1>0
  <2>2. CASE After(w, prev)
    <3>1. prev \in Int /\ prev < blk.num
      BY <1>0
    <3>. QED BY <2>1, <2>2, <3>1 DEF Continues
  <2>3. CASE w.blocks = <<>> /\ w.low = start
    <3>1. start - 1 \in Int /\ start - 1 < blk.num
      BY <1>0
    <3>2. w.low =< (start - 1) + 1 /\ start - 1 < w.low + BundleSize /\ w.low # 0
      BY <1>0, <2>3
    <3>3. Within(w.blocks, w.low) /\ Ascends(w.blocks) /\ UpTo(w.blocks, start - 1)
      BY <2>3, NothingOrdered
    <3>4. After(w, start - 1)
      BY <3>2, <3>3 DEF After
    <3>. QED BY <2>1, <3>1, <3>4 DEF Continues
  <2>. QED BY <2>2, <2>3 DEF MergeAt
<1>2. OrderedFiles(t.files) /\ (t.err = "none" => After(t, blk.num))
  BY <1>0, <1>1, ProcessOrdered
<1>3. ASSUME t.err = "none" PROVE MergeAt(t, start, blk.num)
  <2>1. t \in Writers(K)
    BY ProcessTyped
  <2>2. t.low \in Multiples /\ t.low \in Nat
    BY <2>1, WriterTypes
  <2>3. start < t.low + BundleSize
    BY <1>0, <1>2, <1>3, <2>2 DEF After
  <2>4. start =< t.low
    BY <2>2, <2>3, NextMultiple
  <2>. QED BY <1>0, <1>2, <1>3, <2>4 DEF MergeAt
<1>. QED BY <1>2, <1>3

\* What a call of a walk keeps of it
PlacedFrame(g) ==
  /\ OrderedFiles(g.writer.files)
  /\ command.op \in {"merge", "upgrade"} => g.writer.by = command
  /\ command.op = "merge" /\ Wanted.start > 0 /\ g.end \in {"go", "stop"} =>
        /\ MergeAt(g.writer, Wanted.start, g.local.prev) /\ "prev" \in DOMAIN g.local
        /\ g.end = "go" => g.local.prev =< Head(walk).blk.num

\* merge-blocks
LEMMA MergeOrdered ==
  ASSUME NEW K, K \subseteq HeldBlocks, Kept(K), Placed(K), command.op = "merge", walk # <<>>,
         NEW g \in MergeFile(Frame, Head(walk))
  PROVE  PlacedFrame(g)
<1> DEFINE file == Head(walk)  num == file.blk.num
<1>0. /\ file \in OneFiles(K) /\ num >= Wanted.start /\ file.blk \in K /\ num \in Nat
      /\ Wanted.start \in Multiples /\ Wanted.start \in Nat /\ writer \in Writers(K) /\ BundleSize \in Nat
  <2>1. file \in OneFiles(K) /\ num >= Wanted.start
    BY DEF Kept, WalkKept
  <2>2. file.blk \in K /\ num \in Nat
    BY <2>1 DEF OneFiles, HeldBlocks
  <2>3. Wanted.start \in Multiples /\ writer \in Writers(K)
    BY DEF Kept
  <2>. QED BY <2>1, <2>2, <2>3, RangeAssumption DEF Multiples
<1>1. OrderedFiles(writer.files) /\ writer.by = command
  BY DEF Placed
<1>2. ASSUME Wanted.start > 0
      PROVE  MergeAt(writer, Wanted.start, local.prev) /\ local.prev =< num /\ "prev" \in DOMAIN local
  <2>1. InTurn(walk, local.prev)
    BY <1>2 DEF Placed
  <2>2. 1 \in DOMAIN walk /\ file = walk[1]
    <3>1. walk \in Seq({f \in OneFiles(K) : f.blk.num >= Wanted.start})
      BY DEF Kept, WalkKept
    <3> DEFINE S == {f \in OneFiles(K) : f.blk.num >= Wanted.start}
    <3>. HIDE DEF S
    <3>2. walk \in Seq(S)
      BY <3>1 DEF S
    <3>. QED BY <3>2
  <2>. HIDE DEF file
  <2>3. local.prev =< num
    BY <2>1, <2>2 DEF InTurn
  <2>. QED BY <1>2, <2>3 DEF Placed
<1>3. Frame.writer = writer /\ Frame.local = local
  BY DEF Frame
<1>. HIDE DEF num
<1>4. CASE g = Frame \/ g = [Frame EXCEPT !.end = "stop"]
  <2>1. g.writer = writer /\ g.local = local
    BY <1>4 DEF Frame
  <2>. QED BY <1>1, <1>2, <2>1 DEF PlacedFrame, num
<1>5. CASE /\ num # local.prev /\ ~(num > Wanted.start + BundleSize)
           /\ \E w \in ProcessBlock(writer, file.blk) :
                g = [Frame EXCEPT !.writer = w, !.local.prev = num,
                                  !.end = IF w.err = "none" THEN "go" ELSE "error", !.trouble = w.err = "store"]
  <2>1. PICK w \in ProcessBlock(writer, file.blk) :
                g = [Frame EXCEPT !.writer = w, !.local.prev = num,
                                  !.end = IF w.err = "none" THEN "go" ELSE "error", !.trouble = w.err = "store"]
    BY <1>5
  <2>2. /\ g.writer = w /\ g.end \in {"go", "error"} /\ (g.end = "go" => w.err = "none")
        /\ g.local = [local EXCEPT !.prev = num]
    BY <2>1 DEF Frame
  <2>3. Grows(writer, w)
    BY <1>0, ProcessGrows
  <2>4. CASE Wanted.start > 0
    <3>1. num =< Wanted.start + BundleSize
      BY <1>0, <1>5 DEF num
    <3>2. OrderedFiles(w.files) /\ (w.err = "none" => MergeAt(w, Wanted.start, num))
      BY <1>0, <1>1, <1>2, <1>5, <2>4, <3>1, MergeTakes DEF num
    <3>3. g.local.prev = num /\ "prev" \in DOMAIN g.local
      BY <1>2, <2>2, <2>4
    <3>4. num =< num
      BY <1>0 DEF num
    <3>. QED BY <1>1, <2>2, <2>3, <3>2, <3>3, <3>4 DEF PlacedFrame, Grows, num
  <2>5. CASE ~(Wanted.start > 0)
    <3>1. ~Orders(writer.by)
      BY <1>1, <2>5 DEF Orders, Wanted
    <3>. QED BY <1>1, <2>2, <2>3, <2>5, <3>1 DEF PlacedFrame, Grows
  <2>. QED BY <2>4, <2>5
<1>. QED BY <1>3, <1>4, <1>5 DEF MergeFile, num

\* A call of any walk
LEMMA VisitOrdered ==
  ASSUME NEW K, K \subseteq HeldBlocks, Linked(K), Kept(K), Placed(K),
         command.op \notin Streaming \cup {"idle", "forks"}, walk # <<>>,
         command.op = "upgrade" => Head(walk).base \in DOMAIN Files(command),
         NEW g \in VisitFile(Frame, Head(walk))
  PROVE  PlacedFrame(g)
<1> DEFINE base == Head(walk).base
<1>1. OrderedFiles(writer.files) /\ (command.op \in {"merge", "upgrade"} => writer.by = command)
  BY DEF Placed
<1>2. CASE command.op = "merge"
  <2>1. g \in MergeFile(Frame, Head(walk))
    BY <1>2 DEF VisitFile
  <2>. QED BY <1>2, <2>1, MergeOrdered
<1>3. CASE command.op = "upgrade"
  <2>1. g \in UpgradeFile(Frame, base) /\ base \in DOMAIN Files(command)
    BY <1>3 DEF VisitFile
  <2>2. OrderedFiles(g.writer.files) /\ g.writer.by = command
    BY <1>1, <1>3, <2>1, UpgradeOrdered
  <2>. QED BY <1>3, <2>2 DEF PlacedFrame
<1>4. CASE command.op \in {"fix", "legacy"}
  <2>1. base \in DOMAIN Files(command)
    <3>1. walk \in Seq(Named(DOMAIN Files(command)))
      BY <1>4 DEF Kept, WalkKept, Listed
    <3> DEFINE N == Named(DOMAIN Files(command))
    <3>2. walk \in Seq(N)
      BY <3>1
    <3>. HIDE DEF N
    <3>3. Head(walk) \in N
      BY <3>2
    <3>4. PICK b \in DOMAIN Files(command) : Head(walk) = [base |-> b]
      BY <3>3 DEF N, Named
    <3>. QED BY <3>4
  <2>2. g \in RangedFile(Frame, base)
    BY <1>4 DEF VisitFile
  <2>3. \/ g = [Frame EXCEPT !.end = "stop"] \/ g = Frame
        \/ g \in RewriteFile(Frame, base)
    BY <1>4, <2>2 DEF RangedFile, LegacyFile
  <2>4. g = [Frame EXCEPT !.end = "stop"] \/ g = Frame => g.writer = writer
    BY DEF Frame
  <2>. HIDE DEF base
  <2>5. OrderedFiles(g.writer.files)
    BY <1>1, <2>1, <2>3, <2>4, RewriteOrdered
  <2>. QED BY <1>4, <2>5 DEF PlacedFrame
<1>5. CASE command.op \notin {"merge", "fix", "legacy", "upgrade"}
  <2>1. g.writer = writer
    BY <1>5, VisitGood
  <2>. QED BY <1>1, <1>5, <2>1 DEF PlacedFrame
<1>. QED BY <1>2, <1>3, <1>4, <1>5

\* WriteBundle without blocks writes no file.
LEMMA NothingWritten ==
  ASSUME NEW K, NEW w \in Writers(K), w.blocks = <<>>, NEW t \in WriteBundle(w) PROVE t.files = w.files
<1>1. t = [w EXCEPT !.err = "no blocks"]
  BY DEF WriteBundle
<1>. QED BY <1>1, ErrorMade DEF Made

\* The end of a walk keeps the files in order.
LEMMA ClosingOrdered ==
  ASSUME NEW K, K \subseteq HeldBlocks, NEW f, GoodFrame(K, f), OrderedFiles(f.writer.files),
         command.op = "merge" => InNames(f.writer) /\ Wanted.start \in Multiples /\ f.writer.by = command,
         command.op = "merge" /\ Wanted.start > 0 => MergeAt(f.writer, Wanted.start, f.local.prev),
         NEW g \in Closing(f)
  PROVE  OrderedFiles(g.writer.files)
<1>0. OrderedFiles(f.writer.files) /\ f.writer \in Writers(K) /\ IsFrame(f)
  BY DEF GoodFrame
<1>1. CASE command.op = "merge"
  <2>1. PICK w \in WriteBundle(f.writer) :
           g = [f EXCEPT !.writer = w, !.end = IF w.err = "none" THEN "ok" ELSE "error", !.trouble = w.err = "store"]
    BY <1>1 DEF Closing, MergeEnd
  <2>2. g.writer = w
    BY <1>0, <2>1 DEF IsFrame
  <2>3. Grows(f.writer, w)
    BY <1>0, WriteGrows
  <2>4. CASE ~(Wanted.start > 0)
    <3>1. f.writer.by = command
      BY <1>1
    <3>2. ~Orders(f.writer.by)
      BY <1>1, <2>4, <3>1 DEF Orders, Wanted
    <3>. QED BY <1>0, <2>2, <2>3, <3>2 DEF Grows
  <2>5. CASE Wanted.start > 0
    <3>1. MergeAt(f.writer, Wanted.start, f.local.prev)
      BY <1>1, <2>5
    <3>2. CASE f.writer.blocks = <<>>
      <4>1. w.files = f.writer.files
        BY <1>0, <3>2, NothingWritten
      <4>. QED BY <1>0, <2>2, <4>1
    <3>3. CASE f.writer.blocks # <<>>
      <4>1. Within(f.writer.blocks, f.writer.low) /\ Ascends(f.writer.blocks)
        BY <3>1, <3>3 DEF MergeAt, After
      <4>2. f.writer.low \in BundleBases
        BY <1>0, <1>1, <3>3, WriterTypes, ScenariosAssumption DEF InNames, BundleBases, Multiples
      <4>. QED BY <1>0, <2>2, <4>1, <4>2, WriteOrdered
    <3>. QED BY <3>2, <3>3
  <2>. QED BY <2>4, <2>5
<1>2. CASE command.op # "merge"
  <2>1. g = [f EXCEPT !.end = "ok"] \/ g = [f EXCEPT !.local = Said(f.local), !.end = "ok"]
    BY <1>2 DEF Closing
  <2>2. g.writer = f.writer
    BY <1>0, <2>1 DEF IsFrame
  <2>. QED BY <1>0, <2>2
<1>. QED BY <1>1, <1>2

\* The files that are left of a walk are still in turn after its first one.
LEMMA NextInTurn ==
  ASSUME NEW K, K \subseteq HeldBlocks, NEW files \in Seq(OneFiles(K)), files # <<>>, NEW p, InTurn(files, p),
         NEW prev \in Nat, prev =< Head(files).blk.num
  PROVE  InTurn(Tail(files), prev)
<1> DEFINE rest == Tail(files)
<1>1. /\ Len(files) \in Nat /\ Len(files) >= 1 /\ DOMAIN files = 1..Len(files) /\ DOMAIN rest = 1..Len(files) - 1
      /\ \A i \in 1..Len(files) - 1 : rest[i] = files[i + 1] /\ Head(files) = files[1]
  OBVIOUS
<1>2. ASSUME NEW i \in DOMAIN files PROVE files[i].blk.num \in Nat
  <2>1. files[i] \in OneFiles(K)
    BY <1>2
  <2>. QED BY <2>1, ScenariosAssumption DEF OneFiles, HeldBlocks
<1>. HIDE DEF rest
<1>3. \A i, j \in DOMAIN rest : i =< j => rest[i].blk.num =< rest[j].blk.num
  <2> SUFFICES ASSUME NEW i \in DOMAIN rest, NEW j \in DOMAIN rest, i =< j PROVE rest[i].blk.num =< rest[j].blk.num
    OBVIOUS
  <2>1. i + 1 \in DOMAIN files /\ j + 1 \in DOMAIN files /\ i + 1 =< j + 1
    BY <1>1
  <2>. QED BY <1>1, <2>1 DEF InTurn
<1>4. \A i \in DOMAIN rest : prev =< rest[i].blk.num
  <2> SUFFICES ASSUME NEW i \in DOMAIN rest PROVE prev =< rest[i].blk.num
    OBVIOUS
  <2>1. i + 1 \in DOMAIN files /\ 1 \in DOMAIN files /\ 1 =< i + 1 /\ rest[i] = files[i + 1] /\ Head(files) = files[1]
    BY <1>1
  <2>2. files[1].blk.num =< files[i + 1].blk.num
    BY <2>1 DEF InTurn
  <2>3. files[1].blk.num \in Nat /\ files[i + 1].blk.num \in Nat
    BY <1>2, <2>1
  <2>. QED BY <2>1, <2>2, <2>3
<1>. QED BY <1>3, <1>4 DEF InTurn, rest

\* What a command that is over leaves
LEMMA EndPlaced ==
  ASSUME NEW K, command' = Idle, OrderedFiles(writer'.files) PROVE Placed(K)'
BY IdleIssued DEF Placed

\* After a command, the files are in order and no writer is at work.
LEMMA OverPlaced ==
  ASSUME NEW K, NEW f, OrderedFiles(f.writer.files), Over(f) PROVE Placed(K)'
<1>1. command' = Idle /\ writer' = f.writer
  BY DEF Over, Becomes, Ends
<1>. QED BY <1>1, EndPlaced

\* A call of a walk keeps the files in order.
LEMMA VisitPlaced ==
  ASSUME NEW K, K \subseteq HeldBlocks, Linked(K), Kept(K), Placed(K), Visit
  PROVE  Placed(K)'
<1>1. /\ command.op \notin Streaming \cup {"idle", "forks"} /\ walk # <<>>
      /\ command.op = "upgrade" => Head(walk).base \in DOMAIN Files(command)
  BY DEF Visit
<1>2. PICK f \in VisitFile(Frame, Head(walk)) :
         \/ /\ f.end = "go"
            /\ Becomes(f)
            /\ local' = f.local
            /\ walk' = IF command.op = "upgrade" THEN Ascending({Head(walk).base + BundleSize}) ELSE Tail(walk)
            /\ UNCHANGED <<command, printer, report>>
         \/ f.end = "stop" /\ \E g \in Closing(f) : Over(g)
         \/ f.end \notin {"go", "stop"} /\ Over(f)
  BY DEF Visit
<1>3. /\ GoodFrame(K, f) /\ PlacedFrame(f)
      /\ command.op = "merge" => InNames(f.writer) /\ Wanted.start \in Multiples
  BY <1>1, VisitGood, VisitOrdered DEF Kept
<1>4. CASE f.end = "stop" /\ \E g \in Closing(f) : Over(g)
  <2>1. PICK g \in Closing(f) : Over(g)
    BY <1>4
  <2>2. OrderedFiles(g.writer.files)
    BY <1>3, <1>4, ClosingOrdered DEF PlacedFrame
  <2>. QED BY <2>1, <2>2, OverPlaced
<1>5. CASE f.end \notin {"go", "stop"} /\ Over(f)
  BY <1>3, <1>5, OverPlaced DEF PlacedFrame
<1>6. CASE /\ f.end = "go" /\ Becomes(f) /\ local' = f.local
           /\ walk' = IF command.op = "upgrade" THEN Ascending({Head(walk).base + BundleSize}) ELSE Tail(walk)
           /\ UNCHANGED command
  <2>1. command' = command /\ writer' = f.writer /\ local' = f.local /\ Wanted' = Wanted
    BY <1>6 DEF Becomes, Wanted
  <2>2. command.op # "upgrade" => walk' = Tail(walk)
    BY <1>6
  <2>3. command.op # "download"
    BY <1>1 DEF Streaming
  <2>4. ASSUME command.op = "merge", Wanted.start > 0
        PROVE  MergeAt(writer', Wanted.start, local'.prev) /\ InTurn(walk', local'.prev) /\ "prev" \in DOMAIN local'
    <3>1. MergeAt(f.writer, Wanted.start, f.local.prev) /\ "prev" \in DOMAIN f.local /\ f.local.prev =< Head(walk).blk.num
      BY <1>3, <1>6, <2>4 DEF PlacedFrame
    <3>2. InTurn(walk, local.prev)
      BY <2>4 DEF Placed
    <3>3. walk \in Seq(OneFiles(K))
      <4> DEFINE S == {h \in OneFiles(K) : h.blk.num >= Wanted.start}
      <4>1. walk \in Seq(S) /\ S \subseteq OneFiles(K)
        BY <2>4 DEF Kept, WalkKept
      <4>. HIDE DEF S
      <4>. QED BY <4>1
    <3>4. f.local.prev \in Nat
      BY <3>1 DEF MergeAt
    <3>5. InTurn(Tail(walk), f.local.prev)
      BY <1>1, <3>1, <3>2, <3>3, <3>4, NextInTurn
    <3>. QED BY <2>1, <2>2, <2>4, <3>1, <3>5
  <2>. QED BY <1>3, <2>1, <2>3, <2>4 DEF Placed, PlacedFrame
<1>. QED BY <1>2, <1>4, <1>5, <1>6

\* The end of a walk and the loop of check forks keep the files in order.
LEMMA WalkStepsPlaced ==
  ASSUME NEW K, K \subseteq HeldBlocks, Kept(K), Placed(K), WalkEnds \/ MoveFork \/ ForksEnd
  PROVE  Placed(K)'
<1>0. GoodFrame(K, Frame) /\ Frame.writer = writer /\ Frame.local = local /\ Frame.end = "go"
  BY FirstFrame DEF Frame
<1>1. CASE WalkEnds
  <2>1. PICK g \in Closing(Frame) : Over(g)
    BY <1>1 DEF WalkEnds
  <2>2. OrderedFiles(g.writer.files)
    <3>1. /\ OrderedFiles(writer.files)
          /\ command.op = "merge" => InNames(writer) /\ Wanted.start \in Multiples /\ writer.by = command
          /\ command.op = "merge" /\ Wanted.start > 0 => MergeAt(writer, Wanted.start, local.prev)
      BY DEF Placed, Kept
    <3>. QED BY <1>0, <2>1, <3>1, ClosingOrdered
  <2>. QED BY <2>1, <2>2, OverPlaced
<1>2. CASE MoveFork
  <2>1. PICK f \in ForksSteps(Frame) : Becomes(f) /\ UNCHANGED command
    BY <1>2 DEF MoveFork
  <2>2. f.writer = writer
    BY DEF ForksSteps, Frame
  <2>3. command.op = "forks"
    BY <1>2 DEF MoveFork
  <2>. QED BY <2>1, <2>2, <2>3 DEF Becomes, Placed
<1>3. CASE ForksEnd
  <2>1. [Frame EXCEPT !.end = "ok"].writer = writer
    BY DEF Frame
  <2>. QED BY <1>3, <2>1, OverPlaced DEF ForksEnd, Placed
<1>. QED BY <1>1, <1>2, <1>3

\* The writer of a new command, field by field.
LEMMA FirstWriterIs ==
  ASSUME NEW cmd
  PROVE  /\ FirstWriter(cmd).by = cmd /\ FirstWriter(cmd).err = "none"
         /\ FirstWriter(cmd).blocks = <<>> /\ FirstWriter(cmd).files = writer.files
         /\ cmd.op = "merge" => FirstWriter(cmd).low = cmd.range.start
         /\ cmd.op = "download" => FirstWriter(cmd).low = 0
BY DEF FirstWriter, NewWriter

\* A new writer has nothing before what its walk will hand it.
LEMMA FirstPlaced ==
  ASSUME NEW K, K \subseteq HeldBlocks, Kept(K), Placed(K), Kept(K)', NEW cmd,
         command' = cmd, writer' = FirstWriter(cmd), local' = FirstLocals(cmd), walk' = WalkOf(cmd)
  PROVE  Placed(K)'
<1>1. /\ writer'.by = cmd /\ writer'.err = "none" /\ writer'.blocks = <<>> /\ writer'.files = writer.files
      /\ cmd.op = "merge" => writer'.low = cmd.range.start
      /\ cmd.op = "download" => writer'.low = 0
  BY FirstWriterIs
<1>2. cmd.op \in {"merge", "download"} => local'.prev = 0 /\ "prev" \in DOMAIN local'
  <2>1. cmd.op \in {"merge", "download"} => local' = NoLocals
    BY DEF FirstLocals
  <2>2. NoLocals.prev = 0 /\ "prev" \in DOMAIN NoLocals
    BY DEF NoLocals
  <2>. QED BY <2>1, <2>2
<1>3. Wanted' = cmd.range
  BY DEF Wanted
<1>4. OrderedFiles(writer'.files)
  BY <1>1 DEF Placed
<1>5. ASSUME cmd.op = "merge", cmd.range.start > 0
      PROVE  MergeAt(writer', cmd.range.start, local'.prev) /\ InTurn(walk', local'.prev)
  <2>1. cmd.range.start \in Nat
    BY <1>3, <1>5 DEF Kept, Multiples
  <2>2. MergeAt(writer', cmd.range.start, local'.prev)
    BY <1>1, <1>2, <1>5, <2>1 DEF MergeAt
  <2> DEFINE S == {f \in ones : f.blk.num >= cmd.range.start}
  <2>3. walk' = Sorted(S, OneFileBefore)
    BY <1>5 DEF WalkOf
  <2>4. IsFiniteSet(S)
    BY FS_Subset DEF Kept
  <2>5. S \subseteq OneFiles(HeldBlocks)
    BY DEF Kept, OneFiles
  <2>. HIDE DEF S
  <2>6. /\ walk' \in Seq(S)
        /\ \A i, j \in DOMAIN walk' : i =< j => walk'[i].blk.num =< walk'[j].blk.num
    BY <2>3, <2>4, <2>5, OnesSorted
  <2>7. ASSUME NEW i \in DOMAIN walk' PROVE 0 =< walk'[i].blk.num
    <3>1. walk'[i] \in S
      BY <2>6, <2>7
    <3>2. walk'[i].blk.num \in Nat
      BY <2>5, <3>1, ScenariosAssumption DEF OneFiles, HeldBlocks
    <3>. QED BY <3>2
  <2>8. InTurn(walk', 0)
    BY <2>6, <2>7 DEF InTurn
  <2>. QED BY <1>2, <1>5, <2>2, <2>8
<1>6. cmd.op = "download" => LinkAt(K, writer', local'.prev)
  BY <1>1, <1>2 DEF LinkAt, Fresh, NoId
<1>. QED BY <1>1, <1>2, <1>3, <1>4, <1>5, <1>6 DEF Placed

\* The start of a command keeps the files in order.
LEMMA StartPlaced ==
  ASSUME NEW K, K \subseteq HeldBlocks, Kept(K), Placed(K), Kept(K)', Start
  PROVE  Placed(K)'
<1> DEFINE AskedRange(c) == ParseBlockRange(c.arg, DefaultRange(c.op))
           Cmd(c) == [op |-> c.op, on |-> c.on, range |-> CHOOSE g \in AskedRange(c) : TRUE]
<1>1. PICK c \in Scenarios[scenario].plan[started + 1] :
         IF AskedRange(c) = {} \/ (c.op \in NeedsResolved /\ \E g \in AskedRange(c) : ~IsResolved(g))
         THEN UNCHANGED <<writer, command, walk, local>>
         ELSE /\ command' = Cmd(c)
              /\ writer' = FirstWriter(Cmd(c)) /\ local' = FirstLocals(Cmd(c)) /\ walk' = WalkOf(Cmd(c))
  BY DEF Start
<1>2. CASE UNCHANGED <<writer, command, walk, local>>
  BY <1>2 DEF Placed, Wanted
<1> DEFINE cmd == Cmd(c)
<1>. HIDE DEF Cmd, AskedRange
<1>3. CASE /\ command' = cmd /\ writer' = FirstWriter(cmd) /\ local' = FirstLocals(cmd) /\ walk' = WalkOf(cmd)
  <2>. HIDE DEF cmd
  <2>. QED BY <1>3, FirstPlaced
<1>. QED BY <1>1, <1>2, <1>3

\* A response keeps the files in order: the download checks its parent before the writer is handed it.
LEMMA DownloadPlaced ==
  ASSUME NEW K, K \subseteq HeldBlocks, {FromFeed(e) : e \in FeedElements} \subseteq K, Linked(K),
         Kept(K), Placed(K), Connected(conn), DownloadBlock
  PROVE  Placed(K)'
<1> DEFINE resp == Head(conn.wire)
           blk == [num |-> resp.num, id |-> resp.id, parent |-> resp.parent, body |-> 0]
           next == [Frame EXCEPT !.local.prev = blk.id]
           Written(w) == [next EXCEPT !.writer = w, !.trouble = w.err = "store",
                                      !.end = IF w.err = "none" THEN "go" ELSE "error"]
<1>0. /\ OrderedFiles(writer.files) /\ writer.by = command /\ writer \in Writers(K)
      /\ LinkAt(K, writer, local.prev) /\ "prev" \in DOMAIN local
  BY DEF DownloadBlock, Placed, Kept
<1>1. blk \in K
  <2>1. resp \in Responses
    BY TakenConnected DEF DownloadBlock
  <2>. HIDE DEF resp
  <2>2. PICK e \in FeedElements : resp.num = e.num /\ resp.id = e.id /\ resp.parent = e.parent
    BY <2>1 DEF Responses
  <2>3. blk = FromFeed(e)
    BY <2>2 DEF FromFeed
  <2>. QED BY <2>3
<1>2. PICK f \in IF Follows(blk) THEN {Written(w) : w \in ProcessBlock(writer, blk)} ELSE {[Frame EXCEPT !.end = "error"]} :
         /\ writer' = f.writer
         /\ IF f.end = "go" THEN local' = f.local /\ UNCHANGED command ELSE command' = Idle
  BY DEF DownloadBlock, Ends
<1>3. \A w : /\ Written(w).writer = w /\ Written(w).local = [local EXCEPT !.prev = blk.id]
             /\ Written(w).end = "go" => w.err = "none"
  BY DEF Frame
<1>4. [Frame EXCEPT !.end = "error"].end # "go" /\ [Frame EXCEPT !.end = "error"].writer = writer
  BY DEF Frame
<1>5. [local EXCEPT !.prev = blk.id].prev = blk.id /\ "prev" \in DOMAIN [local EXCEPT !.prev = blk.id]
  BY <1>0
<1>. HIDE DEF blk, Written
<1>6. CASE Follows(blk)
  <2>1. PICK w \in ProcessBlock(writer, blk) : f = Written(w)
    BY <1>2, <1>6
  <2>2. local.prev = NoId \/ blk.parent = local.prev
    BY <1>6 DEF Follows
  <2>3. OrderedFiles(w.files) /\ (w.err = "none" => LinkAt(K, w, blk.id))
    BY <1>0, <1>1, <2>1, <2>2, LinkTakes
  <2>4. Grows(writer, w)
    BY <1>0, <1>1, <2>1, ProcessGrows
  <2>5. writer' = w
    BY <1>2, <1>3, <2>1
  <2>6. CASE f.end = "go"
    <3>1. w.err = "none" /\ local' = [local EXCEPT !.prev = blk.id] /\ command' = command
      BY <1>2, <1>3, <2>1, <2>6
    <3>2. command.op = "download"
      BY DEF DownloadBlock
    <3>. QED BY <1>0, <1>5, <2>3, <2>4, <2>5, <3>1, <3>2 DEF Placed, Grows
  <2>7. CASE f.end # "go"
    BY <1>2, <2>3, <2>5, <2>7, EndPlaced
  <2>. QED BY <2>6, <2>7
<1>7. CASE ~Follows(blk)
  <2>1. f = [Frame EXCEPT !.end = "error"]
    BY <1>2, <1>7
  <2>2. writer' = writer /\ command' = Idle
    BY <1>2, <1>4, <2>1
  <2>. QED BY <1>0, <2>2, EndPlaced
<1>. QED BY <1>6, <1>7

\* Every step keeps the files in order.
LEMMA PlacedStep ==
  ASSUME NEW K, K \subseteq HeldBlocks, {FromFeed(e) : e \in FeedElements} \subseteq K, Linked(K),
         Kept(K), Placed(K), Kept(K)', Connected(conn), Next
  PROVE  Placed(K)'
<1>1. ASSUME UNCHANGED <<writer, command, walk, local>> PROVE Placed(K)'
  BY <1>1 DEF Placed, Wanted
<1>2. ASSUME NEW result, Ends(result, local), UNCHANGED writer PROVE Placed(K)'
  <2>1. command' = Idle /\ OrderedFiles(writer'.files)
    BY <1>2 DEF Ends, Placed
  <2>. QED BY <2>1, EndPlaced
<1>3. CASE Start
  BY <1>3, StartPlaced
<1>4. CASE Visit
  BY <1>4, VisitPlaced
<1>5. CASE WalkEnds \/ MoveFork \/ ForksEnd
  BY <1>5, WalkStepsPlaced
<1>6. CASE DownloadBlock
  BY <1>6, DownloadPlaced
<1>7. CASE DownloadStatus
  <2>1. CASE Ends("ok", local)
    BY <1>2, <1>7, <2>1 DEF DownloadStatus
  <2>2. CASE UNCHANGED <<command, walk, local, printer, report>>
    BY <1>1, <1>7, <2>2 DEF DownloadStatus
  <2>. QED BY <1>7, <2>1, <2>2 DEF DownloadStatus
<1>8. CASE PrintStep \/ Serve \/ StreamTrouble
  BY <1>1, <1>8 DEF PrintStep, Serve, StreamTrouble, storeVars
<1>9. CASE PrintEnds
  BY <1>2, <1>9 DEF PrintEnds
<1>10. CASE Kill
  BY <1>2, <1>10 DEF Kill
<1>. QED BY <1>3, <1>4, <1>5, <1>6, <1>7, <1>8, <1>9, <1>10 DEF Next, ToolStep

\* The blocks of a scenario can be put in their files.
Linkable(n) == Linked(Known(n))

OrderInv == ToolsInv /\ (Linkable(scenario) => Placed(Known(scenario)))

(* Files in order, whatever the stores, the forks, the failures of streams and stores, the kills   *)
(* and the commands run again, as long as the chain has no gap of more than a bundle and has the    *)
(* last block of bundle 0.                                                                          *)
THEOREM ToolsKeepOrder == Spec => [](Linkable(scenario) => FilesInOrder)
<1>1. Init => OrderInv
  <2>. SUFFICES ASSUME Init PROVE OrderInv
    OBVIOUS
  <2>1. ToolsInv
    BY ToolsFirst
  <2>2. Placed(Known(scenario))
    <3>1. writer.files = Scenarios[scenario].dest /\ command = Idle /\ scenario \in DOMAIN Scenarios
      BY DEF Init, NewWriter
    <3>2. IsStore(Scenarios[scenario].dest)
      BY <3>1, ScenariosAssumption
    <3>3. \A b \in DOMAIN writer.files : writer.files[b].by = Idle
      BY <3>1, <3>2 DEF IsStore, HeldFiles
    <3>4. ~Orders(Idle)
      BY DEF Orders, Idle
    <3>5. OrderedFiles(writer.files)
      BY <3>3, <3>4 DEF OrderedFiles
    <3>. QED BY <3>1, <3>5, IdleIssued DEF Placed
  <2>. QED BY <2>1, <2>2 DEF OrderInv
<1>2. OrderInv /\ [Next]_vars => OrderInv'
  <2>. SUFFICES ASSUME OrderInv, [Next]_vars PROVE OrderInv'
    OBVIOUS
  <2>1. ToolsInv'
    BY ToolsNext DEF OrderInv
  <2>2. scenario' = scenario
    BY ScenarioStays
  <2>3. CASE UNCHANGED vars
    BY <2>1, <2>3 DEF OrderInv, Placed, Wanted, vars, storeVars
  <2>4. CASE Next
    <3>1. PICK n \in DOMAIN Scenarios : n = scenario
      BY DEF OrderInv, ToolsInv, RunKept
    <3> DEFINE K == Known(n)
    <3>2. K \subseteq HeldBlocks /\ {FromFeed(e) : e \in FeedElements} \subseteq K
      BY KnownHeld DEF Known
    <3>3. K = Known(scenario) /\ (Linked(K) => Placed(K))
      BY <3>1 DEF OrderInv, Linkable
    <3>4. Kept(K) /\ Kept(K)'
      BY <2>1, <2>2, <3>1 DEF OrderInv, ToolsInv
    <3>. HIDE DEF K
    <3>5. Linked(K) => Placed(K)'
      <4>1. Connected(conn)
        BY DEF OrderInv, ToolsInv
      <4>. QED BY <2>4, <3>2, <3>3, <3>4, <4>1, PlacedStep
    <3>6. (Linkable(scenario) => Placed(Known(scenario)))'
      BY <2>2, <3>1, <3>5 DEF K, Linkable
    <3>. QED BY <2>1, <3>6 DEF OrderInv
  <2>. QED BY <2>3, <2>4
<1>3. OrderInv => (Linkable(scenario) => FilesInOrder)
  <2>. SUFFICES ASSUME OrderInv, Linkable(scenario), NEW b \in DOMAIN writer.files, Orders(writer.files[b].by)
                PROVE  /\ Heights(writer.files[b].blocks) \subseteq b..EndOf(b)
                       /\ \A i, j \in DOMAIN writer.files[b].blocks :
                             i < j => writer.files[b].blocks[i].num < writer.files[b].blocks[j].num
    BY DEF FilesInOrder
  <2>1. Within(writer.files[b].blocks, b) /\ Ascends(writer.files[b].blocks)
    BY DEF OrderInv, Placed, OrderedFiles
  <2>. QED BY <2>1 DEF Within, Ascends, Heights
<1>. QED BY <1>1, <1>2, <1>3, PTL DEF Spec
=============================================================================
