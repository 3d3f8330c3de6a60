------------------------- MODULE BundleReaderProofs -------------------------
(***************************************************************************)
(* Proofs about the write of one merged file, for every bundle, every set  *)
(* of corrupt files, every number of attempts and of failures.             *)
(***************************************************************************)
EXTENDS BundleReader, TLAPS

-----------------------------------------------------------------------------
(* The inductive invariant behind StoredPrefix and ShortOnlyAfterError.    *)

\* A goroutine and what it keeps.  Its channel holds at most the file before
\* the one it is at.
LoaderOK(l) ==
  /\ l.next \in 1 .. Len(Files) + 1 /\ l.err \in BOOLEAN
  /\ l.chan = <<>> \/ (l.next > 1 /\ l.chan = <<Files[l.next - 1]>>)
  /\ l.stage = "send" => l.next =< Len(Files)

\* The types of the channel and of what a goroutine keeps.
Chan == {<<>>} \cup {<<f>> : f \in ToSet(Files)}

Loader ==
  [stage : {"none", "load", "send", "close", "closed"},
   next : Nat, chan : Chan, err : BOOLEAN]

Typed ==
  /\ phase \in {"open", "write", "stored", "failed"}
  /\ attempt \in 1 .. Attempts
  /\ loaders \in [1 .. Attempts -> Loader]
  /\ \A a \in 1 .. Attempts : LoaderOK(loaders[a])
  /\ written \in Seq(ToSet(Files))
  /\ corrupt \subseteq ToSet(Files) \cup {AnyFile}
  /\ memo \subseteq ToSet(Files) \cup {AnyFile}
  /\ failures \in Nat

\* s is a beginning of the bundle without a corrupt file.
Begins(s) ==
  /\ s \in Seq(ToSet(Files)) /\ Len(s) =< Len(Files)
  /\ \A i \in 1 .. Len(s) : s[i] = Files[i] /\ s[i] \notin corrupt

\* The number of files on the channel of a goroutine.
Waiting(l) == IF l.chan = <<>> THEN 0 ELSE 1

\* An attempt starts with a goroutine of its own: nothing that an earlier one
\* left behind is on its channel.
Fresh ==
  \A a \in 1 .. Attempts :
    a > attempt \/ (a = attempt /\ phase = "open") => loaders[a] = NotStarted

\* What the store has read and what is on the channel are together the files
\* that the goroutine of this attempt is past.
Streamed ==
  phase \in {"write", "stored"} =>
    /\ Begins(written)
    /\ Len(written) + Waiting(loaders[attempt]) = loaders[attempt].next - 1

\* The store reads what the goroutine of attempt a sends, or has done so.
Live(a) == a = attempt /\ phase \in {"write", "stored"}

\* The channel of this attempt is closed at the end of the bundle, or next to
\* an error that nobody has taken.
Closed ==
  /\ \A a \in 1 .. Attempts :
       Live(a) /\ loaders[a].stage \in {"close", "closed"} =>
         loaders[a].err \/ loaders[a].next > Len(Files)
  /\ phase = "stored" =>
       /\ stored = written /\ loaders[attempt].chan = <<>>
       /\ loaders[attempt].stage = "closed"

IInv ==
  Typed /\ Fresh /\ Streamed /\ Closed /\ (stored # NoBundle => Begins(stored))


\* What the proofs need of the constants.
LEMMA Bundle ==
  /\ Files \in Seq(ToSet(Files)) /\ Len(Files) \in Nat
  /\ Attempts \in Nat \ {0}
  /\ CorruptSets \subseteq SUBSET (ToSet(Files) \cup {AnyFile})
  /\ \A i \in 1 .. Len(Files) : Files[i] \in ToSet(Files)
<1>1. Files \in Seq(ToSet(Files)) /\ Attempts \in Nat \ {0}
  BY BundleReaderAssumption
<1>2. CorruptSets \subseteq SUBSET (ToSet(Files) \cup {AnyFile})
  BY BundleReaderAssumption
<1>. QED BY <1>1, <1>2 DEF ToSet

\* At the start nothing is read, sent or stored.
LEMMA Starts == Init => IInv
<1>. SUFFICES ASSUME Init PROVE IInv
  OBVIOUS
<1>. USE Bundle DEF Init
<1>1. NotStarted \in Loader /\ LoaderOK(NotStarted)
  BY DEF NotStarted, Loader, LoaderOK, Chan
<1>2. Typed
  BY <1>1 DEF Typed
<1>. QED BY <1>2 DEF IInv, Fresh, Streamed, Closed, Live, Waiting, Begins, NotStarted

\* An attempt that fails leaves the goroutines of the attempts after it alone,
\* and no file is stored.
LEMMA AttemptFailsKeeps ==
  ASSUME IInv, AttemptFails, phase \in {"open", "write"},
         UNCHANGED <<corrupt, written, stored, memo>>, failures' \in Nat,
         loaders' \in [1 .. Attempts -> Loader],
         \A a \in 1 .. Attempts : LoaderOK(loaders'[a]),
         \A a \in 1 .. Attempts : a # attempt \/ phase = "open" => loaders'[a] = loaders[a]
  PROVE  IInv'
<1>. USE Bundle DEF IInv, Typed, AttemptFails
<1>1. Typed'
  BY DEF LoaderOK
<1>2. Fresh'
  BY DEF Fresh, NotStarted
<1>3. Streamed' /\ Closed' /\ (stored # NoBundle => Begins(stored))'
  BY DEF Streamed, Closed, Begins, Live, Waiting
<1>. QED BY <1>1, <1>2, <1>3

\* An attempt that starts has a channel of its own, with nothing on it.
LEMMA OpenReaderKeeps == IInv /\ OpenReader => IInv'
<1>. SUFFICES ASSUME IInv, OpenReader PROVE IInv'
  OBVIOUS
<1>. USE Bundle DEF IInv, Typed, OpenReader
<1>1. loaders[attempt] = NotStarted
  BY DEF Fresh
<1>2. loaders' \in [1 .. Attempts -> Loader]
  BY DEF Loader
<1>3. \A a \in 1 .. Attempts : LoaderOK(loaders'[a])
  BY DEF LoaderOK, Loader
<1>4. Typed'
  BY <1>2, <1>3 DEF LoaderOK
<1>5. Fresh'
  BY DEF Fresh
<1>6. /\ loaders'[attempt].chan = <<>> /\ loaders'[attempt].next = 1
      /\ loaders'[attempt].stage = "load"
  BY <1>1 DEF NotStarted, Loader
<1>7. Streamed' /\ Closed' /\ (stored # NoBundle => Begins(stored))'
  BY <1>6 DEF Streamed, Closed, Begins, Live, Waiting
<1>. QED BY <1>4, <1>5, <1>7

\* An attempt whose header cannot be had starts no goroutine.
LEMMA OpenFailsKeeps == IInv /\ OpenFails => IInv'
BY AttemptFailsKeeps DEF OpenFails, MayFail, IInv, Typed

\* A write that fails leaves its goroutine behind.
LEMMA WriteFailsKeeps == IInv /\ WriteFails => IInv'
BY AttemptFailsKeeps DEF WriteFails, MayFail, IInv, Typed

\* A goroutine may take a step at any time, also after its attempt has failed.
\* It keeps what is on the channel, or sends the file it is at.
LEMMA GoroutineKeeps ==
  ASSUME IInv, NEW a \in 1 .. Attempts,
         loaders[a].stage \notin {"none", "closed"},
         loaders' \in [1 .. Attempts -> Loader], LoaderOK(loaders'[a]),
         \A b \in 1 .. Attempts : b # a => loaders'[b] = loaders[b],
         \/ loaders'[a].chan = loaders[a].chan /\ loaders'[a].next = loaders[a].next
         \/ /\ loaders[a].chan = <<>> /\ loaders'[a].chan # <<>>
            /\ loaders'[a].next = loaders[a].next + 1,
         Live(a) /\ loaders'[a].stage \in {"close", "closed"} =>
           loaders'[a].err \/ loaders'[a].next > Len(Files),
         phase # "stored" \/ a # attempt,
         memo' \subseteq ToSet(Files) \cup {AnyFile}, failures' \in Nat,
         UNCHANGED <<corrupt, phase, attempt, written, stored>>
  PROVE  IInv'
<1>. USE Bundle DEF IInv, Typed
<1>1. Typed'
  BY DEF LoaderOK
<1>2. a < attempt \/ (a = attempt /\ phase # "open")
  BY DEF Fresh, NotStarted
<1>3. Fresh'
  BY <1>2 DEF Fresh
<1>4. (stored # NoBundle => Begins(stored))'
  BY DEF Begins
<1>5. Streamed'
  <2>. SUFFICES ASSUME phase \in {"write", "stored"}
                PROVE  /\ Begins(written)
                       /\ Len(written) + Waiting(loaders'[attempt]) = loaders'[attempt].next - 1
    BY DEF Streamed, Begins
  <2>1. loaders[attempt].next \in Nat /\ Len(written) \in Nat
    BY DEF Loader
  <2>2. Begins(written) /\ Len(written) + Waiting(loaders[attempt]) = loaders[attempt].next - 1
    BY DEF Streamed
  <2>3. CASE loaders'[attempt].chan = loaders[attempt].chan
             /\ loaders'[attempt].next = loaders[attempt].next
    BY <2>1, <2>2, <2>3 DEF Begins, Waiting
  <2>4. CASE /\ loaders[attempt].chan = <<>> /\ loaders'[attempt].chan # <<>>
             /\ loaders'[attempt].next = loaders[attempt].next + 1
    BY <2>1, <2>2, <2>4 DEF Begins, Waiting
  <2>. QED BY <2>3, <2>4
<1>6. Closed'
  BY DEF Closed, Live
<1>. QED BY <1>1, <1>3, <1>4, <1>5, <1>6

\* Every step of a goroutine is one of those.
LEMMA LoaderStepKeeps ==
  ASSUME IInv, NEW a \in 1 .. Attempts, LoaderStep(a) \/ LoadFails(a)
  PROVE  IInv'
<1>. USE Bundle
<1>1. /\ loaders \in [1 .. Attempts -> Loader] /\ LoaderOK(loaders[a])
      /\ memo \subseteq ToSet(Files) \cup {AnyFile} /\ failures \in Nat
      /\ phase = "stored" => loaders[attempt].stage = "closed"
  BY DEF IInv, Typed, Closed
<1>2. CASE Load(a)
  <2>1. loaders' \in [1 .. Attempts -> Loader] /\ LoaderOK(loaders'[a])
    BY <1>1, <1>2 DEF Load, Loader, LoaderOK
  <2>2. memo' \subseteq ToSet(Files) \cup {AnyFile}
    BY <1>1, <1>2 DEF Load, LoaderOK
  <2>. QED BY <1>1, <1>2, <2>1, <2>2, GoroutineKeeps DEF Load, Loader
<1>3. CASE LoadFails(a)
  <2>1. loaders' \in [1 .. Attempts -> Loader] /\ LoaderOK(loaders'[a])
    BY <1>1, <1>3 DEF LoadFails, Loader, LoaderOK
  <2>2. failures' \in Nat
    BY <1>1, <1>3 DEF LoadFails, MayFail
  <2>. QED BY <1>1, <1>3, <2>1, <2>2, GoroutineKeeps DEF LoadFails, Loader
<1>4. CASE Send(a)
  <2>1. loaders[a].next \in 1 .. Len(Files) /\ Files[loaders[a].next] \in ToSet(Files)
    BY <1>1, <1>4 DEF Send, LoaderOK
  <2>2. loaders' \in [1 .. Attempts -> Loader] /\ LoaderOK(loaders'[a])
    <3>0. <<Files[loaders[a].next]>> \in Chan
      BY <2>1 DEF Chan
    <3>1. /\ loaders'[a].stage = "load" /\ loaders'[a].next = loaders[a].next + 1
          /\ loaders'[a].err = loaders[a].err /\ loaders'[a].chan = <<Files[loaders[a].next]>>
          /\ loaders[a].next \in Nat
      BY <1>1, <1>4 DEF Send, Loader
    <3>2. loaders' \in [1 .. Attempts -> Loader]
      <4>. DEFINE c == <<Files[loaders[a].next]>>
      <4>1. loaders' = [loaders EXCEPT ![a].stage = "load", ![a].next = @ + 1, ![a].chan = c]
        BY <1>4 DEF Send
      <4>. HIDE DEF c
      <4>2. c \in Chan
        BY <3>0 DEF c
      <4>3. loaders[a] \in Loader /\ loaders[a].next + 1 \in Nat
        BY <1>1, <3>1
      <4>4. [loaders[a] EXCEPT !.stage = "load", !.next = @ + 1, !.chan = c] \in Loader
        BY <4>2, <4>3 DEF Loader
      <4>5. loaders' =
              [loaders EXCEPT ![a] =
                [loaders[a] EXCEPT !.stage = "load", !.next = @ + 1, !.chan = c]]
        BY <1>1, <4>1, <4>3 DEF Loader
      <4>. QED BY <1>1, <4>4, <4>5
    <3>3. loaders'[a].next \in 2 .. Len(Files) + 1 /\ loaders'[a].next - 1 = loaders[a].next
      BY <2>1, <3>1
    <3>. QED BY <1>1, <3>1, <3>2, <3>3 DEF LoaderOK
  <2>. QED BY <1>1, <1>4, <2>2, GoroutineKeeps DEF Send, Loader
<1>5. CASE CloseChan(a)
  <2>1. loaders' \in [1 .. Attempts -> Loader] /\ LoaderOK(loaders'[a])
    BY <1>1, <1>5 DEF CloseChan, Loader, LoaderOK
  <2>2. /\ loaders'[a].next = loaders[a].next /\ loaders'[a].err = loaders[a].err
        /\ loaders'[a].chan = loaders[a].chan
    BY <1>1, <1>5 DEF CloseChan, Loader
  <2>3. Live(a) /\ loaders'[a].stage \in {"close", "closed"} =>
          loaders'[a].err \/ loaders'[a].next > Len(Files)
    BY <1>5, <2>2 DEF CloseChan, Closed, IInv
  <2>. QED BY <1>1, <1>5, <2>1, <2>2, <2>3, GoroutineKeeps DEF CloseChan
<1>. QED BY <1>2, <1>3, <1>4, <1>5 DEF LoaderStep

\* The store appends what is on the channel to what it has read, or finds that
\* it is corrupt.
LEMMA ReadKeeps == IInv /\ (ReadData \/ ReadCorrupt) => IInv'
<1>. SUFFICES ASSUME IInv, phase = "write", loaders[attempt].chan # <<>>,
                     ReadData \/ ReadCorrupt
              PROVE  IInv'
  BY DEF ReadData, ReadCorrupt
<1>. USE Bundle
<1>. DEFINE f == Files[loaders[attempt].next - 1]
<1>1. /\ loaders \in [1 .. Attempts -> Loader] /\ attempt \in 1 .. Attempts
      /\ \A a \in 1 .. Attempts : LoaderOK(loaders[a])
      /\ written \in Seq(ToSet(Files)) /\ Len(written) \in Nat /\ failures \in Nat
      /\ loaders[attempt].next \in Nat
  BY DEF IInv, Typed, LoaderOK
<1>2. /\ loaders[attempt].next - 1 \in 1 .. Len(Files) /\ f \in ToSet(Files)
      /\ loaders[attempt].chan = <<f>>
  BY <1>1 DEF LoaderOK
<1>3. loaders' = [loaders EXCEPT ![attempt].chan = <<>>]
  BY DEF ReadData, ReadCorrupt
<1>4. loaders' \in [1 .. Attempts -> Loader] /\ \A a \in 1 .. Attempts : LoaderOK(loaders'[a])
  <2>1. loaders' \in [1 .. Attempts -> Loader]
    BY <1>1, <1>3 DEF Loader, Chan
  <2>2. loaders'[attempt].chan = <<>> /\ loaders'[attempt].next = loaders[attempt].next
        /\ loaders'[attempt].stage = loaders[attempt].stage
        /\ loaders'[attempt].err = loaders[attempt].err
    BY <1>1, <1>3 DEF Loader
  <2>3. \A a \in 1 .. Attempts : a # attempt => loaders'[a] = loaders[a]
    BY <1>1, <1>3
  <2>. QED BY <1>1, <2>1, <2>2, <2>3 DEF LoaderOK
<1>5. CASE ReadCorrupt
  BY <1>1, <1>3, <1>4, <1>5, AttemptFailsKeeps DEF ReadCorrupt
<1>6. CASE ReadData
  <2>1. f \notin corrupt /\ written' = Append(written, f)
    BY <1>1, <1>2, <1>6 DEF ReadData
  <2>2. Begins(written) /\ Len(written) = loaders[attempt].next - 2
    <3>1. Begins(written) /\ Len(written) + Waiting(loaders[attempt]) = loaders[attempt].next - 1
      BY DEF IInv, Streamed
    <3>. QED BY <1>1, <3>1 DEF Waiting
  <2>3. written' \in Seq(ToSet(Files)) /\ Begins(written')
    <3>1. /\ written' \in Seq(ToSet(Files)) /\ Len(written') = Len(written) + 1
          /\ \A i \in 1 .. Len(written) : written'[i] = written[i]
          /\ written'[Len(written) + 1] = f
      BY <1>1, <1>2, <2>1
    <3>2. Len(written) + 1 = loaders[attempt].next - 1
      BY <1>1, <2>2
    <3>. QED BY <1>1, <1>2, <2>1, <2>2, <3>1, <3>2 DEF Begins
  <2>4. Typed'
    BY <1>4, <1>6, <2>3 DEF IInv, Typed, ReadData
  <2>5. Fresh'
    BY <1>3, <1>6 DEF IInv, Fresh, ReadData
  <2>6. /\ loaders'[attempt].next = loaders[attempt].next
        /\ loaders'[attempt].chan = <<>>
        /\ \A a \in 1 .. Attempts :
             loaders'[a].err = loaders[a].err /\ loaders'[a].stage = loaders[a].stage
             /\ loaders'[a].next = loaders[a].next
    BY <1>1, <1>3 DEF Loader
  <2>7. Streamed'
    <3>1. Len(written') = Len(written) + 1
      BY <1>1, <1>2, <2>1
    <3>2. UNCHANGED <<attempt, corrupt, phase>>
      BY <1>6 DEF ReadData
    <3>3. Len(written') + Waiting(loaders'[attempt]) = loaders'[attempt].next - 1
      BY <1>1, <2>2, <2>6, <3>1 DEF Waiting
    <3>. QED BY <2>3, <3>2, <3>3 DEF Streamed, Begins, Waiting
  <2>8. Closed'
    BY <1>6, <2>6 DEF IInv, Closed, Live, ReadData
  <2>. QED BY <1>6, <2>4, <2>5, <2>7, <2>8 DEF IInv, ReadData, Begins
<1>. QED BY <1>5, <1>6

\* The error is taken from the channel together with the attempt.
LEMMA ReadErrorKeeps == IInv /\ ReadError => IInv'
<1>. SUFFICES ASSUME IInv, ReadError PROVE IInv'
  OBVIOUS
<1>. USE Bundle
<1>1. /\ loaders \in [1 .. Attempts -> Loader] /\ failures \in Nat
      /\ \A a \in 1 .. Attempts : LoaderOK(loaders[a])
  BY DEF IInv, Typed
<1>2. loaders' \in [1 .. Attempts -> Loader] /\ \A a \in 1 .. Attempts : LoaderOK(loaders'[a])
  <2>1. loaders' \in [1 .. Attempts -> Loader]
    BY <1>1 DEF ReadError, Loader
  <2>2. \A a \in 1 .. Attempts :
          /\ loaders'[a].next = loaders[a].next /\ loaders'[a].chan = loaders[a].chan
          /\ loaders'[a].stage = loaders[a].stage
    BY <1>1 DEF ReadError, Loader
  <2>. QED BY <1>1, <2>1, <2>2 DEF LoaderOK, Loader
<1>. QED BY <1>1, <1>2, AttemptFailsKeeps DEF ReadError

\* The store keeps what it has read when the channel is closed and empty.
LEMMA ReadEndKeeps == IInv /\ ReadEnd => IInv'
BY DEF IInv, ReadEnd, Typed, Fresh, Streamed, Closed, Live, Begins, Waiting

\* Downloads of ProcessBlock only add to what is memoized.
LEMMA PredownloadKeeps ==
  ASSUME IInv, NEW f \in ToSet(Files), Predownload(f)
  PROVE  IInv'
BY DEF IInv, Predownload, Typed, LoaderOK, Fresh, Streamed, Closed, Live, Begins, Waiting

\* A step that changes nothing keeps everything.
LEMMA StutterKeeps == IInv /\ UNCHANGED vars => IInv'
BY DEF IInv, vars, Typed, LoaderOK, Fresh, Streamed, Closed, Live, Begins, Waiting

\* The invariant holds in every state of every behaviour.
THEOREM Invariant == Spec => []IInv
<1>1. IInv /\ [Next]_vars => IInv'
  BY OpenReaderKeeps, OpenFailsKeeps, WriteFailsKeeps, LoaderStepKeeps, ReadKeeps,
     ReadErrorKeeps, ReadEndKeeps, PredownloadKeeps, StutterKeeps DEF Next, StoreStep
<1>. QED BY <1>1, Starts, PTL DEF Spec

-----------------------------------------------------------------------------
(* The properties.                                                         *)

\* A beginning of the bundle, element by element, is a prefix.
LEMMA BeginsIsPrefix ==
  ASSUME NEW s, Begins(s)
  PROVE  IsPrefix(s, Files) /\ ToSet(s) \cap corrupt = {}
<1>. USE Bundle
<1>1. s \in Seq(ToSet(Files)) /\ Len(s) =< Len(Files)
  BY DEF Begins
<1>2. SubSeq(s, 1, Len(s)) = s
  BY <1>1
<1>3. SubSeq(Files, 1, Len(s)) = s
  BY <1>1 DEF Begins
<1>4. ToSet(s) \cap corrupt = {}
  BY <1>1 DEF Begins, ToSet
<1>. QED BY <1>1, <1>2, <1>3, <1>4 DEF IsPrefix

\* What MergeAndStore leaves in the store is a beginning of the bundle, in
\* order, without a block twice and without a corrupt one, however many
\* attempts failed before and whatever their goroutines still do.
THEOREM StoredIsPrefix == Spec => []StoredPrefix
<1>1. IInv => StoredPrefix
  BY BeginsIsPrefix DEF IInv, StoredPrefix
<1>. QED BY <1>1, Invariant, PTL

\* A file shorter than the bundle is stored only where the reader saw the end
\* of the channel before the error of a download of the same attempt.
THEOREM ShortNeedsError == Spec => []ShortOnlyAfterError
<1>1. IInv => ShortOnlyAfterError
  <2>. SUFFICES ASSUME IInv, phase = "stored", stored # Files
                PROVE  loaders[attempt].err
    BY DEF ShortOnlyAfterError
  <2>. USE Bundle
  <2>1. attempt \in 1 .. Attempts /\ LoaderOK(loaders[attempt])
    BY DEF IInv, Typed
  <2>2. /\ Begins(stored) /\ Len(stored) = loaders[attempt].next - 1
    BY <2>1 DEF IInv, Streamed, Closed, Waiting
  <2>3. loaders[attempt].next = Len(Files) + 1 => stored = Files
    BY <2>2 DEF Begins
  <2>. QED BY <2>1, <2>3 DEF IInv, Closed, Live, LoaderOK
<1>. QED BY <1>1, Invariant, PTL

=============================================================================
