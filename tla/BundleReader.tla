---------------------------- MODULE BundleReader ----------------------------
(***************************************************************************)
(* One call of DStoreIO.MergeAndStore (merger/merger_io.go) with the       *)
(* BundleReader it gives to the store (merger/bundlereader.go): each       *)
(* attempt starts a goroutine that downloads the one-block files in turn   *)
(* and sends them on a channel of one, next to a channel of one error,     *)
(* while the store reads the bundle to its end.                            *)
(*                                                                         *)
(* Module Merger takes the whole call as one write.  An attempt that fails *)
(* leaves its goroutine behind.                                            *)
(***************************************************************************)
EXTENDS Naturals, Sequences, FiniteSets, SequencesExt

CONSTANTS
  Files,       \* filteredOBF: the one-block files to merge, in order
  AnyFile,     \* anyOneBlockFile, the one whose header is used
  CorruptSets, \* the sets of files whose data may be shorter than a header
  Attempts,    \* retryAttempts
  NoBundle,    \* nothing is stored
  MaxFailures  \* bound on failing downloads and writes

ASSUME BundleReaderAssumption ==
  /\ Files \in Seq(ToSet(Files)) /\ IsInjective(Files)
  /\ Attempts \in Nat \ {0} /\ MaxFailures \in Nat
  /\ CorruptSets \subseteq SUBSET (ToSet(Files) \cup {AnyFile})
  /\ NoBundle \notin {SubSeq(Files, 1, n) : n \in 0 .. Len(Files)}

VARIABLES
  phase,      \* where MergeAndStore is
  attempt,    \* which attempt of Retry
  loaders,    \* the goroutine of each attempt
  written,    \* what the store has read in this attempt
  stored,     \* the merged file
  memo,       \* the files whose MemoizeData is set
  corrupt,    \* the files whose data is empty or shorter than a header
  failures

vars == <<phase, attempt, loaders, written, stored, memo, corrupt, failures>>

NotStarted == [stage |-> "none", next |-> 1, chan |-> <<>>, err |-> FALSE]

Init ==
  /\ phase = "open" /\ attempt = 1
  /\ loaders = [a \in 1 .. Attempts |-> NotStarted]
  /\ written = <<>> /\ stored = NoBundle /\ memo = {} /\ failures = 0
  /\ corrupt \in CorruptSets

MayFail == failures < MaxFailures /\ failures' = failures + 1

-----------------------------------------------------------------------------
(* MergeAndStore.                                                          *)

\* NewBundleReader has the header.
OpenReader ==
  /\ phase = "open" /\ AnyFile \notin corrupt
  /\ memo' = memo \cup {AnyFile}
  /\ loaders' = [loaders EXCEPT ![attempt].stage = "load"]
  /\ written' = <<>> /\ phase' = "write"
  /\ UNCHANGED <<corrupt, attempt, stored, failures>>

\* An attempt that fails is tried again, a bounded number of times.
AttemptFails ==
  /\ phase' = IF attempt = Attempts THEN "failed" ELSE "open"
  /\ attempt' = IF attempt = Attempts THEN attempt ELSE attempt + 1

OpenFails ==
  /\ phase = "open"
  /\ \/ AnyFile \in corrupt /\ UNCHANGED failures
     \/ AnyFile \notin memo /\ MayFail
  /\ AttemptFails
  /\ UNCHANGED <<corrupt, loaders, written, stored, memo>>

\* The store refuses the object, or its context times out.
WriteFails ==
  /\ phase = "write" /\ MayFail /\ AttemptFails
  /\ UNCHANGED <<corrupt, loaders, written, stored, memo>>

-----------------------------------------------------------------------------
(* downloadAll, in the goroutine of attempt a.                             *)

\* The data is there already or gets downloaded.
Load(a) ==
  /\ loaders[a].stage = "load" /\ loaders[a].next =< Len(Files)
  /\ memo' = memo \cup {Files[loaders[a].next]}
  /\ loaders' = [loaders EXCEPT ![a].stage = "send"]
  /\ UNCHANGED <<corrupt, phase, attempt, written, stored, failures>>

LoadFails(a) ==
  /\ loaders[a].stage = "load" /\ loaders[a].next =< Len(Files)
  /\ Files[loaders[a].next] \notin memo /\ MayFail
  /\ loaders' = [loaders EXCEPT ![a].stage = "close", ![a].err = TRUE]
  /\ UNCHANGED <<corrupt, phase, attempt, written, stored, memo>>

Send(a) ==
  /\ loaders[a].stage = "send" /\ loaders[a].chan = <<>>
  /\ loaders' = [loaders EXCEPT ![a].stage = "load", ![a].next = @ + 1,
                                ![a].chan = <<Files[loaders[a].next]>>]
  /\ UNCHANGED <<corrupt, phase, attempt, written, stored, memo, failures>>

ClosesOnError(a) ==
  /\ loaders[a].stage = "close"
  /\ loaders' = [loaders EXCEPT ![a].stage = "closed"]
  /\ UNCHANGED <<corrupt, phase, attempt, written, stored, memo, failures>>

\* defer close(r.oneBlockDataChan)
CloseChan(a) ==
  /\ \/ loaders[a].stage = "close"
     \/ loaders[a].stage = "load" /\ loaders[a].next > Len(Files)
  /\ loaders' = [loaders EXCEPT ![a].stage = "closed"]
  /\ UNCHANGED <<corrupt, phase, attempt, written, stored, memo, failures>>

LoaderStep(a) == Load(a) \/ Send(a) \/ CloseChan(a)

-----------------------------------------------------------------------------
(* fillBuffer, called by Read when the store wants more.                   *)

ReadUnchecked ==
  /\ phase = "write" /\ loaders[attempt].chan # <<>>
  /\ written' = written \o loaders[attempt].chan
  /\ loaders' = [loaders EXCEPT ![attempt].chan = <<>>]
  /\ UNCHANGED <<corrupt, phase, attempt, stored, memo, failures>>

ReadData ==
  /\ phase = "write" /\ loaders[attempt].chan # <<>>
  /\ Head(loaders[attempt].chan) \notin corrupt
  /\ written' = written \o loaders[attempt].chan
  /\ loaders' = [loaders EXCEPT ![attempt].chan = <<>>]
  /\ UNCHANGED <<corrupt, phase, attempt, stored, memo, failures>>

ReadCorrupt ==
  /\ phase = "write" /\ loaders[attempt].chan # <<>>
  /\ Head(loaders[attempt].chan) \in corrupt
  /\ loaders' = [loaders EXCEPT ![attempt].chan = <<>>]
  /\ AttemptFails
  /\ UNCHANGED <<corrupt, written, stored, memo, failures>>

\* The select may take the error before data that was sent earlier.
ReadError ==
  /\ phase = "write" /\ loaders[attempt].err
  /\ loaders' = [loaders EXCEPT ![attempt].err = FALSE]
  /\ AttemptFails
  /\ UNCHANGED <<corrupt, written, stored, memo, failures>>

EndsUnclosed ==
  /\ phase = "write" /\ loaders[attempt].chan = <<>>
  /\ stored' = written /\ phase' = "stored"
  /\ UNCHANGED <<corrupt, attempt, loaders, written, memo, failures>>

\* The channel is closed and empty: io.EOF, and the store keeps the object.
\* The select may take it before an error that is there as well.
ReadEnd ==
  /\ phase = "write" /\ loaders[attempt].stage = "closed"
  /\ loaders[attempt].chan = <<>>
  /\ stored' = written /\ phase' = "stored"
  /\ UNCHANGED <<corrupt, attempt, loaders, written, memo, failures>>

\* ProcessBlock has started to download each file when it came.
Predownload(f) ==
  /\ f \notin memo /\ memo' = memo \cup {f}
  /\ UNCHANGED <<corrupt, phase, attempt, loaders, written, stored, failures>>

StoreStep ==
  OpenReader \/ OpenFails \/ ReadData \/ ReadCorrupt \/ ReadError \/ ReadEnd

Next ==
  \/ StoreStep \/ WriteFails
  \/ \E a \in 1 .. Attempts : LoaderStep(a) \/ LoadFails(a)
  \/ \E f \in ToSet(Files) : Predownload(f)

Spec == Init /\ [][Next]_vars

\* The store reads on and the goroutines run.
FairSpec ==
  Spec /\ WF_vars(StoreStep) /\ \A a \in 1 .. Attempts : WF_vars(LoaderStep(a))

-----------------------------------------------------------------------------
(* Properties.                                                             *)

\* Every variable has its type.
TypeOK ==
  /\ phase \in {"open", "write", "stored", "failed"}
  /\ attempt \in 1 .. Attempts
  /\ \A a \in 1 .. Attempts :
       /\ loaders[a].stage \in {"none", "load", "send", "close", "closed"}
       /\ loaders[a].next \in 1 .. Len(Files) + 1
       /\ Len(loaders[a].chan) =< 1 /\ loaders[a].err \in BOOLEAN
  /\ corrupt \subseteq ToSet(Files) \cup {AnyFile}
  /\ memo \subseteq ToSet(Files) \cup {AnyFile}

\* What is stored is a beginning of the bundle, in order, without a block twice
\* and without a corrupt one, whatever earlier attempts left behind.
StoredPrefix ==
  stored # NoBundle => IsPrefix(stored, Files) /\ ToSet(stored) \cap corrupt = {}

\* A short file needs a failed download in the very attempt that stored it.
ShortOnlyAfterError ==
  phase = "stored" /\ stored # Files => loaders[attempt].err

\* The call returns, with a file or an error: the reader is not left waiting.
CallEnds == <>(phase \in {"stored", "failed"})

=============================================================================
