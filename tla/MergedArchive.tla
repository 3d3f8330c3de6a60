--------------------------- MODULE MergedArchive ----------------------------
(***************************************************************************)
(* What the merger promises to the readers of its stores, without its      *)
(* threads, its forkable or its restarts (the contract of IOInterface in   *)
(* merger/merger_io.go): the archive of merged files grows one file at a   *)
(* time, without a hole, each file holds exactly the final blocks of its   *)
(* range and is never rewritten, and the one-block file of a final block   *)
(* is reclaimed only after the block is in the archive.                    *)
(***************************************************************************)
EXTENDS Integers

CONSTANTS
  BundleSize,   \* heights per merged file
  FirstBase     \* base height of the first merged file

\* What the theorems ask of the constants.
BundleAssumption == BundleSize \in Nat \ {0} /\ FirstBase \in Nat

VARIABLES
  chain,        \* heights of the final chain
  received,     \* heights whose one-block file was uploaded
  files,        \* heights whose one-block file is in the one-block store
  archive       \* base height -> heights in the merged file

vars == <<chain, received, files, archive>>

Range(b) == {n \in chain : b =< n /\ n < b + BundleSize}

Held(n) == \E b \in DOMAIN archive : n \in archive[b]

Init ==
  /\ chain \subseteq Nat
  /\ \A n \in chain : FirstBase =< n
  /\ received = {} /\ files = {}
  /\ archive = [b \in {} |-> {}]

\* A reader uploads the one-block file of a block of the chain.
Receive(n) ==
  /\ n \in chain \ received
  /\ received' = received \cup {n}
  /\ files' = files \cup {n}
  /\ UNCHANGED <<chain, archive>>

\* The next file in line: the first one, or the one after an existing file.
NextInLine(b) ==
  /\ b \notin DOMAIN archive
  /\ b = FirstBase \/ b - BundleSize \in DOMAIN archive

\* The file is written when all its blocks are there and a later block shows
\* that there will be no other.
Append(b) ==
  /\ NextInLine(b)
  /\ Range(b) \subseteq received
  /\ \E n \in received : n >= b + BundleSize
  /\ archive' = [c \in DOMAIN archive \cup {b} |->
                   IF c = b THEN Range(b) ELSE archive[c]]
  /\ UNCHANGED <<chain, received, files>>

\* The one-block files of archived blocks are deleted, in any order.
Reclaim(n) ==
  /\ n \in files /\ Held(n)
  /\ files' = files \ {n}
  /\ UNCHANGED <<chain, received, archive>>

Next ==
  \/ \E n \in chain : Receive(n)
  \/ \E b \in {FirstBase} \cup {c + BundleSize : c \in DOMAIN archive} : Append(b)
  \/ \E n \in files : Reclaim(n)

Spec == Init /\ [][Next]_vars

-----------------------------------------------------------------------------

\* Every variable has its type.
TypeOK ==
  /\ chain \subseteq Nat
  /\ received \subseteq chain /\ files \subseteq received
  /\ DOMAIN archive \subseteq Nat
  /\ archive \in [DOMAIN archive -> SUBSET Nat]

\* A block that was received can always be read from one of the two stores.
NothingLost == \A n \in received : n \in files \/ Held(n)

\* The files of the archive have no hole between them: below a file there is
\* another one, down to the first.
NoHole ==
  \A b \in DOMAIN archive : b = FirstBase \/ b - BundleSize \in DOMAIN archive

\* No two merged files share a block.
NoDuplicate ==
  \A b, c \in DOMAIN archive : b # c => archive[b] \cap archive[c] = {}

=============================================================================
