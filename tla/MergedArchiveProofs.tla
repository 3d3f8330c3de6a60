------------------------ MODULE MergedArchiveProofs -------------------------
(***************************************************************************)
(* Proofs about the abstract archive.                                      *)
(***************************************************************************)
EXTENDS MergedArchive, TLAPS

\* A file of the archive holds exactly the final blocks of its range.
Exact == \A b \in DOMAIN archive : archive[b] = Range(b)

\* The bases of the archive are one bundle apart, counted from the first.
Aligned ==
  \A b \in DOMAIN archive :
    \E k \in Nat : b = FirstBase + k * BundleSize

IInv == BundleAssumption /\ TypeOK /\ Exact /\ Aligned /\ NothingLost /\ NoHole

\* One more bundle.
LEMMA NextMultiple ==
  ASSUME NEW k \in Nat, NEW s \in Nat
  PROVE  (k + 1) * s = k * s + s
OBVIOUS

\* The types, the contents of the files and the two stores between them.
LEMMA ArchiveInductive == BundleAssumption /\ Spec => []IInv
<1>. USE DEF BundleAssumption
<1>1. BundleAssumption /\ Init => IInv
  BY DEF Init, IInv, TypeOK, Exact, Aligned, NothingLost, NoHole
<1>2. IInv /\ [Next]_vars => IInv'
  <2> SUFFICES ASSUME IInv, [Next]_vars PROVE IInv'
    OBVIOUS
  <2>. USE DEF IInv, TypeOK
  <2>1. ASSUME NEW n \in chain, Receive(n) PROVE IInv'
    BY <2>1 DEF Receive, Exact, Range, Aligned, NothingLost, Held, NoHole
  <2>2. ASSUME NEW b \in {FirstBase} \cup {c + BundleSize : c \in DOMAIN archive},
               Append(b)
        PROVE  IInv'
    <3>1. b \in Nat /\ DOMAIN archive' = DOMAIN archive \cup {b}
      BY <2>2 DEF Append
    <3>2. \A c \in DOMAIN archive' :
            archive'[c] = IF c = b THEN Range(b) ELSE archive[c]
      BY <2>2, <3>1 DEF Append
    <3>3. chain' = chain /\ received' = received /\ files' = files
      BY <2>2 DEF Append
    <3>4. TypeOK'
      <4>1. \A c \in DOMAIN archive' : archive'[c] \in SUBSET Nat
        BY <3>1, <3>2 DEF Range
      <4>2. archive' = [c \in DOMAIN archive' |-> archive'[c]]
        BY <2>2, <3>1 DEF Append
      <4>. QED BY <3>1, <3>3, <4>1, <4>2
    <3>5. Exact'
      BY <3>1, <3>2, <3>3 DEF Exact, Range
    <3>6. Aligned'
      <4>1. CASE b = FirstBase
        <5>1. b = FirstBase + 0 * BundleSize
          BY <4>1
        <5>. QED BY <5>1, <3>1 DEF Aligned
      <4>2. ASSUME NEW c \in DOMAIN archive, b = c + BundleSize
            PROVE  Aligned'
        <5>1. PICK k \in Nat : c = FirstBase + k * BundleSize
          BY DEF Aligned
        <5>2. b = FirstBase + (k + 1) * BundleSize /\ k + 1 \in Nat
          <6>1. (k + 1) * BundleSize = k * BundleSize + BundleSize
            BY NextMultiple
          <6>2. k * BundleSize \in Nat
            OBVIOUS
          <6>. QED BY <4>2, <5>1, <6>1, <6>2
        <5>. QED BY <5>2, <3>1 DEF Aligned
      <4>. QED BY <4>1, <4>2
    <3>7. NothingLost'
      BY <3>1, <3>2, <3>3, <2>2 DEF NothingLost, Held, Append, NextInLine
    <3>8. NoHole'
      BY <3>1, <2>2 DEF NoHole, Append, NextInLine
    <3>. QED BY <3>4, <3>5, <3>6, <3>7, <3>8
  <2>3. ASSUME NEW n \in files, Reclaim(n) PROVE IInv'
    BY <2>3 DEF Reclaim, Exact, Range, Aligned, NothingLost, Held, NoHole
  <2>4. CASE UNCHANGED vars
    BY <2>4 DEF vars, Exact, Range, Aligned, NothingLost, Held, NoHole
  <2>. QED BY <2>1, <2>2, <2>3, <2>4 DEF Next
<1>. QED BY <1>1, <1>2, PTL DEF Spec

\* A block that was received can be read from the one-block store or from a
\* merged file at every moment.
THEOREM ArchiveLosesNothing == BundleAssumption /\ Spec => []NothingLost
BY ArchiveInductive, PTL DEF IInv

\* The merged files follow each other without a hole.
THEOREM ArchiveHasNoHole == BundleAssumption /\ Spec => []NoHole
BY ArchiveInductive, PTL DEF IInv

\* Two distinct bases are at least a bundle apart.
LEMMA BasesApart ==
  ASSUME BundleAssumption, DOMAIN archive \subseteq Nat, Aligned,
         NEW b \in DOMAIN archive, NEW c \in DOMAIN archive, b < c
  PROVE  b + BundleSize =< c
<1>1. PICK j \in Nat : b = FirstBase + j * BundleSize
  BY DEF Aligned
<1>2. PICK k \in Nat : c = FirstBase + k * BundleSize
  BY DEF Aligned
<1>3. j + 1 =< k
  BY <1>1, <1>2 DEF BundleAssumption
<1>4. (j + 1) * BundleSize =< k * BundleSize
  BY <1>3 DEF BundleAssumption
<1>. QED BY <1>1, <1>2, <1>4 DEF BundleAssumption

\* No block is in two merged files.
THEOREM ArchiveHasNoDuplicate == BundleAssumption /\ Spec => []NoDuplicate
<1>1. IInv => NoDuplicate
  <2> SUFFICES ASSUME IInv,
                      NEW b \in DOMAIN archive, NEW c \in DOMAIN archive, b # c
               PROVE  archive[b] \cap archive[c] = {}
    BY DEF NoDuplicate
  <2>1. b \in Nat /\ c \in Nat
    BY DEF IInv, TypeOK
  <2>2. b + BundleSize =< c \/ c + BundleSize =< b
    BY <2>1, BasesApart DEF IInv, TypeOK
  <2>. QED BY <2>1, <2>2 DEF BundleAssumption, IInv, Exact, Range, TypeOK
<1>. QED BY <1>1, ArchiveInductive, PTL

=============================================================================
