----------------------------- MODULE BlockRanges -----------------------------
(***************************************************************************)
(* Ranges of blocks and names of merged files: package types and           *)
(* WalkBlockPrefix of the tools.  Operators only.                          *)
(*                                                                         *)
(* The argument of a range is [before, colon, after], each side Blank,     *)
(* Junk or a number with or without a plus sign.  The name of a merged     *)
(* file is its base height in `Width` digits of base `Radix` (ten digits   *)
(* of base ten in the code, where BundleSize is 100).                      *)
(***************************************************************************)
EXTENDS Integers, Sequences

CONSTANTS BundleSize, FirstStreamable, Radix, Width

ASSUME RangeAssumption ==
    /\ BundleSize \in Nat \ {0} /\ FirstStreamable \in Nat
    /\ Radix \in Nat \ {0, 1} /\ Width \in Nat \ {0}

RoundToBundleStartBlock(n) == n - (n % BundleSize)
RoundToBundleEndBlock(n) == RoundToBundleStartBlock(n) + BundleSize - 1

-----------------------------------------------------------------------------
(* A range is [start, stop]; a negative start counts from the head. *)
NoStop == -1
MaxBlockNum == Radix ^ Width

OpenRange(start) == [start |-> start, stop |-> NoStop]
ClosedRange(start, stop) == [start |-> start, stop |-> stop]
IsOpen(r) == r.stop = NoStop
IsResolved(r) == r.start >= 0 /\ ~IsOpen(r)
StopOr(r, default) == IF IsOpen(r) THEN default ELSE r.stop

\* n < uint64(r.Start): a negative start is a huge number there.
Before(n, r) == r.start < 0 \/ n < r.start

\* Contains, with the end excluded
Holds(r, n) == ~Before(n, r) /\ (IsOpen(r) \/ n < r.stop)

\* Split: the pieces end at multiples of the size
Split(r, size) ==
    LET cuts == {n \in r.start + 1 .. r.stop - 1 : n % size = 0}
        ends == cuts \cup {r.stop}
        From(e) == IF \E c \in cuts : c < e
                   THEN CHOOSE c \in cuts : c < e /\ \A d \in cuts : d < e => d <= c
                   ELSE r.start
    IN  {ClosedRange(From(e), e) : e \in ends}

-----------------------------------------------------------------------------
(* Parsing *)
Blank == [kind |-> "blank", plus |-> FALSE, value |-> 0]
Junk == [kind |-> "junk", plus |-> FALSE, value |-> 0]
Number(n) == [kind |-> "number", plus |-> FALSE, value |-> n]
Plus(n) == [kind |-> "number", plus |-> TRUE, value |-> n]

Single(n) == [before |-> n, colon |-> FALSE, after |-> Blank]
Pair(n, m) == [before |-> n, colon |-> TRUE, after |-> m]

\* ParseBlockRangeDefault: the ranges that the argument means, none if it is refused.
ParseBlockRange(arg, default) ==
    LET start == IF arg.before = Blank THEN FirstStreamable ELSE arg.before.value
        stop == IF arg.after.plus THEN start + arg.after.value ELSE arg.after.value
    IN  IF arg = Single(Blank) THEN {default}
        ELSE IF Junk \in {arg.before, arg.after} \/ arg.before.plus THEN {}
        ELSE IF arg.after = Blank THEN {OpenRange(start)}
        ELSE IF start < 0 /\ arg.after.plus THEN {}
        ELSE IF arg.after.value = -1 THEN {OpenRange(start)}
        ELSE IF arg.after.value < 0 \/ (start >= 0 /\ start > stop) THEN {}
        ELSE {ClosedRange(start, stop)}

-----------------------------------------------------------------------------
(* Names of files *)
NameDigits(n) == [i \in 1..Width |-> (n \div Radix ^ (Width - i)) % Radix]

\* Mutant: the first digit in which the names differ is part of the prefix.
DigitsUpToDifference(a, b) == CHOOSE k \in 1..Width : (k = Width \/ a[k] # b[k]) /\ \A i \in 1..k - 1 : a[i] = b[i]

\* How many digits two names begin with in common
CommonDigits(a, b) == CHOOSE k \in 0..Width : (k = Width \/ a[k + 1] # b[k + 1]) /\ \A i \in 1..k : a[i] = b[i]

\* WalkBlockPrefix: what the names of the first file and of the one after the last have in common
WalkBlockPrefix(r) ==
    LET first == NameDigits(RoundToBundleStartBlock(r.start))
        end == NameDigits(RoundToBundleEndBlock(r.stop - 1) + 1)
    IN  IF IsOpen(r) \/ r.start < 0 THEN <<>> ELSE SubSeq(first, 1, CommonDigits(first, end))

HasPrefix(base, prefix) == SubSeq(NameDigits(base), 1, Len(prefix)) = prefix
=============================================================================
