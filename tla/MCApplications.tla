--------------------------- MODULE MCApplications ---------------------------
(* Command lines, chains and flags for the checks of Applications. *)
EXTENDS Applications

MCAlphabet == <<"firehose", "index-builder", "merger", "relayer", "substreams-tier1", "typo">>
MCRegistry == {"firehose", "index-builder", "merger", "relayer", "substreams-tier1"}
MCOnRequest == {"merger"}
MCKind == [a \in MCRegistry |->
    CASE a = "index-builder" -> "indexer"
      [] a \in {"firehose", "substreams-tier1"} -> "firehose"
      [] OTHER -> a]
MCSlots == 1..2

All == [op |-> "all", app |-> ""]
Add(a) == [op |-> "add", app |-> a]
Without(a) == [op |-> "remove", app |-> a]

\* Two known chains; the second starts late.
MCProtocols == {
    [blockType |-> "eth", encoding |-> "hex",
     chains |-> {[name |-> "mainnet", aliases |-> {"ethereum"}, genesisNum |-> 0, genesisId |-> "g0"]}],
    [blockType |-> "other", encoding |-> "base58",
     chains |-> {[name |-> "late", aliases |-> {}, genesisNum |-> 7, genesisId |-> "g7"]}] }

Genesis == [num |-> 0, id |-> "g0", type |-> "eth"]
Stranger == [num |-> 0, id |-> "x0", type |-> "eth"]
Unheard == [num |-> 3, id |-> "x3", type |-> "new"]

Flags(live, validate, chain, encoding, detail, block) ==
    [live |-> live, validate |-> validate, chain |-> chain, encoding |-> encoding,
     detail |-> detail, block |-> block]
OneChain == Flags(FALSE, TRUE, "ethereum", "", TRUE, Genesis)
OtherChain == Flags(FALSE, TRUE, "mainnet", "", TRUE, Stranger)
Nameless == Flags(TRUE, TRUE, "", "hex", FALSE, Unheard)
Unchecked == Flags(TRUE, FALSE, "", "", FALSE, Genesis)

BothServers == <<All, Without("index-builder"), Without("relayer")>>
Line(args, flags, failures) == [args |-> args, flags |-> flags, failures |-> failures]

MCCommandLines == {
    Line(BothServers, OneChain, 0), Line(BothServers, OtherChain, 0),
    Line(<<Add("firehose")>>, Nameless, 1), Line(<<Add("firehose"), Add("merger")>>, Unchecked, 0),
    Line(<<Add("relayer"), Add("index-builder")>>, Unchecked, 1),
    Line(<<Add("merger"), Add("merger")>>, Unchecked, 1),
    Line(<<Add("merger"), Add("typo")>>, Unchecked, 0),
    Line(<<Without("merger")>>, Unchecked, 0) }
=============================================================================
