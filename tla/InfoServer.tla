----------------------------- MODULE InfoServer -----------------------------
(***************************************************************************)
(* The answer to "which chain is this": firehose/info.  Several            *)
(* applications of a process share one server and each calls Init; the     *)
(* first call looks for the first streamable block in three places at      *)
(* once, fills the answer from it and checks it against the chains that    *)
(* are known.                                                              *)
(*                                                                         *)
(* Names, block ids and encodings are values of small sets, "" is the      *)
(* empty one.  A chain is [name, aliases, genesisNum, genesisId], a        *)
(* protocol [blockType, encoding, chains], the first streamable block      *)
(* [num, id, type].                                                        *)
(***************************************************************************)
EXTENDS Naturals, FiniteSets

CONSTANTS
    Clients,     \* the objects that may call Init
    Protocols,   \* WellKnownProtocols
    DetailType   \* the block type that needs a detail level among the features

Sources == {"hub", "merged", "oneblock"}
Known == UNION {p.chains : p \in Protocols}

ASSUME InfoAssumption ==
    /\ 0 \notin Clients
    /\ \A c, d \in Known : c.name = d.name => c = d

VARIABLES
    config,     \* the flags, and the block there is: 
                \* [live, validate, chain, encoding, detail, block], live when there is a hub
    infoLock,   \* the client inside Init, 0 if none
    initDone, initError,
    initResult, \* what Init returned to each client
    fetch,      \* the goroutine that looks in each source, "gone" once its context is done
    filling,    \* the goroutine that fills the answer without a check
    response,   \* [chain, encoding, blockId]
    closed      \* how often `ready` was closed

infoVars == <<config, infoLock, initDone, initError, initResult, fetch, filling,
              response, closed>>

InfoReady == closed > 0

-----------------------------------------------------------------------------
ChainByName(name) == {c \in Known : name = c.name \/ name \in c.aliases}
ChainByGenesisBlock(num, id) == {c \in Known : c.genesisNum = num /\ c.genesisId = id}

\* resp with the canonical name of a chain, when there is one
Named(resp, found) ==
    IF found = {} THEN resp ELSE [resp EXCEPT !.chain = (CHOOSE c \in found : TRUE).name]

\* DefaultInfoResponseFiller: the answer, and whether it is consistent
Filled(resp, blk, validate) ==
    LET types == {p \in Protocols : p.blockType = blk.type}
        seen == [resp EXCEPT !.blockId = blk.id,
                             !.encoding = IF types = {} THEN @ ELSE (CHOOSE p \in types : TRUE).encoding]
        genesis == ChainByGenesisBlock(blk.num, blk.id)
    IN  IF resp.chain = "" THEN Named(seen, genesis)
        ELSE IF validate THEN Named(seen, ChainByName(resp.chain))
        ELSE seen

Consistent(resp, blk) ==
    /\ \A c \in ChainByName(resp.chain) : c.genesisNum = blk.num => c.genesisId = blk.id
    /\ resp.chain # "" /\ ChainByName(resp.chain) = {} => ChainByGenesisBlock(blk.num, blk.id) = {}
    /\ blk.type = DetailType => config.detail

\* validateInfoResponse
Complete(resp) == resp.chain # "" /\ resp.encoding # "" /\ resp.blockId # ""

-----------------------------------------------------------------------------
InfoInit(conf) ==
    /\ config = conf
    /\ infoLock = 0
    /\ initDone = FALSE /\ initError = FALSE
    /\ initResult = [o \in Clients |-> "none"]
    /\ fetch = [s \in Sources |-> "none"]
    /\ filling = "none"
    /\ response = [chain |-> config.chain, encoding |-> config.encoding, blockId |-> ""]
    /\ closed = 0

\* A client calls Init; the call waits for the lock.
InitCalled(o) ==
    /\ initResult' = [initResult EXCEPT ![o] = "called"]
    /\ UNCHANGED <<config, infoLock, initDone, initError, fetch, filling, response, closed>>

\* Mutant: initDone is kept, the error is not.
LaterInitOk(o) ==
    /\ initResult[o] = "called" /\ infoLock = 0 /\ initDone
    /\ initResult' = [initResult EXCEPT ![o] = "ok"]
    /\ UNCHANGED <<config, infoLock, initDone, initError, fetch, filling, response, closed>>

\* Init, with the lock free: the answer of the first call is kept for the others.
LaterInit(o) ==
    /\ initResult[o] = "called" /\ infoLock = 0 /\ initDone
    /\ initResult' = [initResult EXCEPT ![o] = IF initError THEN "failed" ELSE "ok"]
    /\ UNCHANGED <<config, infoLock, initDone, initError, fetch, filling, response, closed>>

\* Mutant: initDone is not looked at.
EveryInit(o) ==
    /\ initResult[o] = "called" /\ infoLock = 0
    /\ fetch' = [s \in Sources |-> IF s = "hub" /\ ~config.live THEN "none" ELSE "looking"]
    /\ \/ /\ config.validate
          /\ infoLock' = o
          /\ UNCHANGED <<initDone, initResult, filling>>
       \/ /\ ~config.validate
          /\ filling' = "waiting"
          /\ initDone' = TRUE
          /\ initResult' = [initResult EXCEPT ![o] = "ok"]
          /\ UNCHANGED infoLock
    /\ UNCHANGED <<config, initError, response, closed>>

\* The first call starts the goroutines, and waits for them only if it has to validate.
FirstInit(o) ==
    /\ initResult[o] = "called" /\ infoLock = 0 /\ ~initDone
    /\ fetch' = [s \in Sources |-> IF s = "hub" /\ ~config.live THEN "none" ELSE "looking"]
    /\ \/ /\ config.validate
          /\ infoLock' = o
          /\ UNCHANGED <<initDone, initResult, filling>>
       \/ /\ ~config.validate
          /\ filling' = "waiting"
          /\ initDone' = TRUE
          /\ initResult' = [initResult EXCEPT ![o] = "ok"]
          /\ UNCHANGED infoLock
    /\ UNCHANGED <<config, initError, response, closed>>

\* getBlockFrom...: each retries until its source has the block or the context is done.  The
\* first that has it meets the reader of the channel; the others see the context and leave.
GetBlock(s) ==
    /\ fetch[s] = "looking" /\ \A t \in Sources : fetch[t] # "found"
    /\ fetch' = [fetch EXCEPT ![s] = "found"]
    /\ UNCHANGED <<config, infoLock, initDone, initError, initResult, filling, response, closed>>

ContextDone == fetch' = [s \in Sources |-> IF fetch[s] = "none" THEN "none" ELSE "gone"]

\* Mutant: without the deferred Unlock.
EndInitLocked(ok) ==
    /\ initDone' = TRUE
    /\ initError' = ~ok
    /\ initResult' = [initResult EXCEPT ![infoLock] = IF ok THEN "ok" ELSE "failed"]
    /\ closed' = IF ok THEN closed + 1 ELSE closed
    /\ UNCHANGED infoLock
    /\ ContextDone

\* The end of the first call: its error stays, the context is cancelled.
EndInit(ok) ==
    /\ initDone' = TRUE
    /\ initError' = ~ok
    /\ initResult' = [initResult EXCEPT ![infoLock] = IF ok THEN "ok" ELSE "failed"]
    /\ closed' = IF ok THEN closed + 1 ELSE closed
    /\ infoLock' = 0
    /\ ContextDone

\* The select of init: a block arrives, is filled in and checked; or the three minutes are over.
ReceiveBlock(s) ==
    /\ infoLock # 0 /\ fetch[s] = "found"
    /\ response' = Filled(response, config.block, TRUE)
    /\ EndInit(Consistent(response, config.block) /\ Complete(response'))
    /\ UNCHANGED <<config, filling>>

InitTimesOut ==
    /\ infoLock # 0
    /\ EndInit(FALSE)
    /\ UNCHANGED <<config, filling, response>>

\* Without validation a goroutine fills what it can, and is ready in any case: when a block
\* came, or when the caller's context is done.
FillBlock ==
    /\ filling = "waiting"
    /\ response' \in {response} \cup
            (IF \E s \in Sources : fetch[s] = "found" THEN {Filled(response, config.block, FALSE)} ELSE {})
    /\ filling' = "done"
    /\ closed' = closed + 1
    /\ ContextDone
    /\ UNCHANGED <<config, infoLock, initDone, initError, initResult>>

InfoStep ==
    \/ \E o \in Clients : LaterInit(o) \/ FirstInit(o)
    \/ \E s \in Sources : ReceiveBlock(s)
    \/ InitTimesOut \/ FillBlock
=============================================================================
