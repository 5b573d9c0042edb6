---------------------------- MODULE BlockDownload ----------------------------
(***************************************************************************)
(* Downloading headers and blocks from several peers (net_processing.cpp): *)
(* which peer is asked for headers, which blocks are in flight from whom,  *)
(* and the timeouts that take a block away from a peer that does not       *)
(* deliver it.                                                             *)
(*                                                                         *)
(* One thread, ThreadMessageHandler, serves the peers in turn: it handles  *)
(* a message of the peer and then sends to it.  The socket thread removes  *)
(* the peers that are to be disconnected, at any time.  Time is kept as    *)
(* the age of each timer, which stops growing once it has expired.         *)
(*                                                                         *)
(* Every block has the same work, so that the work of a chain is its       *)
(* length; nMinimumChainWork is 0 and peers serve witnesses.  A peer may   *)
(* reach a ban score by several messages, or by some that are left out     *)
(* here: Leave covers it.                                                  *)
(***************************************************************************)
EXTENDS Integers, FiniteSets, Sequences, Functions

CONSTANTS Peer,          \* NodeIds, 1 .. n
          Block, Genesis, None,
          Parent,        \* hashPrevBlock of the other blocks
          nHeight,       \* the height of each block
          PeerTip,       \* the last block of each peer's chain
          Invalid,       \* blocks that ConnectBlock refuses
          Refused,       \* blocks that ContextualCheckBlock refuses
          Malformed,     \* blocks that CheckBlock refuses, whoever sends them
          RecentHeight,  \* blocks from this height on are less than a day old
          Outbound,      \* peers this node has connected to
          Prompt,        \* peers that answer what they are asked, and only that
          BLOCK_DOWNLOAD_WINDOW, MAX_BLOCKS_IN_TRANSIT_PER_PEER,
          BLOCK_STALLING_TIMEOUT, HEADERS_DOWNLOAD_TIMEOUT,
          BLOCK_DOWNLOAD_TIMEOUT_BASE, BLOCK_DOWNLOAD_TIMEOUT_PER_PEER,
          CHAIN_SYNC_TIMEOUT, HEADERS_RESPONSE_TIME,
          MAX_OUTBOUND_PEERS_TO_PROTECT_FROM_DISCONNECT,
          MIN_BLOCKS_TO_KEEP, MAX_HEADERS_RESULTS, MAX_BLOCKS_TO_ANNOUNCE

ASSUME DownloadAssumption ==
    /\ IsFiniteSet(Peer) /\ Cardinality(Peer) > 0 /\ Peer = 1 .. Cardinality(Peer)
    /\ Genesis \in Block /\ None \notin Block
    /\ Parent \in [Block \ {Genesis} -> Block]
    /\ nHeight \in [Block -> Nat] /\ nHeight[Genesis] = 0
    /\ \A b \in Block \ {Genesis} : nHeight[b] = nHeight[Parent[b]] + 1
    /\ PeerTip \in [Peer -> Block]
    /\ Prompt \subseteq Peer /\ Outbound \subseteq Peer /\ RecentHeight \in Nat
    /\ BLOCK_DOWNLOAD_WINDOW \in Nat /\ MAX_BLOCKS_IN_TRANSIT_PER_PEER \in Nat
    /\ BLOCK_STALLING_TIMEOUT \in Nat /\ HEADERS_DOWNLOAD_TIMEOUT \in Nat
    /\ BLOCK_DOWNLOAD_TIMEOUT_BASE \in Nat /\ BLOCK_DOWNLOAD_TIMEOUT_PER_PEER \in Nat
    /\ CHAIN_SYNC_TIMEOUT \in Nat /\ HEADERS_RESPONSE_TIME \in Nat

(* The blocks up to b.                                                     *)
Chain[b \in Block] == {b} \cup (IF b = Genesis THEN {} ELSE Chain[Parent[b]])
GetAncestor(b, h) == CHOOSE c \in Chain[b] : nHeight[c] = h

VARIABLES
    main,        \* what cs_main guards, see Init
    turn, phase, \* the peer served, and whether it is read from or sent to,
                 \* or that the process has been aborted
    whitelisted  \* the peers that are never punished (fixed at the start)

vars == <<main, turn, phase, whitelisted>>

MaxAge == BLOCK_DOWNLOAD_TIMEOUT_BASE
             + BLOCK_DOWNLOAD_TIMEOUT_PER_PEER * (Cardinality(Peer) - 1) + 1

(* ChainSyncTimeoutState: the age of m_timeout, -1 when that is 0, and the *)
(* other fields.                                                           *)
NoChainSync == [age |-> -1, m_work_header |-> None, m_sent_getheaders |-> FALSE,
                m_protect |-> FALSE]

NewNode ==
    [st |-> "new",        \* then "on", "doomed" (fDisconnect) and "gone"
     best |-> None,       \* pindexBestKnownBlock
     unknown |-> None,    \* hashLastUnknownBlock
     common |-> None,     \* pindexLastCommonBlock
     queue |-> <<>>,      \* vBlocksInFlight: the block, and its partialBlock
     stalling |-> -1,     \* age of nStallingSince, -1 when that is 0
     since |-> 0,         \* age of nDownloadingSince
     sync |-> FALSE,      \* fSyncStarted
     hdr |-> -1,          \* age of the headers request, -1 when not timed
     m_chain_sync |-> NoChainSync,
     asked |-> FALSE]     \* a getheaders a prompt peer has yet to answer

Init ==
    /\ main = [known |-> {Genesis},      \* mapBlockIndex
               data |-> {Genesis},       \* BLOCK_HAVE_DATA
               failed |-> {},            \* BLOCK_FAILED_MASK
               tip |-> Genesis,          \* chainActive.Tip()
               ibd |-> RecentHeight > 0, \* IsInitialBlockDownload
               node |-> [p \in Peer |-> NewNode],
               inFlight |-> <<>>,        \* mapBlocksInFlight
               nDownloads |-> 0,         \* nPeersWithValidatedDownloads
               nSyncStarted |-> 0]
    /\ turn = 1 /\ phase = "process"
    /\ whitelisted \in SUBSET (Peer \ Prompt)

-----------------------------------------------------------------------------
(* The operators below map a state S of main to the one the code leaves.   *)

(* mapNodeState, and the peers that blocks are best fetched from.          *)
Nodes(S) == {p \in Peer : S.node[p].st \in {"on", "doomed"}}
Preferred(S) == {p \in Nodes(S) : p \in Outbound \cup whitelisted}
fFetch(S, p) == p \in Preferred(S) \/ Preferred(S) = {}

(* Misbehaving with a score that bans: the peer is dropped before anything *)
(* else is sent to it, unless it is whitelisted.                           *)
Misbehaving(S, p) ==
    IF p \in whitelisted THEN S ELSE [S EXCEPT !.node[p].st = "doomed"]

(* erase at the iterator that mapBlocksInFlight has for the block.         *)
Erased(q, b) ==
    LET it == CHOOSE i \in DOMAIN q : q[i].block = b
    IN  [i \in 1 .. Len(q) - 1 |-> IF i < it THEN q[i] ELSE q[i + 1]]

MarkBlockAsReceived(S, b) ==
    IF b \notin DOMAIN S.inFlight THEN S
    ELSE LET p == S.inFlight[b]
             n == S.node[p]
             rest == Erased(n.queue, b)
         IN [S EXCEPT !.node[p] = [n EXCEPT !.queue = rest,
                                            !.since = IF n.queue[1].block = b THEN 0 ELSE @,
                                            !.stalling = -1],
                      !.inFlight = Restrict(@, DOMAIN @ \ {b}),
                      !.nDownloads = IF rest = <<>> THEN @ - 1 ELSE @]

MarkBlockAsInFlight(S, p, b, partial) ==
    IF b \in DOMAIN S.inFlight /\ S.inFlight[b] = p THEN S
    ELSE LET R == MarkBlockAsReceived(S, b)
             n == R.node[p]
             q == Append(n.queue, [block |-> b, partial |-> partial])
         IN [R EXCEPT !.node[p] = [n EXCEPT !.queue = q,
                                            !.since = IF Len(q) = 1 THEN 0 ELSE @],
                      !.inFlight = [c \in DOMAIN @ \cup {b} |-> IF c = b THEN p ELSE @[c]],
                      !.nDownloads = IF Len(q) = 1 THEN @ + 1 ELSE @]

(* The blocks of a sequence one after the other.                           *)
MarkBlocksAsInFlight(S, p, blocks) ==
    LET after[n \in 0 .. Len(blocks)] ==
            IF n = 0 THEN S
            ELSE MarkBlockAsInFlight(after[n - 1], p, blocks[n], "none")
    IN  after[Len(blocks)]

Better(old, b) == old = None \/ nHeight[b] >= nHeight[old]

ProcessBlockAvailability(S, p) ==
    LET n == S.node[p] IN
    IF n.unknown = None \/ n.unknown \notin S.known THEN S
    ELSE [S EXCEPT !.node[p].best = IF Better(@, n.unknown) THEN n.unknown ELSE @,
                   !.node[p].unknown = None]

UpdateBlockAvailability(S, p, b) ==
    LET R == ProcessBlockAvailability(S, p) IN
    IF b \in R.known
    THEN [R EXCEPT !.node[p].best = IF Better(@, b) THEN b ELSE @]
    ELSE [R EXCEPT !.node[p].unknown = b]

-----------------------------------------------------------------------------
(***************************************************************************)
(* Validation, as far as the download sees it.  A block is a candidate for *)
(* the tip once it and its ancestors have their data (nChainTx).           *)
(***************************************************************************)
HaveChain(S, b) == Chain[b] \subseteq S.data

(* AcceptBlockHeader, for a header whose parent is known.                  *)
HeaderValid(S, b) ==
    IF b \in S.known THEN b \notin S.failed
    ELSE Chain[Parent[b]] \cap S.failed = {}

(* The blocks from an invalid one up to a candidate of B that rests on it. *)
Broken(B) ==
    {d \in Block : \E b \in B : \E c \in Invalid :
                      c \in Chain[d] /\ d \in Chain[b]}

(* ActivateBestChain ends at a longest valid chain and marks the longer    *)
(* ones that it tried first.  The current tip stays on a tie; among others *)
(* of one length the order is that of their arrival, left open here.       *)
ActivateBestChain(S) ==
    LET candidates == {b \in S.data : HaveChain(S, b) /\ Chain[b] \cap S.failed = {}}
        valid == {b \in candidates : Chain[b] \cap Invalid = {}}
        longest == {b \in valid : \A c \in valid : nHeight[c] <= nHeight[b]}
        Ties(t) == IF t = S.tip THEN {}
                   ELSE {b \in candidates \ valid : nHeight[b] = nHeight[t]}
        Longer(t) == {b \in candidates : nHeight[b] > nHeight[t]}
    IN {[S EXCEPT !.tip = o[1],
                  !.failed = @ \cup Broken(o[2] \cup Longer(o[1])),
                  !.ibd = @ /\ nHeight[o[1]] < RecentHeight] :
          o \in UNION {{t} \X SUBSET Ties(t) :
                         t \in IF S.tip \in longest THEN {S.tip} ELSE longest}}

(* AcceptBlockHeader refuses a new header on top of a chain with a failed  *)
(* block: the blocks above that one are marked.                            *)
MarkFailedChild(S, b) ==
    [S EXCEPT !.failed = @ \cup {c \in Chain[Parent[b]] : Chain[c] \cap S.failed # {}}]

(* ProcessNewBlock of a block whose contents pass CheckBlock.              *)
ProcessNewBlock(S, b, fForceProcessing) ==
    LET R == [S EXCEPT !.known = @ \cup {b}]
        fHasMoreWork == nHeight[b] > nHeight[S.tip]
        fTooFarAhead == nHeight[b] > nHeight[S.tip] + MIN_BLOCKS_TO_KEEP
    IN IF Parent[b] \notin S.known THEN {S}
       ELSE IF ~HeaderValid(S, b) THEN {IF b \in S.known THEN S ELSE MarkFailedChild(S, b)}
       ELSE IF b \in S.data \/ (~fForceProcessing /\ (~fHasMoreWork \/ fTooFarAhead)) THEN {R}
       ELSE IF b \in Refused THEN {[R EXCEPT !.failed = @ \cup {b}]}
       ELSE ActivateBestChain([R EXCEPT !.data = @ \cup {b}])

-----------------------------------------------------------------------------
(* LastCommonAncestor.                                                     *)
LastCommonAncestor(a, b) ==
    CHOOSE c \in Chain[a] \cap Chain[b] :
        \A d \in Chain[a] \cap Chain[b] : nHeight[d] <= nHeight[c]

(* Mutant: a round of the loop of FindNextBlocksToDownload without the test*)
(* that the ancestors of a block that is there are there too.              *)
NextBlockUnlinked(S, p, count, nWindowEnd, acc, b) ==
    IF acc.done THEN acc
    ELSE IF b \in S.failed THEN [acc EXCEPT !.done = TRUE]
    ELSE IF b \in S.data \cup Chain[S.tip] THEN [acc EXCEPT !.common = b]
    ELSE IF b \in DOMAIN S.inFlight
         THEN [acc EXCEPT !.waitingfor = IF @ = 0 THEN S.inFlight[b] ELSE @]
    ELSE IF nHeight[b] > nWindowEnd
         THEN [acc EXCEPT !.done = TRUE,
                          !.staller = IF acc.fetch = <<>> /\ acc.waitingfor # p
                                      THEN acc.waitingfor ELSE @]
    ELSE [acc EXCEPT !.fetch = Append(@, b), !.done = Len(acc.fetch) + 1 = count]

(* One round of the loop of FindNextBlocksToDownload, at block b.          *)
NextBlock(S, p, count, nWindowEnd, acc, b) ==
    IF acc.done THEN acc
    ELSE IF b \in S.failed THEN [acc EXCEPT !.done = TRUE]
    ELSE IF b \in S.data \cup Chain[S.tip]
         THEN [acc EXCEPT !.common = IF HaveChain(S, b) THEN b ELSE @]
    ELSE IF b \in DOMAIN S.inFlight
         THEN [acc EXCEPT !.waitingfor = IF @ = 0 THEN S.inFlight[b] ELSE @]
    ELSE IF nHeight[b] > nWindowEnd
         THEN [acc EXCEPT !.done = TRUE,
                          !.staller = IF acc.fetch = <<>> /\ acc.waitingfor # p
                                      THEN acc.waitingfor ELSE @]
    ELSE [acc EXCEPT !.fetch = Append(@, b), !.done = Len(acc.fetch) + 1 = count]

(* FindNextBlocksToDownload: the new pindexLastCommonBlock, the blocks to  *)
(* fetch and the peer that holds the window up (0 for none).               *)
FindNextBlocksToDownload(S, p, count) ==
    LET best == S.node[p].best
        none == [common |-> S.node[p].common, fetch |-> <<>>,
                 waitingfor |-> 0, staller |-> 0, done |-> FALSE]
    IN IF best = None \/ nHeight[best] < nHeight[S.tip] THEN none
       ELSE LET guess == IF S.node[p].common # None THEN S.node[p].common
                         ELSE S.tip  \* the peer's chain is at least as long
                start == LastCommonAncestor(guess, best)
                nWindowEnd == nHeight[start] + BLOCK_DOWNLOAD_WINDOW
                nMaxHeight == IF nHeight[best] < nWindowEnd + 1
                              THEN nHeight[best] ELSE nWindowEnd + 1
                walk[n \in 0 .. nMaxHeight - nHeight[start]] ==
                    IF n = 0 THEN [none EXCEPT !.common = start]
                    ELSE NextBlock(S, p, count, nWindowEnd, walk[n - 1],
                                   GetAncestor(best, nHeight[start] + n))
            IN walk[nMaxHeight - nHeight[start]]

-----------------------------------------------------------------------------
(* Sending.  The headers request: to one peer, or to all when the best     *)
(* header is less than a day old.                                          *)
BestHeaderRecent(S) == \E b \in S.known : nHeight[b] >= RecentHeight

AskForHeaders(S, p) ==
    IF S.node[p].sync \/ ~(BestHeaderRecent(S) \/ (S.nSyncStarted = 0 /\ fFetch(S, p)))
    THEN S
    ELSE [S EXCEPT !.node[p].sync = TRUE, !.node[p].hdr = 0,
                   !.node[p].asked = p \in Prompt, !.nSyncStarted = @ + 1]

Stalled(S, p) == S.node[p].stalling > BLOCK_STALLING_TIMEOUT

TimedOut(S, p) ==
    LET others == S.nDownloads - (IF S.node[p].queue = <<>> THEN 0 ELSE 1) IN
    /\ S.node[p].queue # <<>>
    /\ S.node[p].since > BLOCK_DOWNLOAD_TIMEOUT_BASE
                            + BLOCK_DOWNLOAD_TIMEOUT_PER_PEER * others

(* Mutant: the peer that is asked for headers is never given up.           *)
KeepHeadersPeer(S, p) == S

HeadersTimeout(S, p) ==
    IF ~S.node[p].sync \/ S.node[p].hdr = -1 THEN S
    ELSE IF BestHeaderRecent(S) THEN [S EXCEPT !.node[p].hdr = -1]
    ELSE IF S.node[p].hdr > HEADERS_DOWNLOAD_TIMEOUT /\ S.nSyncStarted = 1
              /\ Preferred(S) \ {p} # {}
         THEN IF p \notin whitelisted THEN [S EXCEPT !.node[p].st = "doomed"]
              ELSE [S EXCEPT !.node[p].sync = FALSE, !.node[p].hdr = -1,
                             !.nSyncStarted = @ - 1]
    ELSE S

(* Mutant: the blocks in flight from the peer already are not counted.     *)
RoomAlways(S, p) == MAX_BLOCKS_IN_TRANSIT_PER_PEER

Room(S, p) == MAX_BLOCKS_IN_TRANSIT_PER_PEER - Len(S.node[p].queue)

GetData(S, p) ==
    IF ~(fFetch(S, p) \/ ~S.ibd) \/ Room(S, p) <= 0 THEN S
    ELSE LET A == ProcessBlockAvailability(S, p)
             next == FindNextBlocksToDownload(A, p, Room(S, p))
             R == MarkBlocksAsInFlight([A EXCEPT !.node[p].common = next.common],
                                       p, next.fetch)
         IN IF R.node[p].queue = <<>> /\ next.staller # 0
            THEN [R EXCEPT !.node[next.staller].stalling = IF @ = -1 THEN 0 ELSE @]
            ELSE R

ChainSyncLimit(c) ==
    IF c.m_sent_getheaders THEN HEADERS_RESPONSE_TIME ELSE CHAIN_SYNC_TIMEOUT

(* ConsiderEviction: an outbound peer whose chain is behind the tip has    *)
(* some time to get to what was the tip, and after one more getheaders     *)
(* message a little more.                                                  *)
ConsiderEviction(S, p) ==
    LET n == S.node[p]
        c == n.m_chain_sync
        HasWork(b) == n.best # None /\ nHeight[n.best] >= nHeight[b]
    IN IF c.m_protect \/ p \notin Outbound \/ ~n.sync THEN S
       ELSE IF HasWork(S.tip) THEN [S EXCEPT !.node[p].m_chain_sync = NoChainSync]
       ELSE IF c.age = -1 \/ HasWork(c.m_work_header)
       THEN [S EXCEPT !.node[p].m_chain_sync =
                         [NoChainSync EXCEPT !.age = 0, !.m_work_header = S.tip]]
       ELSE IF c.age <= ChainSyncLimit(c) THEN S
       ELSE IF c.m_sent_getheaders THEN [S EXCEPT !.node[p].st = "doomed"]
       ELSE [S EXCEPT !.node[p].m_chain_sync = [c EXCEPT !.age = 0, !.m_sent_getheaders = TRUE],
                      !.node[p].asked = p \in Prompt]

Serving(p, ph) == turn = p /\ phase = ph /\ main.node[p].st = "on"

NextTurn == turn' = (turn % Cardinality(Peer)) + 1 /\ phase' = "process"

SendMessages(p) ==
    /\ Serving(p, "send") /\ NextTurn /\ UNCHANGED whitelisted
    /\ LET S == ProcessBlockAvailability(AskForHeaders(main, p), p)
           R == HeadersTimeout(S, p)
       IN main' = IF Stalled(S, p) \/ TimedOut(S, p)
                  THEN [S EXCEPT !.node[p].st = "doomed"]
                  ELSE IF R.node[p].st = "doomed" THEN R
                  ELSE GetData(ConsiderEviction(R, p), p)

(* A peer that is not there, or no longer, is passed over.                 *)
Skip ==
    /\ phase # "abort" /\ main.node[turn].st # "on" /\ NextTurn
    /\ UNCHANGED <<main, whitelisted>>

-----------------------------------------------------------------------------
(* Receiving.  Below the height of "less than a day" the tip is too old    *)
(* for CanDirectFetch; above it, it may be recent enough or not.           *)
CanDirectFetch(S) == {FALSE, nHeight[S.tip] >= RecentHeight}

(* The blocks to switch to the chain of a block, from earliest to latest.  *)
Needed(S, to) ==
    LET upTo[h \in 0 .. nHeight[to]] ==
            IF h = 0 THEN <<>>
            ELSE LET b == GetAncestor(to, h)
                 IN  IF b \in Chain[S.tip] \cup S.data \cup DOMAIN S.inFlight
                     THEN upTo[h - 1] ELSE Append(upTo[h - 1], b)
    IN  upTo[nHeight[to]]

DirectFetch(S, p, to) ==
    LET need == Needed(S, to)
        large == \/ Len(need) > MAX_BLOCKS_IN_TRANSIT_PER_PEER + 1
                 \/ /\ Len(need) = MAX_BLOCKS_IN_TRANSIT_PER_PEER + 1
                    /\ Parent[need[1]] \notin Chain[S.tip]
        n == IF Room(S, p) < 0 THEN 0
             ELSE IF Len(need) < Room(S, p) THEN Len(need) ELSE Room(S, p)
    IN IF large THEN S
       ELSE MarkBlocksAsInFlight(S, p, SubSeq(need, 1, n))

(* The first outbound peers with a chain as good as the tip are protected  *)
(* from ConsiderEviction, which then reads none of the other fields.       *)
Protect(S, p) ==
    IF /\ p \in Outbound /\ S.node[p].best # None
       /\ nHeight[S.node[p].best] >= nHeight[S.tip]
       /\ Cardinality({q \in Peer : S.node[q].m_chain_sync.m_protect})
             < MAX_OUTBOUND_PEERS_TO_PROTECT_FROM_DISCONNECT
    THEN [S EXCEPT !.node[p].m_chain_sync = [NoChainSync EXCEPT !.m_protect = TRUE]] ELSE S

(* ProcessHeadersMessage with the headers from block f to block t.  After  *)
(* a full message, and after a short one that does not connect, the peer   *)
(* is asked for headers again.                                             *)
ProcessHeadersMessage(S0, p, f, t, fPunish, fCanDirectFetch) ==
    LET S == [S0 EXCEPT !.node[p].asked = FALSE]
        headers == {b \in Chain[t] : f \in Chain[b]}
        nCount == nHeight[t] - nHeight[f] + 1
        bad == {b \in headers : ~HeaderValid(S, b)}
        R == [S EXCEPT !.known = @ \cup {b \in headers : Chain[b] \cap bad = {}}]
        first == CHOOSE b \in bad : \A c \in bad : nHeight[b] <= nHeight[c]
        A == [UpdateBlockAvailability(R, p, t) EXCEPT
                 !.node[p].asked = p \in Prompt /\ nCount = MAX_HEADERS_RESULTS]
    IN IF Parent[f] \notin S.known
       THEN IF nCount < MAX_BLOCKS_TO_ANNOUNCE
            THEN [UpdateBlockAvailability(S, p, t) EXCEPT !.node[p].asked = p \in Prompt]
            ELSE S
       ELSE IF bad # {} /\ first \in S.known
       THEN IF fPunish THEN [R EXCEPT !.node[p].st = "doomed"] ELSE R
       ELSE IF bad # {} THEN Misbehaving(MarkFailedChild(R, first), p)
       ELSE IF fCanDirectFetch /\ t \notin A.failed /\ nHeight[A.tip] <= nHeight[t]
       THEN Protect(DirectFetch(A, p, t), p)
       ELSE Protect(A, p)

(* The entry for b in the queue of p, and its partialBlock: "none" at all, *)
(* "ready" for FillBlock, or "used" by it, with its header set to null.    *)
Partial(S, p, b) ==
    {S.node[p].queue[i].partial :
        i \in {j \in DOMAIN S.node[p].queue : S.node[p].queue[j].block = b}}

SetPartial(S, p, b, partial) ==
    [S EXCEPT !.node[p].queue =
        [i \in DOMAIN @ |-> IF @[i].block = b THEN [@[i] EXCEPT !.partial = partial] ELSE @[i]]]

(* The handler of "blocktxn": what FillBlock makes of the transactions is  *)
(* an input.  After READ_STATUS_FAILED, for transactions the header does   *)
(* not commit to, the block is asked for in full and stays in flight.      *)
FillBlock(S, p, b, fill) ==
    CASE fill = "invalid"     -> {Misbehaving(MarkBlockAsReceived(S, b), p)}
      [] fill = "failed"      -> {SetPartial(S, p, b, "used")}
      [] fill = "checkfailed" -> {MarkBlockAsReceived(S, b)}
      [] fill = "ok"          -> ProcessNewBlock(MarkBlockAsReceived(S, b), b, TRUE)

(* A block rebuilt from a compact block while another peer is to send it.  *)
Reconstructed(S, b) ==
    {IF b \in R.data \ R.failed THEN MarkBlockAsReceived(R, b) ELSE R :
        R \in ProcessNewBlock(S, b, TRUE)}

(* The compact block of a peer that b may be fetched from: "complete" when *)
(* no transaction is missing.                                              *)
InitData(S, p, b, read, fill) ==
    LET Q == SetPartial(MarkBlockAsInFlight(S, p, b, "ready"), p, b, "ready")
    IN IF Partial(S, p, b) \cap {"ready", "used"} # {} THEN {S}
       ELSE CASE read = "invalid"  -> {Misbehaving(MarkBlockAsReceived(Q, b), p)}
              [] read = "complete" -> FillBlock(Q, p, b, fill)
              [] OTHER             -> {Q}

(* The handler of "cmpctblock".                                            *)
CompactBlock(S, p, b, read, fill, fCanDirectFetch) ==
    LET A == UpdateBlockAvailability([S EXCEPT !.known = @ \cup {b}], p, b)
        fAlreadyInFlight == b \in DOMAIN S.inFlight
        mine == fAlreadyInFlight /\ S.inFlight[b] = p
    IN IF Parent[b] \notin S.known THEN {S}
       ELSE IF ~HeaderValid(S, b)
       THEN IF b \in S.known THEN {S}
            ELSE {Misbehaving(MarkFailedChild(S, b), p)}
       ELSE IF b \in A.data \/ nHeight[b] <= nHeight[A.tip]
                 \/ (~fAlreadyInFlight /\ ~fCanDirectFetch) THEN {A}
       ELSE IF nHeight[b] > nHeight[A.tip] + 2
       THEN IF fAlreadyInFlight THEN {A}
            ELSE {ProcessHeadersMessage(A, p, b, b, FALSE, fCanDirectFetch)}
       ELSE IF mine \/ (~fAlreadyInFlight /\ Room(A, p) > 0)
       THEN InitData(A, p, b, read, fill)
       ELSE IF read = "complete" /\ fill = "ok" THEN Reconstructed(A, b)
       ELSE {A}

-----------------------------------------------------------------------------
(* What a peer may send.  A prompt peer sends the headers up to its tip,   *)
(* MAX_HEADERS_RESULTS at a time, when it is asked for headers, and the    *)
(* blocks it is asked for in turn.                                         *)
Owed(p) == p \in Prompt /\ (main.node[p].asked \/ main.node[p].queue # <<>>)

Headers(p, f, t) ==
    /\ Serving(p, "process") /\ f \in Chain[t]
    /\ nHeight[t] < nHeight[f] + MAX_HEADERS_RESULTS
    /\ p \in Prompt => /\ main.node[p].asked /\ main.node[p].best # PeerTip[p]
                       /\ Parent[f] \in main.known
                       /\ f \notin main.known \/ f = PeerTip[p]
                       /\ t = PeerTip[p] \/ nHeight[t] + 1 = nHeight[f] + MAX_HEADERS_RESULTS
    /\ \E direct \in CanDirectFetch(main) :
          main' = ProcessHeadersMessage(main, p, f, t, p \in Outbound, direct)
    /\ phase' = "send" /\ UNCHANGED <<turn, whitelisted>>

(* There are no headers after those of a full message.                     *)
NoHeaders(p) ==
    /\ Serving(p, "process") /\ p \in Prompt
    /\ main.node[p].asked /\ main.node[p].best = PeerTip[p]
    /\ main' = [main EXCEPT !.node[p].asked = FALSE]
    /\ phase' = "send" /\ UNCHANGED <<turn, whitelisted>>

Inv(p, b) ==
    /\ Serving(p, "process") /\ p \notin Prompt
    /\ main' = UpdateBlockAvailability(main, p, b)
    /\ phase' = "send" /\ UNCHANGED <<turn, whitelisted>>

(* The contents sent may fail CheckBlock (fGood is FALSE) although those   *)
(* of the block would not: they are not what its header commits to.        *)
BlockMessage(p, b, fGood) ==
    /\ Serving(p, "process") /\ (fGood => b \notin Malformed)
    /\ p \in Prompt => /\ fGood /\ ~main.node[p].asked
                       /\ main.node[p].queue # <<>> /\ main.node[p].queue[1].block = b
    /\ LET R == MarkBlockAsReceived(main, b) IN
       main' \in IF fGood THEN ProcessNewBlock(R, b, b \in DOMAIN main.inFlight)
                 ELSE {Misbehaving(R, p)}
    /\ phase' = "send" /\ UNCHANGED <<turn, whitelisted>>

CmpctBlock(p, b, read, fill) ==
    /\ Serving(p, "process") /\ p \notin Prompt
    /\ \E direct \in CanDirectFetch(main) :
          main' \in CompactBlock(main, p, b, read, fill, direct)
    /\ phase' = "send" /\ UNCHANGED <<turn, whitelisted>>

BlockTxn(p, b, fill) ==
    /\ Serving(p, "process") /\ p \notin Prompt /\ "ready" \in Partial(main, p, b)
    /\ main' \in FillBlock(main, p, b, fill)
    /\ phase' = "send" /\ UNCHANGED <<turn, whitelisted>>

(* FillBlock asserts that the header is not null.                          *)
FillBlockAsserts(p, b) ==
    /\ Serving(p, "process") /\ p \notin Prompt /\ "used" \in Partial(main, p, b)
    /\ phase' = "abort" /\ UNCHANGED <<main, turn, whitelisted>>

NoMessage(p) ==
    /\ Serving(p, "process") /\ ~Owed(p)
    /\ phase' = "send" /\ UNCHANGED <<main, turn, whitelisted>>

-----------------------------------------------------------------------------
(* ThreadMessageHandler holds a reference to every peer for one round, so  *)
(* that peers come and go between two rounds.                              *)
BetweenRounds == turn = 1 /\ phase = "process"

(* InitializeNode and the handshake.                                       *)
Connect(p) ==
    /\ BetweenRounds /\ main.node[p].st = "new"
    /\ main' = [main EXCEPT !.node[p].st = "on"]
    /\ UNCHANGED <<turn, phase, whitelisted>>

(* The connection is lost, or the peer banned: fDisconnect.                *)
Leave(p) ==
    /\ phase # "abort" /\ p \notin Prompt /\ main.node[p].st = "on"
    /\ main' = [main EXCEPT !.node[p].st = "doomed"]
    /\ UNCHANGED <<turn, phase, whitelisted>>

(* Mutant: the blocks of the peer stay in mapBlocksInFlight.               *)
FinalizeNodeOnly(p) ==
    /\ BetweenRounds /\ main.node[p].st = "doomed"
    /\ LET n == main.node[p] IN
       main' = [main EXCEPT !.node[p] = [NewNode EXCEPT !.st = "gone"],
                            !.nDownloads = @ - (IF n.queue = <<>> THEN 0 ELSE 1),
                            !.nSyncStarted = @ - (IF n.sync THEN 1 ELSE 0)]
    /\ UNCHANGED <<turn, phase, whitelisted>>

FinalizeNode(p) ==
    /\ BetweenRounds /\ main.node[p].st = "doomed"
    /\ LET n == main.node[p]
           mine == {n.queue[i].block : i \in DOMAIN n.queue}
       IN main' = [main EXCEPT !.node[p] = [NewNode EXCEPT !.st = "gone"],
                               !.inFlight = Restrict(@, DOMAIN @ \ mine),
                               !.nDownloads = @ - (IF n.queue = <<>> THEN 0 ELSE 1),
                               !.nSyncStarted = @ - (IF n.sync THEN 1 ELSE 0)]
    /\ UNCHANGED <<turn, phase, whitelisted>>

(* The clock.  A prompt peer answers before it moves on.                   *)
Aged(a, limit) == IF a > limit THEN a ELSE a + 1

AgedChainSync(c) ==
    [c EXCEPT !.age = IF @ = -1 THEN @ ELSE Aged(@, ChainSyncLimit(c))]

AgedNode(n) ==
    [n EXCEPT !.stalling = IF @ = -1 THEN @ ELSE Aged(@, BLOCK_STALLING_TIMEOUT),
              !.since = IF n.queue = <<>> THEN 0 ELSE Aged(@, MaxAge - 1),
              !.hdr = IF @ = -1 THEN @ ELSE Aged(@, HEADERS_DOWNLOAD_TIMEOUT),
              !.m_chain_sync = AgedChainSync(@)]

Tick ==
    /\ phase # "abort"
    /\ \A p \in Prompt : main.node[p].st = "on" => ~Owed(p)
    /\ main' = [main EXCEPT !.node = [p \in Peer |-> AgedNode(main.node[p])]]
    /\ UNCHANGED <<turn, phase, whitelisted>>

Sent(p) == Chain[PeerTip[p]] \ {Genesis}
Read == {"invalid", "failed", "missing", "complete"}
Fill(b) == {"invalid", "failed", IF b \in Malformed THEN "checkfailed" ELSE "ok"}

Receive(p) ==
    \/ NoMessage(p)
    \/ \E f, t \in Sent(p) : Headers(p, f, t)
    \/ NoHeaders(p)
    \/ \E b \in Sent(p) : Inv(p, b)
    \/ \E b \in Sent(p), fGood \in BOOLEAN : BlockMessage(p, b, fGood)
    \/ \E b \in Sent(p), read \in Read : \E fill \in Fill(b) : CmpctBlock(p, b, read, fill)
    \/ \E b \in Sent(p) : \E fill \in Fill(b) : BlockTxn(p, b, fill)
    \/ \E b \in Sent(p) : FillBlockAsserts(p, b)

Serve == Skip \/ \E p \in Peer : Receive(p) \/ SendMessages(p)

Aborted == phase = "abort" /\ UNCHANGED vars

Next ==
    \/ Serve \/ Aborted
    \/ Tick
    \/ \E p \in Peer : Connect(p) \/ Leave(p) \/ FinalizeNode(p)

Spec == Init /\ [][Next]_vars

(* The thread serves the peers round after round (until the process is     *)
(* aborted a step of Serve is always possible, and only such a step moves  *)
(* turn or phase), time passes, and the socket thread finds a moment       *)
(* between two rounds, in which the message handler sleeps, to add and to  *)
(* remove peers.                                                           *)
Moves ==
    phase # "abort" /\ turn' \in Peer /\ phase' \in {"process", "send", "abort"}

Fairness ==
    /\ WF_<<turn, phase>>(Moves)
    /\ WF_vars(Tick)
    /\ \A p \in Peer : SF_vars(FinalizeNode(p)) /\ SF_vars(Connect(p))

FairSpec == Spec /\ Fairness

-----------------------------------------------------------------------------
PartialBlock == {"none", "ready", "used"}

ChainSyncTimeoutState ==
    [age: -1 .. CHAIN_SYNC_TIMEOUT + HEADERS_RESPONSE_TIME + 1,
     m_work_header: Block \cup {None}, m_sent_getheaders: BOOLEAN, m_protect: BOOLEAN]

Node ==
    [st: {"new", "on", "doomed", "gone"}, best: Block \cup {None},
     unknown: Block \cup {None}, common: Block \cup {None},
     queue: UNION {[1 .. n -> [block: Block, partial: PartialBlock]] :
                     n \in 0 .. MAX_BLOCKS_IN_TRANSIT_PER_PEER},
     stalling: -1 .. BLOCK_STALLING_TIMEOUT + 1, since: 0 .. MaxAge,
     sync: BOOLEAN, hdr: -1 .. HEADERS_DOWNLOAD_TIMEOUT + 1,
     m_chain_sync: ChainSyncTimeoutState, asked: BOOLEAN]

(* No queue holds more than MAX_BLOCKS_IN_TRANSIT_PER_PEER blocks.         *)
TypeOK ==
    /\ {Genesis} \subseteq main.data /\ main.data \subseteq main.known
    /\ main.known \subseteq Block /\ main.failed \subseteq main.known
    /\ main.tip \in main.data /\ main.ibd \in BOOLEAN
    /\ \A p \in Peer : main.node[p] \in Node
    /\ DOMAIN main.inFlight \subseteq Block
    /\ turn \in Peer /\ phase \in {"process", "send", "abort"}

(* mapBlocksInFlight and the queues of the peers describe the same blocks, *)
(* each in one queue, and the counters FinalizeNode asserts are those of   *)
(* the peers there are; a peer that may be dropped for holding up the      *)
(* window (nStallingSince) still owes a block.                             *)
InFlightExact ==
    /\ \A p \in Peer : \A i \in DOMAIN main.node[p].queue :
          LET b == main.node[p].queue[i].block IN
          /\ b \in DOMAIN main.inFlight /\ main.inFlight[b] = p
          /\ \A j \in DOMAIN main.node[p].queue :
                main.node[p].queue[j].block = b => i = j
    /\ \A b \in DOMAIN main.inFlight :
          LET p == main.inFlight[b] IN
          /\ p \in Nodes(main)
          /\ \E i \in DOMAIN main.node[p].queue : main.node[p].queue[i].block = b
    /\ main.nDownloads = Cardinality({p \in Peer : main.node[p].queue # <<>>})
    /\ main.nSyncStarted = Cardinality({p \in Peer : main.node[p].sync})
    /\ \A p \in Peer : main.node[p].stalling # -1 => main.node[p].queue # <<>>

(* Nothing is missing below the block from which the download from a peer  *)
(* goes on (pindexLastCommonBlock): what is below is never asked for.      *)
NothingSkipped ==
    \A p \in Peer : main.node[p].common # None => HaveChain(main, main.node[p].common)

(* With one outbound peer that answers, the node gets to the end of its    *)
(* chain, whatever blocks and headers the other peers send, withhold or    *)
(* claim, unless they are whitelisted, or the assertion of FillBlock fails *)
(* on transactions for a compact block that could not be rebuilt before.   *)
Synced ==
    whitelisted = {} =>
        <>[](\/ phase = "abort"
             \/ \A p \in Prompt \cap Outbound : nHeight[main.tip] >= nHeight[PeerTip[p]])
=============================================================================
