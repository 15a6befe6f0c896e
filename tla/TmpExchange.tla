----------------------------- MODULE TmpExchange ------------------------------
(***************************************************************************)
(* The AppV2 session over one open stream (TmpAppV2Session): association,  *)
(* negotiation, and exchanges that push a request, pull its answer, and    *)
(* put the answer together from chunks.                                    *)
(*                                                                         *)
(* The stream delivers frames in order, so what it holds is left out: a    *)
(* step delivers any message the router may have sent by now.  The router  *)
(* is external.  It may push chunks unasked, repeat them, send them in any *)
(* order and cut them differently when it repeats them, and go on with the *)
(* answers of exchanges the client has given up.                           *)
(***************************************************************************)
EXTENDS Naturals, FiniteSets, Sequences, SequencesExt

CONSTANTS
  TransactionIds,   \* how many there are (65536 in the code)
  MaxExchanges,     \* bound on the exchanges of the session
  MaxSize,          \* bound on the size of an answer
  MaxLate,          \* how many exchanges later the router may still answer one
  None

ASSUME ExchangeAssumption ==
  /\ {TransactionIds, MaxExchanges, MaxSize, MaxLate} \subseteq Nat
  /\ MaxLate < TransactionIds

VARIABLES
  stage,      \* how far the session is: new, token, negotiate, ready
  serial,     \* _next_transaction_id - 1: the exchanges begun
  waiting,    \* is one of them under way?
  pullSent,   \* has it pulled its answer?
  expected,   \* the metadata of the first chunk, or None
  chunks,     \* the chunks received, by offset and length
  requested,  \* requested_offset
  pulls,      \* external: the offsets the router has been asked for
  sizes,      \* external: the size of the answer to each exchange
  result      \* history: the exchange, the answer's exchange and the bytes returned last

exchange     == <<waiting, pullSent, expected, chunks, requested, pulls>>
exchangeVars == <<stage, serial, exchange, sizes, result>>

Exchanges == 1 .. MaxExchanges
Offsets   == 0 .. MaxSize
Chunk     == [offset : Offsets, length : Offsets]

Transaction(n) == n % TransactionIds

\* The router may still send messages of these exchanges.
Answering == {n \in 1 .. serial : serial - n <= MaxLate}

-------------------------------------------------------------------------------
(* Pure parts of _exchange.  ...Fault is a slip in the definition that      *)
(* follows it: no action uses it.                                           *)

MatchesFault(n) == TRUE

\* Messages of another transaction are ignored.  So are those of another opcode: here
\* all requests have the same one.
Matches(n) == Transaction(n) = Transaction(serial)

\* The chunk at an offset, unless there is none or it is empty.
HasChunk(S, offset) == \E c \in S : c.offset = offset /\ c.length > 0
ChunkAt(S, offset)  == CHOOSE c \in S : c.offset = offset /\ c.length > 0

\* Where the chain of chunks that starts at an offset ends.
ChainEnd(S) ==
  LET ends[o \in Offsets] == IF HasChunk(S, o) THEN ends[o + ChunkAt(S, o).length] ELSE o
  IN  ends

\* _contiguous_size
Contiguous(S) == ChainEnd(S)[0]

\* The bytes of all chunks, in the order of their offsets; a byte is its position.
ChunkBytes(c)   == [j \in 1 .. c.length |-> c.offset + j - 1]
BytesAt(S, o)   == IF HasChunk(S, o) THEN ChunkBytes(ChunkAt(S, o)) ELSE <<>>
JoinedBytes(S)  == FlattenSeq([i \in 1 .. MaxSize + 1 |-> BytesAt(S, i - 1)])

Bytes(size) == [i \in 1 .. size |-> i - 1]

\* b"".join(...)[:expected_total]
Response(S, size) ==
  SubSeq(JoinedBytes(S), 1, IF Len(JoinedBytes(S)) < size THEN Len(JoinedBytes(S)) ELSE size)

Conflicts(c) == \E d \in chunks : d.offset = c.offset /\ d # c

PullsNextFault(S) == FALSE

\* The first missing byte is pulled, once.
PullsNext(S) == Contiguous(S) # requested

-------------------------------------------------------------------------------
ExchangeInit ==
  /\ stage     = "new"
  /\ serial    = 0
  /\ waiting   = FALSE
  /\ pullSent  = FALSE
  /\ expected  = None
  /\ chunks    = {}
  /\ requested = 0
  /\ pulls     = {}
  /\ sizes     \in [Exchanges -> Offsets]
  /\ result    = None

\* _associate: HELLO frames are skipped, a refusal or a timeout leaves the stage.
Associate ==
  /\ stage = "new"
  /\ stage' = "token"
  /\ UNCHANGED <<serial, exchange, sizes, result>>

\* The request is pushed; an empty one is pulled at once.  Negotiation requests are
\* empty, later ones may be.
Begin(empty) ==
  /\ stage # "new"
  /\ stage # "ready" => empty
  /\ ~waiting
  /\ serial < MaxExchanges
  /\ serial' = serial + 1
  /\ waiting' = TRUE
  /\ pullSent' = empty
  /\ pulls' = IF empty THEN {0} ELSE {}
  /\ expected' = None
  /\ chunks' = {}
  /\ requested' = 0
  /\ UNCHANGED <<stage, sizes, result>>

\* A raised error ends the exchange; in open() it ends the negotiation too.
Raise ==
  /\ waiting' = FALSE
  /\ stage' = IF stage = "ready" THEN "ready" ELSE "new"
  /\ UNCHANGED <<serial, pullSent, expected, chunks, requested, pulls, sizes, result>>

\* Deadline, AppV2 error, transfer error, oversize or broken frame.
Fails == waiting /\ Raise

\* PUSH_ACK of the whole request (a partial one changes nothing).
Acknowledged(n) ==
  /\ waiting
  /\ Matches(n)
  /\ ~pullSent
  /\ pullSent' = TRUE
  /\ pulls' = pulls \cup {0}
  /\ UNCHANGED <<stage, serial, waiting, expected, chunks, requested, sizes, result>>

Metadata(n) == [of |-> n, size |-> sizes[n]]

\* A chunk that contradicts what was received before.
ChunkRejected(n, c) ==
  /\ waiting
  /\ Matches(n)
  /\ expected \notin {None, Metadata(n)} \/ Conflicts(c)
  /\ Raise

Accepts(n, c) ==
  /\ waiting
  /\ Matches(n)
  /\ expected \in {None, Metadata(n)}
  /\ ~Conflicts(c)
  /\ expected' = Metadata(n)
  /\ chunks' = chunks \cup {c}

\* More is missing: the next pull is sent if the contiguous part has grown.
ChunkKept(n, c) ==
  /\ Accepts(n, c)
  /\ Contiguous(chunks') < sizes[n]
  /\ IF PullsNext(chunks')
     THEN requested' = Contiguous(chunks') /\ pulls' = pulls \cup {Contiguous(chunks')}
     ELSE UNCHANGED <<requested, pulls>>
  /\ UNCHANGED <<stage, serial, waiting, pullSent, sizes, result>>

ChecksumMatchesFault(bytes, n) == TRUE

\* The CRC of the bytes is the one the answer announced.
ChecksumMatches(bytes, n) == bytes = Bytes(sizes[n])

\* All is there: the checksum decides.
ChunkCompletes(n, c) ==
  /\ Accepts(n, c)
  /\ Contiguous(chunks') >= sizes[n]
  /\ LET response == Response(chunks', sizes[n])
     IN  /\ result' = IF ChecksumMatches(response, n)
                      THEN [serial |-> serial, of |-> n, bytes |-> response]
                      ELSE result
         /\ stage' = IF ~ChecksumMatches(response, n)
                     THEN IF stage = "ready" THEN "ready" ELSE "new"
                     ELSE IF stage = "token" THEN "negotiate" ELSE "ready"
  /\ waiting' = FALSE
  /\ UNCHANGED <<serial, pullSent, requested, pulls, sizes>>

ChunkArrives(n, c) == ChunkRejected(n, c) \/ ChunkKept(n, c) \/ ChunkCompletes(n, c)

\* A chunk of the answer to n lies within it.
ChunksOf(n) == {c \in Chunk : c.offset + c.length <= sizes[n]}

\* External: the answer to a pull starts at the offset that was asked for.
Answers(n, c) ==
  /\ n = serial
  /\ c.offset = Contiguous(chunks)
  /\ c.offset \in pulls
  /\ c.length > 0 \/ sizes[n] = 0
  /\ ChunkArrives(n, c)

ExchangeNext ==
  \/ Associate
  \/ \E empty \in BOOLEAN : Begin(empty)
  \/ Fails
  \/ \E n \in Answering : Acknowledged(n)
  \/ \E n \in Answering : \E c \in ChunksOf(n) : ChunkArrives(n, c)

ExchangeSpec == ExchangeInit /\ [][ExchangeNext]_exchangeVars

\* A router at work acknowledges a request, and answers the last pull.
Progress == Acknowledged(serial) \/ \E c \in ChunksOf(serial) : Answers(serial, c)

ExchangeFairSpec ==
  ExchangeSpec /\ WF_exchangeVars(waiting /\ serial \in Exchanges /\ Progress)

-------------------------------------------------------------------------------
ExchangeTypeOK ==
  /\ stage     \in {"new", "token", "negotiate", "ready"}
  /\ serial    \in 0 .. MaxExchanges
  /\ waiting   \in BOOLEAN
  /\ pullSent  \in BOOLEAN
  /\ expected  \in [of : Exchanges, size : Offsets] \cup {None}
  /\ chunks    \subseteq Chunk
  /\ requested \in Offsets
  /\ pulls     \subseteq Offsets
  /\ sizes     \in [Exchanges -> Offsets]

\* What an exchange returns is the whole answer to its own request, not a late answer
\* of an exchange that was given up, nor a mixture of two.
ReturnsOwnAnswer ==
  result # None =>
    /\ result.of = result.serial
    /\ result.bytes = Bytes(sizes[result.of])

\* The byte the client waits for has been asked for: client and router never wait for
\* one another.
MissingIsPulled ==
  waiting /\ (pullSent \/ Contiguous(chunks) > 0) => Contiguous(chunks) \in pulls

\* Chunks of two answers are never kept together.
ChunksOfOneAnswer ==
  waiting /\ chunks # {} => expected = Metadata(serial) /\ chunks \subseteq ChunksOf(serial)

ExchangeInv == ExchangeTypeOK /\ ChunksOfOneAnswer /\ MissingIsPulled

\* An exchange ends although nothing but the acknowledgement and the pulled chunks is
\* sure to arrive.
ExchangeEnds == waiting ~> ~waiting
===============================================================================
