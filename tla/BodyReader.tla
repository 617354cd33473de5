------------------------------ MODULE BodyReader ------------------------------
(***************************************************************************)
(* The body reader of the core crate (session/reader.rs): how a message    *)
(* body is cut out of what a stream's reads happen to return, for the      *)
(* three framings of HTTP/1.x.                                             *)
(*                                                                         *)
(* A byte is named by its position on the wire, and the buffer holds such  *)
(* names (0: never written), so a byte that is lost, repeated or moved     *)
(* shows.  A chunk head is a size of one digit, extension bytes, CR, LF.   *)
(* A call of read_body is one step, except that its wait for the stream    *)
(* may be cancelled: select! drops it when its other branch wins.          *)
(***************************************************************************)
EXTENDS Framing, Sequences, SequencesExt

CONSTANTS
  Messages,    \* what a peer may send, see MessageType
  BodySize,    \* BODY_BUFFER_SIZE, 64 KiB in the source
  HeadLimit    \* PARTIAL_CHUNK_HEAD_LIMIT, 8 KiB in the source

(* sizes: of the chunks, of the one body of a length, or of what comes until
   the close; ext: extension bytes in each chunk head; beyond: bytes that
   follow the body. *)
MessageType == [framing : {"chunked", "length", "closed"}, sizes : Seq(Nat),
                ext : Nat, beyond : Nat]

ASSUME ReaderAssumption ==
  /\ \A m \in Messages : /\ m \in MessageType
                         /\ m.framing # "chunked" => Len(m.sizes) = 1
                         /\ m.framing = "chunked" => \A i \in 1..Len(m.sizes) : m.sizes[i] > 0
                         /\ m.framing = "closed" => m.beyond = 0
  /\ HeadLimit \in Nat
  /\ BodySize \in Nat \ 0..(HeadLimit + 1)   \* a head that is not over the limit
                                             \*   leaves room to read more

VARIABLES
  message,            \* the peer's message
  cut, closes,        \* how many of its bytes it sends, and whether it then closes
  taken,              \* how many of them have been read from the stream
  read_state,         \* the fields of ReadState
  body_buffer, rewind_buf_size,
  returned,           \* by the last call: its kind, its slice of the buffer
  delivered,          \* history: every byte returned so far
  overlapped          \* history: a cancelled call had moved a partial head
                      \*   onto a part of itself

message_vars == <<message, cut, closes>>
reader_vars  == <<message_vars, taken, read_state, body_buffer, rewind_buf_size,
                  returned, delivered, overlapped>>

Byte(kind) == [kind |-> kind, n |-> 0]
Times(n, byte) == [i \in 1..n |-> byte]

CRLF == <<Byte("cr"), Byte("lf")>>

ChunkHead(m, size) ==
  <<[kind |-> "size", n |-> size]>> \o Times(m.ext, Byte("ext")) \o CRLF

Chunk(m, size) == ChunkHead(m, size) \o Times(size, Byte("data")) \o CRLF

Bytes(m) ==
  (IF m.framing = "chunked"
     THEN FlattenSeq([i \in 1..Len(m.sizes) |-> Chunk(m, m.sizes[i])])
            \o ChunkHead(m, 0) \o CRLF
     ELSE Times(m.sizes[1], Byte("data")))
    \o Times(m.beyond, Byte("beyond"))

WireOf  == [m \in Messages |-> Bytes(m)]
wire    == WireOf[message]
framing == message.framing

(* with_chunked_read, with_content_length_read, with_until_closed_read *)
Chunked(read, start, end, expect) ==
  [is |-> "chunked", read |-> read, start |-> start, end |-> end, expect |-> expect]
Sized(is, read, expect) ==
  [is |-> is, read |-> read, start |-> 0, end |-> 0, expect |-> expect]

Initial(mode) ==
  IF mode = ChunkedEncoding THEN Chunked(0, 0, 0, 0)
  ELSE IF mode = UntilClosed THEN Sized("http10", 0, 0)
  ELSE IF mode.n = 0 THEN Sized("completed", 0, 0)
  ELSE Sized("partial", 0, mode.n)

(* Mutant: a buffer of the usual size, whatever has to go in. *)
RewoundBufferFixed(rewound) == [i \in 1..BodySize |-> IF i <= rewound THEN i ELSE 0]

(* A buffer that begins with the rewound bytes, and has room for them. *)
RewoundBuffer(rewound) ==
  [i \in 1..(IF rewound > BodySize THEN rewound ELSE BodySize) |->
     IF i <= rewound THEN i ELSE 0]

(* How the peer frames its message. *)
Meant(m) ==
  CASE m.framing = "length" -> ContentLength(m.sizes[1])
    [] m.framing = "chunked" -> ChunkedEncoding
    [] OTHER -> UntilClosed

(* set_buffer: some bytes of the body came with the header. *)
ReaderInit(mode) ==
  /\ message \in Messages
  /\ read_state = Initial(mode)
  /\ cut \in 0..Len(wire) /\ closes \in BOOLEAN
  /\ cut < Len(wire) => closes    \* to fall silent is but to be slow
  /\ \E rewound \in 0..cut :
       /\ taken = rewound /\ rewind_buf_size = rewound
       /\ body_buffer = RewoundBuffer(rewound)
  /\ returned = [is |-> "nothing", slice |-> <<>>]
  /\ delivered = <<>>
  /\ overlapped = FALSE

(* is_finished *)
Finished == read_state.is \in {"completed", "done"}

-----------------------------------------------------------------------------
(* stream.read into the buffer from index at on: some bytes, as many as came
   and fit, or none at the peer's close; otherwise the call waits. *)
Received(at) ==
  IF taken < cut THEN { n \in 1..(cut - taken) : at + n <= Len(body_buffer) }
  ELSE IF closes THEN {0} ELSE {}

Filled(buffer, at, n) ==
  [i \in DOMAIN buffer |-> IF i \in (at + 1)..(at + n) THEN taken + i - at ELSE buffer[i]]

(* The rewound bytes first, once; then the stream. *)
ReadFresh(n) ==
  /\ rewind_buf_size' = 0
  /\ IF rewind_buf_size > 0
       THEN n = rewind_buf_size /\ UNCHANGED <<body_buffer, taken>>
       ELSE /\ n \in Received(0)
            /\ body_buffer' = Filled(body_buffer, 0, n)
            /\ taken' = taken + n

Some(buffer, start, len) ==
  LET slice == SubSeq(buffer, start + 1, start + len) IN
  /\ returned' = [is |-> "some", slice |-> slice]
  /\ delivered' = delivered \o slice

Nothing(is) ==
  /\ returned' = [is |-> is, slice |-> <<>>]
  /\ UNCHANGED delivered

(* read_partially *)
ReadPartially(n) ==
  LET s == read_state IN
  /\ s.is = "partial" /\ ReadFresh(n)
  /\ \/ /\ n = 0 /\ Nothing("error")
        /\ read_state' = Sized("done", s.read, 0)
     \/ /\ n >= s.expect /\ Some(body_buffer', 0, s.expect)
        /\ read_state' = Sized("completed", s.read + s.expect, 0)
     \/ /\ n \in 1..(s.expect - 1) /\ Some(body_buffer', 0, n)
        /\ read_state' = Sized("partial", s.read + n, s.expect - n)
  /\ UNCHANGED <<message_vars, overlapped>>

(* Mutant: the close is an empty read like others. *)
ReadUntilClosedOn(n) ==
  LET s == read_state IN
  /\ s.is = "http10" /\ ReadFresh(n) /\ Some(body_buffer', 0, n)
  /\ read_state' = Sized("http10", s.read + n, 0)
  /\ UNCHANGED <<message_vars, overlapped>>

(* read_until_closed *)
ReadUntilClosed(n) ==
  LET s == read_state IN
  /\ s.is = "http10" /\ ReadFresh(n)
  /\ \/ /\ n = 0 /\ Nothing("none")
        /\ read_state' = Sized("completed", s.read, 0)
     \/ /\ n > 0 /\ Some(body_buffer', 0, n)
        /\ read_state' = Sized("http10", s.read + n, 0)
  /\ UNCHANGED <<message_vars, overlapped>>

-----------------------------------------------------------------------------
(* read_chunked *)

Kind(b) == IF b = 0 THEN "junk" ELSE wire[b].kind

(* httparse::parse_chunk_size: a head is legal as far as each of its bytes may
   follow the one before; it ends with the first line feed. *)
MayFollow(before, kind) ==
  CASE kind = "size" -> before = "start"
    [] kind \in {"ext", "cr"} -> before \in {"size", "ext"}
    [] kind = "lf" -> before = "cr"
    [] OTHER -> FALSE

ParseChunkSize(b) ==
  LET ends == { i \in 1..Len(b) : Kind(b[i]) = "lf" }
      end  == IF ends = {} THEN Len(b) ELSE Min(ends)
  IN  IF \E i \in 1..end : ~MayFollow(IF i = 1 THEN "start" ELSE Kind(b[i - 1]), Kind(b[i]))
        THEN [is |-> "error"]
      ELSE IF ends = {} THEN [is |-> "partial"]
      ELSE [is |-> "complete", payload |-> end, size |-> wire[b[1]].n]

Interrupted ==
  /\ read_state' = Sized("done", read_state.read, 0)
  /\ Nothing("error")

(* parse_chunked_buf: the buffer from start to end begins with a chunk head. *)
ParseChunkedBuf(buffer, start, end) ==
  LET b == SubSeq(buffer, start + 1, end)
      status == ParseChunkSize(b)
      read == read_state.read
  IN
  \/ status.is = "error" /\ Interrupted
  \/ status.is = "partial" /\ Len(b) > HeadLimit /\ Interrupted
  \/ /\ status.is = "partial" /\ Len(b) <= HeadLimit
     /\ read_state' = Chunked(read, 0, end, Len(b))
     /\ Some(buffer, 0, 0)
  \/ /\ status.is = "complete" /\ status.size = 0
     /\ read_state' = Sized("completed", read, 0)
     /\ Nothing("none")
  \/ /\ status.is = "complete" /\ status.size > 0
     /\ LET data_end  == status.payload + status.size
            chunk_end == data_end + 2
            actual == IF data_end > Len(b) THEN Len(b) - status.payload ELSE status.size
        IN  /\ Some(buffer, start + status.payload, actual)
            /\ read_state' =
                 IF chunk_end >= Len(b)
                   THEN Chunked(read + actual, 0, 0, chunk_end - Len(b))
                   ELSE Chunked(read + status.size, start + chunk_end, end, 0)

(* The buffer up to end begins with what was missing of a chunk: expect bytes
   of its payload and its CR LF. *)
TakePayload(buffer, end, expect) ==
  LET read == read_state.read
      payload == IF expect > 2 THEN expect - 2 ELSE 0
  IN
  IF expect >= end + 2
    THEN /\ Some(buffer, 0, end)
         /\ read_state' = Chunked(read + end, 0, 0, expect - end)
    ELSE /\ Some(buffer, 0, payload)
         /\ read_state' = IF expect >= end
                            THEN Chunked(read + payload, 0, 0, expect - end)
                            ELSE Chunked(read + payload, expect, end, 0)

(* A chunk is left in the buffer. *)
ReadLeftChunk ==
  LET s == read_state IN
  /\ s.is = "chunked" /\ s.start # 0
  /\ ParseChunkedBuf(body_buffer, s.start, s.end)
  /\ UNCHANGED <<message_vars, taken, body_buffer, rewind_buf_size, overlapped>>

(* The buffer is read anew. *)
ReadNextChunk(n) ==
  LET s == read_state IN
  /\ s.is = "chunked" /\ s.start = 0 /\ s.end = 0
  /\ ReadFresh(n)
  /\ \/ n = 0 /\ Interrupted
     \/ n > 0 /\ s.expect > 0 /\ TakePayload(body_buffer', n, s.expect)
     \/ n > 0 /\ s.expect = 0 /\ ParseChunkedBuf(body_buffer', 0, n)
  /\ UNCHANGED <<message_vars, overlapped>>

(* Mutant: the partial head stays where it is. *)
MovedHeadUnmoved == body_buffer

(* A partial chunk head goes to the front of the buffer ... *)
MovedHead ==
  LET s == read_state IN
  [i \in DOMAIN body_buffer |->
     IF i <= s.expect THEN body_buffer[s.end - s.expect + i] ELSE body_buffer[i]]

(* ... and more is read behind it. *)
ReadPartialHead(n) ==
  LET s == read_state IN
  /\ s.is = "chunked" /\ s.start = 0 /\ s.end # 0
  /\ n \in Received(s.expect)
  /\ body_buffer' = Filled(MovedHead, s.expect, n)
  /\ taken' = taken + n
  /\ ParseChunkedBuf(body_buffer', 0, s.expect + n)
  /\ UNCHANGED <<message_vars, rewind_buf_size, overlapped>>

(* That wait is cancelled after the head was moved, and the next call will move
   it again.  To cancel any other wait changes nothing. *)
CancelPartialHead ==
  LET s == read_state IN
  /\ s.is = "chunked" /\ s.start = 0 /\ s.end # 0
  /\ body_buffer' = MovedHead
  /\ overlapped' = (overlapped \/ s.end - s.expect \in 1..(s.expect - 1))
  /\ UNCHANGED <<message_vars, taken, read_state, rewind_buf_size, returned, delivered>>

ReadBody ==
  \/ \E n \in 0..cut :
       \/ ReadPartially(n) \/ ReadUntilClosed(n)
       \/ ReadNextChunk(n) \/ ReadPartialHead(n)
  \/ ReadLeftChunk
=============================================================================
