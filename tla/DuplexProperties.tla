-------------------------- MODULE DuplexProperties --------------------------
(***************************************************************************)
(* What proxying one request owes its client, its server and the pool.     *)
(***************************************************************************)
EXTENDS Duplex

(* Every loop, channel and party holds what it should hold, and the channels
   their bound. *)
TypeOK ==
  /\ req \in Requests /\ sent \in 0..Units /\ got \in 0..sent
  /\ {client_eof, extra, c_end, server_eof, s_end, d_req, d_resp, permit, reading,
      u_req, u_resp, partial, u_reading, lost} \subseteq BOOLEAN
  /\ c_head \in {"none", "info", "final"} /\ c_body \in 0..RespPieces
  /\ srv \in {"wait", "informed", "split", "body", "over"}
  /\ made \in 0..RespPieces /\ framing \in {"framed", "closed"}
  /\ s_body \in 0..ReqPieces
  /\ sin \in Seq({"info", "part", "rest", "head", "bare", "switch", "data", "data_end"})
  /\ d_pc \in {"loop", "failing", "returned"}
  /\ u_pc \in {"loop", "sending", "returned"}
  /\ pending \in ResponseTasks \cup {"none"}
  /\ header \in {"none", "info", "final", "switch"}
  /\ reqs \in Seq(RequestTasks) /\ Len(reqs) <= BufferSize
  /\ resps \in Seq(ResponseTasks) /\ Len(resps) <= BufferSize
  /\ outcome \in {"running", "error", "panic"}

-----------------------------------------------------------------------------
(* The exception to much of what follows: the server answered a HEAD with a 1xx
   first.  set_response_body_reader looks at the method before the status
   (upstream.rs:288-306), and completes the body of a header that it means to
   "ignore": both loops end, the client has the 1xx alone, and the final
   response is left in a stream that goes back to the pool. *)
HeadInformed == req.head /\ header = "info"

(* The client gets no more of the response than the server made, a body only
   after a final header, and its end only if it has that header and the server
   ended the response: one that was cut short is never finished as if it were
   whole.  (In an upgraded session the end of the request ends the response
   too.) *)
ServerEnded ==
  srv = "over" \/ (framing = "closed" /\ server_eof)

ResponseFaithful ==
  /\ c_body <= made
  /\ c_body > 0 => c_head = "final"
  /\ c_end /\ ~HeadInformed => c_head = "final"
  /\ c_end /\ ~HeadInformed /\ header # "switch" => ServerEnded /\ c_body = made

(* The server gets no more of the request than the client sent, and its end
   only if it has got all of it, however early it answers. *)
RequestFaithful ==
  /\ s_body <= sent
  /\ s_end => s_body = (IF req.framing = "closed" THEN sent ELSE req.pieces)
  /\ s_end /\ req.framing = "closed" => client_eof

(* Neither loop receives from a channel that is closed and empty: the last task
   each sends is an end or Failed, which ends the other.  It would otherwise
   mark its half as done, and the stream would be pooled mid-response. *)
NoneNeverReceived ==
  /\ ~(MayWrite /\ resps = <<>> /\ u_pc = "returned")
  /\ ~(MaySend /\ reqs = <<>> /\ d_pc = "returned")

(* A stream is returned to the pool with its response read to the end: what is
   left of one would be taken for the response to the next request on it.  Header
   bytes that were thrown away may leave such a rest, but never behind a response
   that its client took for complete.  (An upgraded stream is returned too,
   though it carries no responses any more.) *)
NoResponseLeft ==
  Pooled /\ ~HeadInformed /\ header # "switch" =>
    \/ sin = <<>> /\ (ServerEnded \/ server_eof)
    \/ lost /\ ~c_end

(* A stream goes back to the pool only after its client was served, or after
   something the client sent (a close, a byte too many, a body the server did
   not wait for) ended the reading side first.  The exception is an upgrade
   request in chunks that was read to its end: that end is mistaken for the end
   of the response. *)
PooledIsServed ==
  Pooled => \/ c_end
            \/ client_eof \/ extra \/ got < sent
            \/ req.upgrade /\ req.framing = "chunked" /\ got = Units

(* A stream is returned to the pool with nothing of this exchange left undone. *)
PooledIsOver == NoResponseLeft /\ PooledIsServed

-----------------------------------------------------------------------------
(* Between a polite client and a polite server every exchange ends whose request
   fits its channel: the client has the whole response, the stream is back in
   the pool. *)
ExchangeCompletes ==
  req.polite /\ Units <= BufferSize ~>
    Pooled /\ c_end /\ c_body = made /\ (c_head = "final" \/ HeadInformed)

(* pool.rs:165: the pool "holds a reusable connection".  A stream that is
   returned after a polite exchange can carry the next request: the server has
   the whole of this one, and nothing of its response is left. *)
PooledIsReusable ==
  Pooled /\ req.polite /\ ~HeadInformed =>
    RequestComplete /\ srv = "over" /\ sin = <<>> /\ ~server_eof

(* Once both sockets are closed the exchange ends, however far it was and
   whatever either loop was waiting for.  The exception: handle_downstream sends
   its Failed task while it still holds the slot it reserved, the rest of that
   channel is full, and handle_upstream waits for a slot of the other one, which
   only handle_downstream would empty.  The two wait for each other for ever. *)
BothFull ==
  /\ d_pc = "failing" /\ Len(reqs) + 1 >= BufferSize
  /\ u_pc = "sending" /\ Len(resps) = BufferSize

ClosedEnds == client_eof /\ server_eof ~> Over \/ BothFull

-----------------------------------------------------------------------------
(* duplex.rs:113: the first branch of handle_downstream is "the first process
   that executes concurrently", to "read the request from downstream and send
   the request task to upstream": what the client sent is read, or the exchange
   ends. *)
RequestIsRead == \A n \in 1..(ReqPieces + 1) : sent >= n ~> (got >= n \/ Over)

(* upstream.rs:510: another task than Body "should never happend, sender only
   send body". *)
SenderOnlySendsBody == \A i \in 1..Len(reqs) : reqs[i] # "failed"
=============================================================================
