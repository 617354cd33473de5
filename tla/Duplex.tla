------------------------------- MODULE Duplex -------------------------------
(***************************************************************************)
(* One request and its response through Service::handle_process of the     *)
(* core crate (service/proxy/duplex.rs with session/downstream.rs and      *)
(* session/upstream.rs), once the request header has been written to the   *)
(* server.  Two loops run in one tokio task and meet at every await:       *)
(* handle_downstream (d_...) reads the client's request and writes the     *)
(* response, handle_upstream (u_...) writes the request and reads the      *)
(* server's response.  Two bounded channels carry the tasks between them;   *)
(* neither loop ever finds its channel closed and empty (NoneNeverReceived *)
(* in DuplexProperties), so the branches for that are not actions here.    *)
(*                                                                         *)
(* A message body is a number of units: what one read returns, and for a   *)
(* chunked request the terminating chunk.  The loss or closing of a socket *)
(* is an event of the client or of the server.                             *)
(***************************************************************************)
EXTENDS Naturals, Sequences, FiniteSets

CONSTANTS
  ReqPieces,    \* most pieces of data in a request's body
  RespPieces,   \* most pieces of data in a response's body
  BufferSize,   \* BUFFER_SIZE, 32 in the source
  Manners       \* whether client and server may be polite, rude (see the end)

ASSUME DuplexAssumption ==
  /\ ReqPieces \in Nat /\ RespPieces \in Nat
  /\ BufferSize \in Nat \ {0}
  /\ Manners \subseteq BOOLEAN /\ Manners # {}

VARIABLES
  req,                \* the request: its body, its framing, its headers,
                      \*   and the manners of client and server
  sent, client_eof, extra,     \* client: units sent, side closed, a byte
                               \*   beyond the request sent
  c_head, c_body, c_end,       \* client: what it has got of the response
  srv, made, framing, server_eof,  \* server: phase, pieces and framing of the
                               \*   response, connection closed
  s_body, s_end,      \* server: pieces of the request it has got, end of body
  sin,                \* response units in the socket to the upstream session
  d_pc, d_req, d_resp, permit, \* handle_downstream: request_done,
                               \*   response_done, sender_permit
  got, reading,       \* request units read, body reader not finished
  u_pc, u_req, u_resp, pending,    \* handle_upstream, and the task it sends
  header, partial, u_reading,  \* response header read, bytes of one in
                               \*   read_response, body reader not finished
  reqs, resps,        \* the two channels
  outcome,            \* of the joined loops, while they have not both returned
  lost                \* history: header bytes were read and thrown away

client_vars == <<sent, client_eof, extra>>
view_vars   == <<c_head, c_body, c_end>>
server_vars == <<srv, made, framing, server_eof>>
sreq_vars   == <<s_body, s_end>>
d_vars      == <<d_pc, d_req, d_resp, permit, got, reading>>
u_vars      == <<u_pc, u_req, u_resp, pending, header, partial, u_reading>>
vars == <<req, client_vars, view_vars, server_vars, sreq_vars, sin, d_vars,
          u_vars, reqs, resps, outcome, lost>>

(* The tasks of a request: Body(Some, false), Body(Some, true),
   Body(None, true), Failed. *)
RequestTasks == {"data", "data_end", "end", "failed"}

(* The tasks of a response: Header of a 1xx, of a final one with a body to come,
   of a 101, and the three that end the response: of a final one without a body,
   and of a 1xx or 101 that answers a HEAD; the three Body; Done; Failed. *)
ResponseTasks ==
  {"info", "head", "switch", "bare", "informed", "switched",
   "data", "data_end", "end", "done", "failed"}

(* Task::is_end *)
IsEnd(task) ==
  task \in {"bare", "informed", "switched", "data_end", "end", "done", "failed"}

Requests ==
  { r \in [pieces : 0..ReqPieces, framing : {"length", "chunked", "closed"},
           head : BOOLEAN,                       \* the method is HEAD
           upgrade : BOOLEAN, expect : BOOLEAN, polite : Manners] :
      /\ r.framing = "closed" => ~r.upgrade      \* HTTP/1.0 knows no upgrades
      /\ r.expect => r.polite /\ r.pieces > 0    \* others need not wait
      /\ r.polite => ~r.upgrade /\ r.framing # "closed" }

(* What the client sends: the pieces, and the terminating chunk. *)
Units == req.pieces + (IF req.framing = "chunked" THEN 1 ELSE 0)

Init ==
  /\ req \in Requests
  /\ sent = 0 /\ client_eof = FALSE /\ extra = FALSE
  /\ c_head = "none" /\ c_body = 0 /\ c_end = FALSE
  /\ srv = "wait" /\ made = 0 /\ framing = "framed" /\ server_eof = FALSE
  /\ s_body = 0 /\ s_end = FALSE
  /\ sin = <<>>
  /\ d_pc = "loop" /\ d_req = FALSE /\ d_resp = FALSE /\ permit = TRUE
  /\ got = 0 /\ reading = (Units > 0 \/ req.framing = "closed")
  /\ u_pc = "loop" /\ u_req = FALSE /\ u_resp = FALSE /\ pending = "none"
  /\ header = "none" /\ partial = FALSE /\ u_reading = TRUE
  /\ reqs = <<>> /\ resps = <<>>
  /\ outcome = "running" /\ lost = FALSE

Running  == outcome = "running"
Pooled   == Running /\ d_pc = "returned" /\ u_pc = "returned"
Over     == ~Running \/ Pooled

-----------------------------------------------------------------------------
(* handle_downstream *)

(* Mutant: a slot is left unused. *)
IterateSparing(queue, request_done, response_done) ==
  /\ d_req' = request_done
  /\ d_resp' = response_done
  /\ permit' = (Len(queue) + 1 < BufferSize /\ u_pc # "returned")
  /\ d_pc' = IF response_done /\ (request_done \/ ~permit')
               THEN "returned" ELSE "loop"

(* The next iteration begins: try_reserve, and the guards of select! with its
   else branch.  A slot is reserved if the channel has one and handle_upstream
   has not returned; reading waits for the next iteration otherwise. *)
Iterate(queue, request_done, response_done) ==
  /\ d_req' = request_done
  /\ d_resp' = response_done
  /\ permit' = (Len(queue) < BufferSize /\ u_pc # "returned")
  /\ d_pc' = IF response_done /\ (request_done \/ ~permit')
               THEN "returned" ELSE "loop"

MayRead == Running /\ d_pc = "loop" /\ ~d_req /\ permit

SendRequest(task, end) ==
  /\ reqs' = Append(reqs, task)
  /\ reading' = ~end
  /\ Iterate(reqs', end, d_resp)
  /\ UNCHANGED <<req, client_vars, view_vars, server_vars, sreq_vars, sin, u_vars,
                 resps, outcome, lost>>

(* A unit of the request is read; Units is never reached without a framing
   that tells the end. *)
DRead ==
  /\ MayRead /\ reading /\ got < sent
  /\ got' = got + 1
  /\ LET end  == got + 1 = Units /\ req.framing # "closed"
         none == got + 1 > req.pieces          \* the terminating chunk
     IN  /\ ~(none /\ req.upgrade)
         /\ SendRequest(IF none THEN "end" ELSE IF end THEN "data_end" ELSE "data",
                        end)

(* The end of an upgrade request without data is Task::Done. *)
DReadDone ==
  /\ MayRead /\ reading /\ got < sent
  /\ req.upgrade /\ got + 1 > req.pieces
  /\ got' = got + 1
  /\ reading' = FALSE
  /\ Iterate(reqs, d_req, TRUE)
  /\ UNCHANGED <<req, client_vars, view_vars, server_vars, sreq_vars, sin, u_vars,
                 reqs, resps, outcome, lost>>

(* Mutant: the close of any client ends its request. *)
DReadClosedAnyhow ==
  /\ MayRead /\ reading /\ got = sent /\ client_eof
  /\ SendRequest("end", TRUE)
  /\ UNCHANGED got

(* The close of an HTTP/1.0 client ends its request. *)
DReadClosed ==
  /\ MayRead /\ reading /\ got = sent /\ client_eof /\ req.framing = "closed"
  /\ SendRequest("end", TRUE)
  /\ UNCHANGED got

(* A close in the middle of the body, or anything at all that is read when the
   reader is finished, is an error. *)
DReadFails ==
  /\ MayRead
  /\ \/ reading /\ got = sent /\ client_eof /\ req.framing # "closed"
     \/ ~reading /\ (got < sent \/ extra \/ client_eof)
  /\ d_pc' = "failing"
  /\ UNCHANGED <<req, client_vars, view_vars, server_vars, sreq_vars, sin, d_req,
                 d_resp, permit, got, reading, u_vars, reqs, resps, outcome, lost>>

(* Mutant: the other loop is not told. *)
DReturnSilently ==
  /\ Running /\ d_pc = "failing"
  /\ d_pc' = "returned"
  /\ UNCHANGED <<req, client_vars, view_vars, server_vars, sreq_vars, sin, d_req,
                 d_resp, permit, got, reading, u_vars, reqs, resps, outcome, lost>>

(* Its Failed task needs a slot beside the reserved one. *)
DSendFailed ==
  /\ Running /\ d_pc = "failing"
  /\ \/ u_pc = "returned" /\ UNCHANGED reqs
     \/ /\ u_pc # "returned" /\ Len(reqs) + 1 < BufferSize
        /\ reqs' = Append(reqs, "failed")
  /\ d_pc' = "returned"
  /\ UNCHANGED <<req, client_vars, view_vars, server_vars, sreq_vars, sin, d_req,
                 d_resp, permit, got, reading, u_vars, resps, outcome, lost>>

MayWrite == Running /\ d_pc = "loop" /\ ~d_resp

(* All tasks there are written at once.  A final header, unless it is a 101,
   that the session goes on with, ends the reading of the request; a Failed task
   comes last. *)
Taken(tasks) == { i \in 1..Len(resps) : resps[i] \in tasks }
Finals == {"head", "bare", "switch", "switched"}

(* Mutant: a Failed task finishes the response. *)
DWriteFinishing ==
  /\ MayWrite /\ resps # <<>>
  /\ resps' = <<>>
  /\ c_head' = IF Taken(Finals) # {} THEN "final"
               ELSE IF Taken({"info", "informed"}) # {} THEN "info" ELSE c_head
  /\ c_body' = c_body + Cardinality(Taken({"data", "data_end"}))
  /\ c_end' = IsEnd(resps[Len(resps)])
  /\ reading' = (reading /\ Taken({"head", "bare", "switched"}) = {})
  /\ Iterate(reqs, IsEnd(resps[Len(resps)]), IsEnd(resps[Len(resps)]))
  /\ UNCHANGED <<req, client_vars, server_vars, sreq_vars, sin, got, u_vars, reqs,
                 outcome, lost>>

DWrite ==
  /\ MayWrite /\ resps # <<>>
  /\ resps' = <<>>
  /\ c_head' = IF Taken(Finals) # {} THEN "final"
               ELSE IF Taken({"info", "informed"}) # {} THEN "info" ELSE c_head
  /\ c_body' = c_body + Cardinality(Taken({"data", "data_end"}))
  /\ reading' = (reading /\ Taken({"head", "bare", "switched"}) = {})
  /\ LET last == resps[Len(resps)] IN
       IF last = "failed"
         THEN outcome' = "error" /\ UNCHANGED <<c_end, d_pc, d_req, d_resp, permit>>
         ELSE /\ c_end' = IsEnd(last)
              /\ Iterate(reqs, IsEnd(last), IsEnd(last))
              /\ UNCHANGED outcome
  /\ UNCHANGED <<req, client_vars, server_vars, sreq_vars, sin, got, u_vars, reqs,
                 lost>>

(* The client is gone. *)
DWriteFails ==
  /\ MayWrite /\ resps # <<>> /\ client_eof
  /\ outcome' = "error"
  /\ UNCHANGED <<req, client_vars, view_vars, server_vars, sreq_vars, sin, d_vars,
                 u_vars, reqs, resps, lost>>

Downstream ==
  DRead \/ DReadDone \/ DReadClosed \/ DReadFails \/ DSendFailed \/ DWrite
    \/ DWriteFails

-----------------------------------------------------------------------------
(* handle_upstream *)

MayReceive == Running /\ u_pc = "loop" /\ ~u_resp

(* A task was read: both flags follow its end, and it is sent. *)
Received(task) ==
  /\ u_pc' = "sending"
  /\ pending' = task
  /\ u_resp' = IF task = "failed" THEN u_resp ELSE IsEnd(task)
  /\ u_req' = IF task = "failed" THEN u_req ELSE IsEnd(task)
  /\ UNCHANGED <<req, client_vars, view_vars, server_vars, sreq_vars, d_vars, reqs,
                 resps, outcome>>

HeaderDue == header \in {"none", "info"}

(* Mutant: a 1xx is a status without a body, like 204 and 304. *)
UReadInfoBodiless ==
  /\ MayReceive /\ HeaderDue /\ sin # <<>> /\ Head(sin) = "info"
  /\ \E n \in 1..Len(sin) :
       /\ sin' = SubSeq(sin, n + 1, Len(sin))
       /\ lost' = (lost \/ n > 1)
  /\ header' = "info"
  /\ Received("informed")
  /\ u_reading' = FALSE
  /\ UNCHANGED partial

(* read_response gets a 1xx header, and throws away what was read with it.
   set_response_body_reader sees a HEAD before it sees that the header is only
   informational: the body, and with it the response, is over. *)
UReadInfo ==
  /\ MayReceive /\ HeaderDue /\ sin # <<>> /\ Head(sin) = "info"
  /\ \E n \in 1..Len(sin) :
       /\ sin' = SubSeq(sin, n + 1, Len(sin))
       /\ lost' = (lost \/ n > 1)
  /\ header' = "info"
  /\ Received(IF req.head THEN "informed" ELSE "info")
  /\ u_reading' = (u_reading /\ ~req.head)
  /\ UNCHANGED partial

(* The first part of a header stays in a buffer of the read in progress. *)
UReadPart ==
  /\ MayReceive /\ HeaderDue /\ sin # <<>> /\ Head(sin) = "part"
  /\ sin' = Tail(sin)
  /\ partial' = TRUE
  /\ UNCHANGED <<req, client_vars, view_vars, server_vars, sreq_vars, d_vars, u_pc,
                 u_req, u_resp, pending, header, u_reading, reqs, resps, outcome,
                 lost>>

(* A header that was read as the response to the request: whatever answers a
   HEAD has no body. *)
HeaderTask(unit) ==
  CASE unit = "switch"         -> IF req.head THEN "switched" ELSE "switch"
    [] unit \in {"head", "rest"} -> IF req.head THEN "bare" ELSE "head"
    [] OTHER                   -> "bare"

(* A final header is complete. *)
UReadHeader ==
  /\ MayReceive /\ HeaderDue /\ sin # <<>>
  /\ \/ Head(sin) \in {"head", "bare", "switch"}
     \/ Head(sin) = "rest" /\ partial
  /\ header' = IF Head(sin) = "switch" THEN "switch" ELSE "final"
  /\ u_reading' = ~IsEnd(HeaderTask(Head(sin)))
  /\ Received(HeaderTask(Head(sin)))
  /\ sin' = Tail(sin)
  /\ partial' = FALSE
  /\ UNCHANGED lost

(* Mutant: every read ends the body. *)
UReadBodyOnce ==
  /\ MayReceive /\ ~HeaderDue /\ u_reading /\ sin # <<>>
  /\ Head(sin) \in {"data", "data_end"}
  /\ sin' = Tail(sin)
  /\ u_reading' = FALSE
  /\ Received("data_end")
  /\ UNCHANGED <<header, partial, lost>>

UReadBody ==
  /\ MayReceive /\ ~HeaderDue /\ u_reading /\ sin # <<>>
  /\ Head(sin) \in {"data", "data_end"}
  /\ sin' = Tail(sin)
  /\ u_reading' = ~IsEnd(Head(sin))
  /\ Received(Head(sin))
  /\ UNCHANGED <<header, partial, lost>>

(* The close of the server ends a response framed by it. *)
UReadClosed ==
  /\ MayReceive /\ ~HeaderDue /\ u_reading /\ sin = <<>> /\ server_eof
  /\ framing = "closed"
  /\ u_reading' = FALSE
  /\ Received("end")
  /\ UNCHANGED <<sin, header, partial, lost>>

(* The reader was closed by the end of the request of an upgraded session. *)
UReadDone ==
  /\ MayReceive /\ ~HeaderDue /\ ~u_reading
  /\ Received("done")
  /\ UNCHANGED <<sin, header, partial, u_reading, lost>>

(* Mutant: a close within a header is taken for a read that got nothing yet. *)
UReadFailsOnBody ==
  /\ MayReceive
  /\ \/ sin = <<>> /\ server_eof /\ ~HeaderDue /\ u_reading /\ framing = "framed"
     \/ sin # <<>> /\ HeaderDue /\ Head(sin) \in {"data", "data_end"}
     \/ sin # <<>> /\ HeaderDue /\ Head(sin) = "rest" /\ ~partial
  /\ Received("failed")
  /\ partial' = FALSE
  /\ UNCHANGED <<sin, header, u_reading, lost>>

(* A close in the middle of a header or body; or bytes that are no header
   where one is due. *)
UReadFails ==
  /\ MayReceive
  /\ \/ sin = <<>> /\ server_eof /\ HeaderDue /\ partial
     \/ sin = <<>> /\ server_eof /\ ~HeaderDue /\ u_reading /\ framing = "framed"
     \/ sin # <<>> /\ HeaderDue /\ Head(sin) \in {"data", "data_end"}
     \/ sin # <<>> /\ HeaderDue /\ Head(sin) = "rest" /\ ~partial
  /\ Received("failed")
  /\ partial' = FALSE
  /\ UNCHANGED <<sin, header, u_reading, lost>>

(* A close where a header is due is no error of read_response.  The header
   there should be is then unwrapped, or the body of the 1xx read before looked
   up in a buffer that is empty again: a panic either way. *)
UReadNothing ==
  /\ MayReceive /\ HeaderDue /\ ~partial /\ sin = <<>> /\ server_eof
  /\ outcome' = "panic"
  /\ UNCHANGED <<req, client_vars, view_vars, server_vars, sreq_vars, sin, d_vars,
                 u_vars, reqs, resps, lost>>

(* Mutant: the channel has no bound. *)
USendUnbounded ==
  /\ Running /\ u_pc = "sending" /\ d_pc # "returned"
  /\ resps' = Append(resps, pending)
  /\ pending' = "none"
  /\ u_pc' = IF pending = "failed" \/ (u_req /\ u_resp) THEN "returned" ELSE "loop"
  /\ UNCHANGED <<req, client_vars, view_vars, server_vars, sreq_vars, sin, d_vars,
                 u_req, u_resp, header, partial, u_reading, reqs, lost, outcome>>

(* The send goes through, or finds that handle_downstream has returned: an
   error, unless the task was Failed or the request an upgrade. *)
USend ==
  /\ Running /\ u_pc = "sending"
  /\ \/ d_pc # "returned" /\ Len(resps) < BufferSize /\ resps' = Append(resps, pending)
     \/ d_pc = "returned" /\ UNCHANGED resps
  /\ IF d_pc = "returned" /\ pending # "failed" /\ ~req.upgrade
       THEN outcome' = "error" /\ UNCHANGED <<u_pc, pending>>
       ELSE /\ pending' = "none"
            /\ u_pc' = IF pending = "failed" \/ (u_req /\ u_resp)
                         THEN "returned" ELSE "loop"
            /\ UNCHANGED outcome
  /\ UNCHANGED <<req, client_vars, view_vars, server_vars, sreq_vars, sin, d_vars,
                 u_req, u_resp, header, partial, u_reading, reqs, lost>>

MaySend == Running /\ u_pc = "loop" /\ ~u_req

(* A task of the request is written, and the read in progress dropped, since
   the other branch of select! won.  The end of the request also closes the
   response reader of an upgraded session. *)
UWrite ==
  /\ MaySend /\ reqs # <<>> /\ Head(reqs) # "failed"
  /\ reqs' = Tail(reqs)
  /\ s_body' = s_body + (IF Head(reqs) \in {"data", "data_end"} THEN 1 ELSE 0)
  /\ s_end' = (s_end \/ IsEnd(Head(reqs)))
  /\ u_reading' = (u_reading /\ ~(IsEnd(Head(reqs)) /\ header = "switch"))
  /\ u_req' = IsEnd(Head(reqs))
  /\ partial' = FALSE
  /\ lost' = (lost \/ partial)
  /\ UNCHANGED <<req, client_vars, view_vars, server_vars, sin, d_vars, u_pc,
                 u_resp, pending, header, resps, outcome>>

(* The server is gone. *)
UWriteFails ==
  /\ MaySend /\ reqs # <<>> /\ Head(reqs) # "failed" /\ server_eof
  /\ outcome' = "error"
  /\ UNCHANGED <<req, client_vars, view_vars, server_vars, sreq_vars, sin, d_vars,
                 u_vars, reqs, resps, lost>>

(* write_upstream_request panics on any task but Body. *)
UWritePanics ==
  /\ MaySend /\ reqs # <<>> /\ Head(reqs) = "failed"
  /\ outcome' = "panic"
  /\ UNCHANGED <<req, client_vars, view_vars, server_vars, sreq_vars, sin, d_vars,
                 u_vars, reqs, resps, lost>>

Upstream ==
  UReadInfo \/ UReadPart \/ UReadHeader \/ UReadBody \/ UReadClosed \/ UReadDone
    \/ UReadFails \/ UReadNothing \/ USend \/ UWrite \/ UWriteFails
    \/ UWritePanics

-----------------------------------------------------------------------------
(* The client and the server (not part of the program).  A polite client does
   not close or send more, and waits for the 100 it expects; a polite server
   answers a complete request, with a framed response.  No server sends a body
   with the response to a HEAD. *)

RequestComplete ==
  s_body = req.pieces /\ (req.framing = "chunked" => s_end)

ClientSends ==
  /\ ~Over /\ ~client_eof /\ sent < Units
  /\ req.polite /\ req.expect => c_head # "none"
  /\ sent' = sent + 1
  /\ UNCHANGED <<client_eof, extra>>

ClientCloses ==
  /\ ~req.polite /\ ~Over /\ ~client_eof
  /\ client_eof' = TRUE
  /\ UNCHANGED <<sent, extra>>

ClientSendsMore ==
  /\ ~req.polite /\ ~Over /\ ~client_eof /\ sent = Units /\ ~extra
  /\ req.framing # "closed"
  /\ extra' = TRUE
  /\ UNCHANGED <<sent, client_eof>>

Client ==
  /\ ClientSends \/ ClientCloses \/ ClientSendsMore
  /\ UNCHANGED <<req, view_vars, server_vars, sreq_vars, sin, d_vars, u_vars, reqs,
                 resps, outcome, lost>>

Serves(unit) == ~Over /\ ~server_eof /\ sin' = Append(sin, unit)

ServerInforms ==
  /\ srv = "wait" /\ (req.polite => req.expect /\ sent = 0)
  /\ Serves("info")
  /\ srv' = "informed"
  /\ UNCHANGED <<made, framing, server_eof>>

MayAnswer ==
  /\ srv \in {"wait", "informed"}
  /\ req.polite => RequestComplete

ServerAnswers ==
  /\ MayAnswer
  /\ \/ /\ Serves("bare") /\ srv' = "over" /\ UNCHANGED framing
     \/ /\ ~req.head /\ Serves("head") /\ srv' = "body"
        /\ framing' \in (IF req.polite THEN {"framed"} ELSE {"framed", "closed"})
     \/ /\ Serves("part") /\ srv' = "split"
        /\ framing' \in (IF req.polite \/ req.head THEN {"framed"}
                                                   ELSE {"framed", "closed"})
     \/ /\ req.upgrade /\ Serves("switch") /\ srv' = "body" /\ framing' = "closed"
  /\ UNCHANGED <<made, server_eof>>

ServerCompletesHeader ==
  /\ srv = "split" /\ Serves("rest")
  /\ srv' = IF req.head THEN "over" ELSE "body"
  /\ UNCHANGED <<made, framing, server_eof>>

ServerSends ==
  /\ srv = "body" /\ made < RespPieces
  /\ made' = made + 1
  /\ \/ Serves("data") /\ made + 1 < RespPieces /\ UNCHANGED srv
     \/ framing = "closed" /\ Serves("data") /\ UNCHANGED srv
     \/ framing = "framed" /\ Serves("data_end") /\ srv' = "over"
  /\ UNCHANGED <<framing, server_eof>>

ServerCloses ==
  /\ ~req.polite /\ ~Over /\ ~server_eof
  /\ server_eof' = TRUE
  /\ UNCHANGED <<srv, made, framing, sin>>

Server ==
  /\ ServerInforms \/ ServerAnswers \/ ServerCompletesHeader \/ ServerSends
       \/ ServerCloses
  /\ UNCHANGED <<req, client_vars, view_vars, sreq_vars, d_vars, u_vars, reqs, resps,
                 outcome, lost>>

-----------------------------------------------------------------------------
Next == Downstream \/ Upstream \/ Client \/ Server

Spec == Init /\ [][Next]_vars

(* The runtime polls both loops; client and server do what they are to do. *)
FairSpec ==
  Spec /\ WF_vars(Downstream) /\ WF_vars(Upstream) /\ WF_vars(Client)
    /\ WF_vars(Server)
=============================================================================
