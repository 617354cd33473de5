------------------------------ MODULE BodyRelay ------------------------------
(***************************************************************************)
(* A message body on its way through the duplex: the session on one side   *)
(* reads it with a BodyReader, its tasks wait in the channel, the session  *)
(* on the other side writes it with a BodyWriter.  The two sides of        *)
(* a request are downstream.rs and upstream.rs, those of a response        *)
(* upstream.rs and downstream.rs.  The head is written before, and both    *)
(* framings are taken from it.                                             *)
(***************************************************************************)
EXTENDS BodyReader, BodyWriter

CONSTANTS
  ChannelSize,   \* BUFFER_SIZE, 32 in the source
  Heads          \* of exchanges: [request, response], the latter None if the
                 \*   message is the request

ASSUME RelayAssumption ==
  /\ ChannelSize \in Nat \ {0}
  /\ \A h \in Heads : h.request \in RequestHeads /\ h.response \in ResponseHeads \cup {None}

VARIABLES
  head,
  tasks,      \* the channel: Body(slice, end), or Failed
  writer,     \* a record, see BodyWriter
  outcome,    \* of the writing side
  hollow      \* history: a task of a chunked request was empty, not its last

relay_vars == <<head, tasks, writer, outcome, hollow>>
vars == <<reader_vars, relay_vars>>

Task(is, slice, end) == [is |-> is, slice |-> slice, end |-> end]

direction == IF head.response = None THEN "request" ELSE "response"

(* A response without a body ends with its header; a request without one is
   never read. *)
Init ==
  /\ head \in Heads
  /\ IF direction = "request"
       THEN /\ ReaderInit(RequestReader(head.request))
            /\ Meant(message) = RequestMeant(head.request)
            /\ writer = NewWriter(RequestWriter(head.request), Meant(message))
       ELSE /\ ReaderInit(ResponseReader(head.request, head.response))
            /\ Meant(message) = ResponseMeant(head.request, head.response)
            /\ writer = NewWriter(ResponseWriter(head.request, head.response), Meant(message))
  /\ tasks = IF direction = "response" /\ Finished
               THEN <<Task("body", <<>>, TRUE)>> ELSE <<>>
  /\ outcome = "running" /\ hollow = FALSE

(* read_downstream_request, read_upstream_response: one call, and its task in the
   channel.  The end of a chunked request that asks for an upgrade is Task::Done,
   which handle_downstream does not pass on. *)
ReadTask(call) ==
  LET failed == returned'.is = "error"
      done   == direction = "request" /\ IsRequestUpgrade(head.request) /\ returned'.is = "none"
      task   == Task(IF failed THEN "failed" ELSE "body", returned'.slice, ~failed /\ Finished')
  IN
  /\ outcome = "running" /\ ~Finished /\ Len(tasks) < ChannelSize
  /\ call
  /\ tasks' = IF done THEN tasks ELSE Append(tasks, task)
  /\ hollow' = \/ hollow
               \/ read_state.is = "chunked" /\ returned'.is = "some" /\ returned'.slice = <<>>
  /\ UNCHANGED <<head, writer, outcome>>

Cancel ==
  /\ outcome = "running" /\ CancelPartialHead
  /\ UNCHANGED relay_vars

Ends(w, end) ==
  /\ writer' = IF end THEN Finish(w) ELSE w
  /\ outcome' = IF ~end THEN "running" ELSE IF Premature(w) THEN "error" ELSE "done"

Failed(w, is) == writer' = w /\ outcome' = is

(* write_upstream_request: one task, its body written even if it is empty; it
   panics on a Failed. *)
WriteRequest ==
  /\ outcome = "running" /\ direction = "request" /\ tasks # <<>>
  /\ LET task == Head(tasks) IN
       \/ task.is = "failed" /\ Failed(writer, "panic")
       \/ /\ task.is = "body"
          /\ LET none == task.slice = <<>> /\ task.end
             IN  Ends(IF none THEN writer ELSE WriteBody(writer, task.slice), task.end)
  /\ tasks' = Tail(tasks)
  /\ UNCHANGED <<reader_vars, head, hollow>>

(* Mutant: each body is written, the empty ones too. *)
WriteResponseHollow ==
  /\ outcome = "running" /\ direction = "response" /\ tasks # <<>>
  /\ LET last == tasks[Len(tasks)]
         w    == WriteBody(writer, FlattenSeq([i \in 1..Len(tasks) |-> tasks[i].slice]))
     IN  \/ last.is = "failed" /\ Failed(w, "error")
         \/ last.is = "body" /\ Ends(w, last.end)
  /\ tasks' = <<>>
  /\ UNCHANGED <<reader_vars, head, hollow>>

(* write_downstream_response: all the tasks there are, their bodies at once if
   there is anything in them.  An error is returned once they are written. *)
WriteResponse ==
  /\ outcome = "running" /\ direction = "response" /\ tasks # <<>>
  /\ LET last == tasks[Len(tasks)]
         all  == FlattenSeq([i \in 1..Len(tasks) |-> tasks[i].slice])
         w    == IF all = <<>> THEN writer ELSE WriteBody(writer, all)
     IN  \/ last.is = "failed" /\ Failed(w, "error")
         \/ last.is = "body" /\ Ends(w, last.end)
  /\ tasks' = <<>>
  /\ UNCHANGED <<reader_vars, head, hollow>>

Read  == ReadTask(ReadBody)
Write == WriteRequest \/ WriteResponse

Next == Read \/ Cancel \/ Write

Spec == Init /\ [][Next]_vars

(* The runtime polls both loops of the duplex. *)
FairSpec == Spec /\ WF_vars(Read) /\ WF_vars(Write)
=============================================================================
