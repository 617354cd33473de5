---------------------------- MODULE DuplexProofs ----------------------------
(***************************************************************************)
(* What DuplexProperties states as invariants, proved for bodies of any    *)
(* length and channels of any size.  The inductive invariant follows the   *)
(* tasks: what the last of a channel says of the loop that sent it, and    *)
(* where each piece of a body is between the two sockets.                  *)
(***************************************************************************)
EXTENDS DuplexProperties, TLAPS, FiniteSetTheorems

ServerUnits == {"info", "part", "rest", "head", "bare", "switch", "data", "data_end"}
Data == {"data", "data_end"}
Heads == {"head", "bare", "switch"}
Infos == {"info", "informed"}
Ends == {"bare", "switched", "data_end", "end", "done"}

Count(queue, tasks) == Cardinality({ i \in 1..Len(queue) : queue[i] \in tasks })

(* TypeOK without the bounds of the two bodies, and with the reserved slot. *)
Typing ==
  /\ req \in Requests
  /\ sent \in 0..Units /\ got \in 0..sent
  /\ client_eof \in BOOLEAN /\ extra \in BOOLEAN
  /\ c_head \in {"none", "info", "final"} /\ c_body \in Nat /\ c_end \in BOOLEAN
  /\ srv \in {"wait", "informed", "split", "body", "over"}
  /\ made \in 0..RespPieces /\ framing \in {"framed", "closed"} /\ server_eof \in BOOLEAN
  /\ s_body \in Nat /\ s_end \in BOOLEAN
  /\ sin \in Seq(ServerUnits)
  /\ d_pc \in {"loop", "failing", "returned"}
  /\ d_req \in BOOLEAN /\ d_resp \in BOOLEAN /\ permit \in BOOLEAN /\ reading \in BOOLEAN
  /\ u_pc \in {"loop", "sending", "returned"}
  /\ u_req \in BOOLEAN /\ u_resp \in BOOLEAN
  /\ pending \in ResponseTasks \cup {"none"}
  /\ u_pc = "sending" <=> pending # "none"
  /\ header \in {"none", "info", "final", "switch"}
  /\ partial \in BOOLEAN /\ u_reading \in BOOLEAN
  /\ reqs \in Seq(RequestTasks) /\ Len(reqs) <= BufferSize
  /\ resps \in Seq(ResponseTasks) /\ Len(resps) <= BufferSize
  /\ d_pc = "loop" /\ permit => Len(reqs) < BufferSize
  /\ outcome \in {"running", "error", "panic"} /\ lost \in BOOLEAN

-----------------------------------------------------------------------------
(* handle_upstream is between two reads of a response that goes on, until it
   sends the last task of it, and then returns. *)
UpstreamInv ==
  /\ pending \notin {"none", "failed"} =>
       (u_req <=> IsEnd(pending)) /\ (u_resp <=> IsEnd(pending))
  /\ u_pc = "loop" => ~u_resp
  /\ Running /\ u_pc # "returned" => \A i \in 1..Len(resps) : ~IsEnd(resps[i])
  /\ Running /\ u_pc = "returned" /\ d_pc # "returned" =>
       d_resp \/ (resps # <<>> /\ IsEnd(resps[Len(resps)]))

(* What ended the reading of a request before its response was written. *)
EndedEarly == client_eof \/ extra \/ got < sent

(* handle_downstream returns when handle_upstream has, or tells it so. *)
DownstreamInv ==
  /\ Running /\ d_pc = "loop" /\ d_resp => ~reading
  /\ Running /\ d_pc = "returned" =>
       u_pc = "returned" \/ (reqs # <<>> /\ reqs[Len(reqs)] = "failed")
  /\ d_pc = "failing" => EndedEarly
  /\ c_end => d_pc = "returned"
  /\ d_pc = "returned" =>
       c_end \/ EndedEarly \/ (req.upgrade /\ req.framing = "chunked" /\ got = Units)

-----------------------------------------------------------------------------
(* The pieces of the request that handle_downstream has read. *)
DataGot == IF got > req.pieces THEN req.pieces ELSE got

(* The end of the request was read. *)
EndRead ==
  /\ ~reading
  /\ IF req.framing = "closed" THEN client_eof /\ got = sent ELSE got = Units

(* Every piece that was read is with the server or in the channel, and nothing
   but Failed comes after the end. *)
RequestInv ==
  /\ s_body + Count(reqs, Data) = DataGot
  /\ \A i \in 1..Len(reqs) : reqs[i] \in {"data_end", "end"} =>
       EndRead /\ \A j \in (i + 1)..Len(reqs) : reqs[j] = "failed"
  /\ s_end => EndRead /\ \A i \in 1..Len(reqs) : reqs[i] = "failed"

-----------------------------------------------------------------------------
(* What ends a response: nothing follows a header that answers a HEAD. *)
EndUnits == {"bare", "data_end"} \cup (IF req.head THEN {"rest"} ELSE {})

(* What the server has sent and not yet been read: a 1xx header at most, a
   final one, in a piece or two, and the body. *)
StreamInv ==
  /\ srv = "wait" => sin = <<>>
  /\ srv = "informed" => sin = <<>> \/ sin = <<"info">>
  /\ \A i \in 1..Len(sin) :
       /\ sin[i] = "info" => i = 1 /\ HeaderDue /\ ~partial
       /\ sin[i] \in Heads \cup {"part"} =>
            HeaderDue /\ ~partial /\ ~lost /\ \A j \in 1..(i - 1) : sin[j] = "info"
       /\ sin[i] \in EndUnits => i = Len(sin) /\ srv = "over"
       /\ sin[i] = "switch" => req.upgrade
       /\ sin[i] = "head" => ~req.head
  /\ header = "switch" => req.upgrade

(* What handle_upstream has read of it: thrown away bytes leave it without a
   header for ever. *)
HeaderInv ==
  /\ partial \/ lost \/ ~HeaderDue => srv \notin {"wait", "informed"}
  /\ partial => HeaderDue /\ ~lost
  /\ lost => HeaderDue
  /\ header = "final" /\ ~u_resp => u_reading

(* Without such a loss a body comes after its header only. *)
OrderInv ==
  ~lost /\ HeaderDue /\ u_pc # "returned" /\ pending # "failed" =>
    /\ sin # <<>> =>
         sin[1] \in (IF partial THEN {"rest"} ELSE Heads \cup {"info", "part"})
    /\ \A i \in 1..(Len(sin) - 1) :
         /\ sin[i] = "info" => sin[i + 1] \in Heads \cup {"part"}
         /\ sin[i] = "part" => sin[i + 1] = "rest"
    /\ sin = <<>> => srv \in (IF partial THEN {"split"} ELSE {"wait", "informed"})
    /\ sin # <<>> => (sin[Len(sin)] = "info" <=> srv = "informed")
                     /\ (sin[Len(sin)] = "part" <=> srv = "split")

Passing == IF pending \in Data THEN 1 ELSE 0

(* Every piece of the response is in one place, while there is a client for it;
   the client gets the header first, and what ends a response is read last. *)
ResponseInv ==
  /\ c_body + Count(resps, Data) + Passing + Count(sin, Data) <= made
  /\ d_pc # "returned" /\ ~lost =>
       c_body + Count(resps, Data) + Passing + Count(sin, Data) = made
  /\ c_body > 0 => c_head = "final"
  /\ c_head = "final" => ~HeaderDue /\ \A i \in 1..Len(resps) : resps[i] \notin Infos
  /\ pending \in Infos => HeaderDue
  /\ pending \in Finals \cup Data \cup Ends => ~HeaderDue
  /\ \A i \in 1..Len(resps) :
       /\ resps[i] \in Finals \cup Data \cup Ends => ~HeaderDue
       /\ pending \in Finals => resps[i] \notin Data
  /\ d_pc # "returned" /\ ~HeaderDue =>
       \/ c_head = "final" \/ pending \in Finals
       \/ \E i \in 1..Len(resps) : resps[i] \in Finals

(* A 1xx that answers a HEAD is the last that is read of the response; no other
   1xx ends one, so that any other client that has the end has the header. *)
InformedInv ==
  /\ HeadInformed => u_resp /\ u_pc # "loop"
  /\ pending = "informed" => HeadInformed
  /\ \A i \in 1..Len(resps) : resps[i] = "informed" => HeadInformed
  /\ c_end /\ ~HeadInformed => c_head = "final"

(* What ends a response, or fails, leaves nothing of it behind. *)
EndInv ==
  header # "switch" /\ ~HeadInformed =>
    /\ u_resp \/ c_end => sin = <<>> /\ ServerEnded
    /\ \A i \in 1..Len(resps) : resps[i] \in Ends => sin = <<>> /\ ServerEnded
    /\ u_pc = "returned" \/ pending = "failed" =>
         lost \/ (sin = <<>> /\ (ServerEnded \/ server_eof))
    /\ c_end => c_body = made /\ ~HeaderDue

(* Of an exchange between a polite client and a polite server. *)
PoliteInv ==
  req.polite =>
    /\ ~client_eof /\ ~extra /\ ~server_eof /\ framing = "framed"
    /\ srv \notin {"wait", "informed"} => RequestComplete
    /\ ~reading => got = Units
    /\ d_pc # "failing"
    /\ d_pc = "returned" => c_end

IInv ==
  /\ Typing /\ UpstreamInv /\ DownstreamInv /\ RequestInv
  /\ StreamInv /\ HeaderInv /\ OrderInv /\ ResponseInv
  /\ InformedInv /\ EndInv /\ PoliteInv

-----------------------------------------------------------------------------
(* What a queue holds of some tasks, as it grows and shrinks. *)
LEMMA Positions ==
  ASSUME NEW T, NEW q \in Seq(T), NEW S
  PROVE  /\ Len(q) \in Nat
         /\ IsFiniteSet({ i \in 1..Len(q) : q[i] \in S })
         /\ Count(q, S) \in Nat
<1>1. Len(q) \in Nat
  OBVIOUS
<1>2. IsFiniteSet(1..Len(q))
  BY <1>1, FS_Interval
<1>3. { i \in 1..Len(q) : q[i] \in S } \in SUBSET (1..Len(q))
  OBVIOUS
<1>4. IsFiniteSet({ i \in 1..Len(q) : q[i] \in S })
  BY <1>2, <1>3, FS_Subset
<1> QED BY <1>1, <1>4, FS_CardinalityType DEF Count

LEMMA CountNone ==
  ASSUME NEW T, NEW q \in Seq(T), NEW S
  PROVE  /\ (\A i \in 1..Len(q) : q[i] \notin S) => Count(q, S) = 0
         /\ q = <<>> => Count(q, S) = 0
<1>1. ASSUME \A i \in 1..Len(q) : q[i] \notin S
      PROVE  Count(q, S) = 0
  <2>1. { i \in 1..Len(q) : q[i] \in S } = {}
    BY <1>1
  <2> QED BY <2>1, FS_EmptySet, Zenon DEF Count
<1>2. ASSUME q = <<>>
      PROVE  \A i \in 1..Len(q) : q[i] \notin S
  BY <1>2
<1> QED BY <1>1, <1>2

LEMMA CountAppend ==
  ASSUME NEW T, NEW q \in Seq(T), NEW x \in T, NEW S
  PROVE  Count(Append(q, x), S) = Count(q, S) + (IF x \in S THEN 1 ELSE 0)
<1> DEFINE P == { i \in 1..Len(q) : q[i] \in S }
           a == Append(q, x)
           n == Len(q) + 1
<1>1. Len(q) \in Nat /\ IsFiniteSet(P) /\ Count(q, S) \in Nat
  BY Positions
<1>2. Len(a) = n /\ a[n] = x /\ \A i \in 1..Len(q) : a[i] = q[i]
  OBVIOUS
<1>3. 1..n = 1..Len(q) \cup {n} /\ n \notin P
  BY <1>1
<1>4. { i \in 1..Len(a) : a[i] \in S } = IF x \in S THEN P \cup {n} ELSE P
  <2> HIDE DEF a, n
  <2> QED BY <1>2, <1>3
<1>5. Cardinality(P \cup {n}) = Cardinality(P) + 1
  BY <1>1, <1>3, FS_AddElement
<1>6. Count(a, S) = Cardinality(IF x \in S THEN P \cup {n} ELSE P)
  BY <1>4 DEF Count
<1>7. Count(q, S) = Cardinality(P)
  BY DEF Count
<1> HIDE DEF P, n
<1> QED BY <1>1, <1>5, <1>6, <1>7

(* What is left behind the first n. *)
Behind(q, n, tasks) == { i \in (n + 1)..Len(q) : q[i] \in tasks }

LEMMA CountBehind ==
  ASSUME NEW T, NEW q \in Seq(T), NEW n \in 0..Len(q), NEW S,
         NEW s \in Seq(T), Len(s) = Len(q) - n,
         \A i \in 1..Len(s) : s[i] = q[i + n]
  PROVE  Count(s, S) = Cardinality(Behind(q, n, S))
<1> DEFINE P == { i \in 1..Len(s) : s[i] \in S }
           Q == { i \in (n + 1)..Len(q) : q[i] \in S }
           f == [i \in P |-> i + n]
<1>1. Len(q) \in Nat /\ Len(s) \in Nat /\ IsFiniteSet(P)
  BY Positions
<1>2. f \in [P -> Q]
  BY <1>1
<1>3. \A i, j \in P : f[i] = f[j] => i = j
  BY <1>1
<1>4. ASSUME NEW k \in Q
      PROVE  \E i \in P : f[i] = k
  <2>1. k - n \in P /\ (k - n) + n = k
    BY <1>1
  <2> QED BY <2>1
<1>5. f \in Bijection(P, Q)
  <2> HIDE DEF f, P, Q
  <2> QED BY <1>2, <1>3, <1>4 DEF Bijection, Injection, Surjection, IsInjective
<1>6. Cardinality(Q) = Cardinality(P)
  <2>1. ExistsBijection(P, Q)
    BY <1>5 DEF ExistsBijection
  <2> HIDE DEF P, Q
  <2> QED BY <1>1, <2>1, FS_Bijection
<1> QED BY <1>6 DEF Count, Behind

LEMMA CountTail ==
  ASSUME NEW T, NEW q \in Seq(T), q # <<>>, NEW S
  PROVE  /\ Tail(q) \in Seq(T) /\ Len(Tail(q)) = Len(q) - 1 /\ Head(q) = q[1]
         /\ \A i \in 1..Len(Tail(q)) : Tail(q)[i] = q[i + 1]
         /\ Count(q, S) = Count(Tail(q), S) + (IF Head(q) \in S THEN 1 ELSE 0)
<1> DEFINE P == { i \in 1..Len(q) : q[i] \in S }
           Q == { i \in 2..Len(q) : q[i] \in S }
<1>1. /\ Len(q) \in Nat \ {0} /\ Tail(q) \in Seq(T) /\ Len(Tail(q)) = Len(q) - 1
      /\ Head(q) = q[1] /\ \A i \in 1..Len(Tail(q)) : Tail(q)[i] = q[i + 1]
  OBVIOUS
<1>2. Q \subseteq P /\ IsFiniteSet(P)
  <2>1. IsFiniteSet(P)
    BY Positions
  <2>2. Q \subseteq P
    BY <1>1
  <2> QED BY <2>1, <2>2
<1>3. IsFiniteSet(Q) /\ Cardinality(Q) \in Nat
  BY <1>2, FS_Subset, FS_CardinalityType
<1>4. Count(Tail(q), S) = Cardinality(Q)
  <2>1. 1 \in 0..Len(q)
    BY <1>1
  <2>2. Behind(q, 1, S) = Q
    BY DEF Behind
  <2>3. PICK t \in Seq(T) : t = Tail(q)
    BY <1>1
  <2>4. Count(t, S) = Cardinality(Behind(q, 1, S))
    BY <1>1, <2>1, <2>3, CountBehind
  <2> QED BY <2>2, <2>3, <2>4
<1>5. P = IF Head(q) \in S THEN Q \cup {1} ELSE Q
  BY <1>1
<1>6. 1 \notin Q
  OBVIOUS
<1>7. Cardinality(Q \cup {1}) = Cardinality(Q) + 1
  BY <1>3, <1>6, FS_AddElement
<1>8. Count(q, S) = Cardinality(P)
  BY DEF Count
<1> HIDE DEF P, Q
<1> QED BY <1>1, <1>3, <1>4, <1>5, <1>7, <1>8

LEMMA CountDropped ==
  ASSUME NEW T, NEW q \in Seq(T), NEW n \in 1..Len(q), NEW S
  PROVE  LET s == SubSeq(q, n + 1, Len(q))
         IN  /\ s \in Seq(T) /\ Len(s) = Len(q) - n
             /\ \A i \in 1..Len(s) : s[i] = q[i + n]
             /\ Count(s, S) <= Count(q, S)
<1> DEFINE s == SubSeq(q, n + 1, Len(q))
           P == { i \in 1..Len(q) : q[i] \in S }
           Q == { i \in (n + 1)..Len(q) : q[i] \in S }
<1>1. Len(q) \in Nat /\ IsFiniteSet(P)
  BY Positions
<1>2. s \in Seq(T) /\ Len(s) = Len(q) - n /\ \A i \in 1..Len(s) : s[i] = q[i + n]
  BY <1>1
<1>3. Q \subseteq P /\ Count(s, S) = Cardinality(Q)
  <2>1. n \in 0..Len(q)
    BY <1>1
  <2> HIDE DEF s
  <2>2. Count(s, S) = Cardinality(Behind(q, n, S))
    BY <1>2, <2>1, CountBehind
  <2>3. Behind(q, n, S) = Q /\ Q \subseteq P
    BY <1>1 DEF Behind
  <2> QED BY <2>2, <2>3
<1>4. Cardinality(Q) <= Cardinality(P)
  BY <1>1, <1>3, FS_Subset
<1> QED BY <1>2, <1>3, <1>4 DEF Count

-----------------------------------------------------------------------------
USE DEF client_vars, view_vars, server_vars, sreq_vars, d_vars, u_vars

LEMMA RequestType ==
  ASSUME req \in Requests
  PROVE  /\ req.pieces \in 0..ReqPieces /\ req.pieces \in Nat
         /\ req.framing \in {"length", "chunked", "closed"}
         /\ req.upgrade \in BOOLEAN /\ req.polite \in BOOLEAN
         /\ Units = req.pieces \/ (req.framing = "chunked" /\ Units = req.pieces + 1)
         /\ Units \in Nat
BY DuplexAssumption DEF Requests, Units

LEMMA EndType == \A task : IsEnd(task) \in BOOLEAN
BY DEF IsEnd

(* Which task a header becomes, and when it ends the response. *)
LEMMA HeaderTasks ==
  ASSUME NEW unit
  PROVE  /\ HeaderTask(unit) \in Finals
         /\ IsEnd(HeaderTask(unit)) <=> HeaderTask(unit) \in {"bare", "switched"}
         /\ HeaderTask(unit) = "bare" => req.head \/ unit \notin {"head", "rest", "switch"}
         /\ HeaderTask(unit) = "switched" => unit = "switch"
<1>1. HeaderTask(unit) \in Finals
  BY DEF HeaderTask, Finals
<1>2. HeaderTask(unit) = "bare" => req.head \/ unit \notin {"head", "rest", "switch"}
  BY DEF HeaderTask
<1>3. HeaderTask(unit) = "switched" => unit = "switch"
  BY DEF HeaderTask
<1> QED BY <1>1, <1>2, <1>3 DEF IsEnd, Finals

LEMMA TypingInit == Init => Typing
<1> SUFFICES ASSUME Init PROVE Typing
  OBVIOUS
<1>1. req \in Requests
  BY DEF Init
<1>2. Units \in Nat
  BY <1>1, RequestType
<1>3. reading \in BOOLEAN
  BY DEF Init
<1>4. sent \in 0..Units /\ got \in 0..sent /\ c_body \in Nat /\ s_body \in Nat
  BY <1>2 DEF Init
<1>5. made \in 0..RespPieces
  BY DuplexAssumption DEF Init
<1>6. /\ sin \in Seq(ServerUnits) /\ reqs \in Seq(RequestTasks)
      /\ resps \in Seq(ResponseTasks)
      /\ Len(reqs) = 0 /\ Len(resps) = 0 /\ BufferSize > 0
  BY DuplexAssumption DEF Init
<1>7. /\ client_eof \in BOOLEAN /\ extra \in BOOLEAN /\ c_end \in BOOLEAN
      /\ server_eof \in BOOLEAN /\ s_end \in BOOLEAN /\ d_req \in BOOLEAN
      /\ d_resp \in BOOLEAN /\ permit \in BOOLEAN /\ u_req \in BOOLEAN
      /\ u_resp \in BOOLEAN /\ partial \in BOOLEAN /\ u_reading \in BOOLEAN
      /\ lost \in BOOLEAN
  BY DEF Init
<1>8. /\ c_head = "none" /\ srv = "wait" /\ framing = "framed" /\ d_pc = "loop"
      /\ u_pc = "loop" /\ pending = "none" /\ header = "none" /\ outcome = "running"
  BY DEF Init
<1> QED BY <1>1, <1>3, <1>4, <1>5, <1>6, <1>7, <1>8, DuplexAssumption DEF Typing

(* The task that is sent keeps to its channel. *)
LEMMA SentRequest ==
  ASSUME Typing, NEW task \in RequestTasks, NEW end \in BOOLEAN, MayRead,
         SendRequest(task, end), got' \in 0..sent
  PROVE  Typing'
<1>1. /\ reqs' = Append(reqs, task) /\ reqs' \in Seq(RequestTasks)
      /\ Len(reqs') = Len(reqs) + 1 /\ Len(reqs) < BufferSize
      /\ Len(reqs) \in Nat
  BY DEF SendRequest, Typing, MayRead
<1>2. d_req' \in BOOLEAN /\ d_resp' \in BOOLEAN /\ reading' \in BOOLEAN
  BY DEF SendRequest, Iterate, Typing
<1>3. permit' \in BOOLEAN /\ (permit' => Len(reqs') < BufferSize)
  BY DEF SendRequest, Iterate
<1>4. d_pc' \in {"loop", "returned"}
  BY DEF SendRequest, Iterate
<1>5. /\ req' = req /\ sent' = sent /\ Units' = Units
      /\ sent' \in 0..Units' /\ got' \in 0..sent' /\ Len(reqs') <= BufferSize
  BY <1>1, DuplexAssumption DEF SendRequest, Units, Typing
<1> QED BY <1>1, <1>2, <1>3, <1>4, <1>5, DuplexAssumption, SMTT(30) DEF SendRequest, Typing

LEMMA TypingDownstream ==
  ASSUME Typing, Downstream
  PROVE  Typing'
<1>0. req \in Requests /\ Units \in Nat
  BY RequestType DEF Typing
<1>1. CASE DRead
  <2> DEFINE end == got + 1 = Units /\ req.framing # "closed"
             none == got + 1 > req.pieces
  <2>1. MayRead /\ got' \in 0..sent
    BY <1>1 DEF DRead, Typing
  <2>2. SendRequest(IF none THEN "end" ELSE IF end THEN "data_end" ELSE "data", end)
    BY <1>1 DEF DRead
  <2>3. (IF none THEN "end" ELSE IF end THEN "data_end" ELSE "data") \in RequestTasks
    BY DEF RequestTasks
  <2>4. end \in BOOLEAN
    OBVIOUS
  <2> HIDE DEF end, none
  <2> QED BY <2>1, <2>2, <2>3, <2>4, SentRequest
<1>2. CASE DReadDone
  <2>1. got' \in 0..sent /\ reading' = FALSE /\ reqs' = reqs
    BY <1>2 DEF DReadDone, Typing
  <2>2. /\ d_req' \in BOOLEAN /\ d_resp' \in BOOLEAN /\ permit' \in BOOLEAN
        /\ reading' \in BOOLEAN
        /\ permit' => Len(reqs) < BufferSize
        /\ d_pc' \in {"loop", "returned"}
    BY <1>2 DEF DReadDone, Iterate, Typing
  <2>3. req' = req /\ Units' = Units
    BY <1>2 DEF DReadDone, Units
  <2>4. sent' \in 0..Units' /\ got' \in 0..sent'
    BY <1>2, <2>1, <2>3 DEF DReadDone, Typing
  <2> QED BY <1>2, <2>1, <2>2, <2>3, <2>4, SMTT(30) DEF DReadDone, Typing
<1>3. CASE DReadClosed
  <2>1. MayRead /\ SendRequest("end", TRUE) /\ got' \in 0..sent
    BY <1>3 DEF DReadClosed, Typing
  <2>2. "end" \in RequestTasks
    BY DEF RequestTasks
  <2> QED BY <2>1, <2>2, SentRequest
<1>4. CASE DReadFails
  BY <1>4 DEF DReadFails, Typing, Units
<1>5. CASE DSendFailed
  <2>1. reqs' \in Seq(RequestTasks) /\ Len(reqs') <= BufferSize
    <3>1. "failed" \in RequestTasks
      BY DEF RequestTasks
    <3>2. CASE reqs' = reqs
      BY <3>2 DEF Typing
    <3>3. CASE Len(reqs) + 1 < BufferSize /\ reqs' = Append(reqs, "failed")
      BY <3>1, <3>3, DuplexAssumption DEF Typing
    <3> QED BY <1>5, <3>2, <3>3 DEF DSendFailed
  <2>2. req' = req /\ Units' = Units
    BY <1>5 DEF DSendFailed, Units
  <2> QED BY <1>5, <2>1, <2>2 DEF DSendFailed, Typing
<1>6. CASE DWrite
  <2>1. c_body' \in Nat
    <3>1. c_body' = c_body + Count(resps, Data)
      BY <1>6 DEF DWrite, Count, Taken, Data
    <3>2. c_body \in Nat /\ resps \in Seq(ResponseTasks)
      BY DEF Typing
    <3>3. Count(resps, Data) \in Nat
      BY <3>2, Positions
    <3> QED BY <3>1, <3>2, <3>3
  <2>2. /\ resps' = <<>> /\ c_head' \in {"none", "info", "final"} /\ reading' \in BOOLEAN
        /\ req' = req /\ Units' = Units
    BY <1>6 DEF DWrite, Typing, Units
  <2>3. /\ c_end' \in BOOLEAN /\ d_req' \in BOOLEAN /\ d_resp' \in BOOLEAN
        /\ permit' \in BOOLEAN /\ d_pc' \in {"loop", "failing", "returned"}
        /\ outcome' \in {"running", "error", "panic"}
        /\ d_pc' = "loop" /\ permit' => Len(reqs) < BufferSize
    <3> DEFINE last == resps[Len(resps)]
    <3>1. IsEnd(last) \in BOOLEAN
      BY DEF IsEnd
    <3>2. CASE last = "failed"
      BY <1>6, <3>2 DEF DWrite, Typing
    <3>3. CASE last # "failed"
      <4>1. /\ c_end' = IsEnd(last) /\ Iterate(reqs, IsEnd(last), IsEnd(last))
            /\ outcome' = outcome
        BY <1>6, <3>3 DEF DWrite
      <4> HIDE DEF last
      <4> QED BY <3>1, <4>1 DEF Iterate, Typing
    <3> QED BY <3>2, <3>3
  <2>4. resps' \in Seq(ResponseTasks) /\ Len(resps') <= BufferSize
    BY <2>2, DuplexAssumption
  <2> QED BY <1>6, <2>1, <2>2, <2>3, <2>4 DEF DWrite, Typing
<1>7. CASE DWriteFails
  BY <1>7 DEF DWriteFails, Typing, Units
<1> QED BY <1>1, <1>2, <1>3, <1>4, <1>5, <1>6, <1>7 DEF Downstream

(* A task that was read leaves all it does not concern. *)
LEMMA ReceivedType ==
  ASSUME Typing, NEW task \in ResponseTasks, Received(task),
         sin' \in Seq(ServerUnits), header' \in {"none", "info", "final", "switch"},
         partial' \in BOOLEAN, u_reading' \in BOOLEAN, lost' \in BOOLEAN
  PROVE  Typing'
<1>1. /\ u_req' \in BOOLEAN /\ u_resp' \in BOOLEAN
      /\ pending' \in ResponseTasks /\ pending' # "none"
  <2>1. pending' \in ResponseTasks /\ pending' # "none"
    BY DEF Received, ResponseTasks
  <2>2. CASE task = "failed"
    BY <2>1, <2>2 DEF Received, Typing
  <2>3. CASE task # "failed"
    BY <2>1, <2>3, EndType DEF Received, Typing
  <2> QED BY <2>2, <2>3
<1>2. req' = req /\ Units' = Units
  BY DEF Received, Units
<1> QED BY <1>1, <1>2 DEF Received, Typing

LEMMA TypingUpstream ==
  ASSUME Typing, Upstream
  PROVE  Typing'
<1>0. /\ req \in Requests /\ Units \in Nat
      /\ sin # <<>> => Head(sin) \in ServerUnits /\ Tail(sin) \in Seq(ServerUnits)
      /\ reqs # <<>> => Head(reqs) \in RequestTasks /\ Tail(reqs) \in Seq(RequestTasks)
                        /\ Len(Tail(reqs)) < Len(reqs)
  BY RequestType DEF Typing
<1>1. CASE UReadInfo
  <2>1. sin' \in Seq(ServerUnits)
    <3>1. PICK n \in 1..Len(sin) : sin' = SubSeq(sin, n + 1, Len(sin))
      BY <1>1 DEF UReadInfo
    <3> QED BY <3>1, CountDropped DEF Typing
  <2>2. PICK task \in Infos : Received(task)
    BY <1>1 DEF UReadInfo, Infos
  <2>3. /\ header' = "info" /\ partial' = partial /\ u_reading' \in BOOLEAN
        /\ lost' \in BOOLEAN
    BY <1>1 DEF UReadInfo
  <2>4. task \in ResponseTasks
    BY <2>2 DEF Infos, ResponseTasks
  <2> QED BY <2>1, <2>2, <2>3, <2>4, ReceivedType DEF Typing
<1>2. CASE UReadPart
  BY <1>0, <1>2 DEF UReadPart, Typing, Units
<1>3. CASE UReadHeader
  <2> DEFINE task == HeaderTask(Head(sin))
  <2>1. task \in ResponseTasks /\ IsEnd(task) \in BOOLEAN
    BY HeaderTasks, EndType DEF ResponseTasks, Finals
  <2>2. /\ Received(task) /\ sin' = Tail(sin) /\ partial' = FALSE /\ lost' = lost
        /\ header' \in {"switch", "final"} /\ u_reading' = ~IsEnd(task) /\ sin # <<>>
    BY <1>3 DEF UReadHeader
  <2> HIDE DEF task
  <2> QED BY <1>0, <2>1, <2>2, ReceivedType DEF Typing
<1>4. CASE UReadBody
  <2>1. Head(sin) \in ResponseTasks /\ IsEnd(Head(sin)) \in BOOLEAN
    BY <1>4 DEF UReadBody, ResponseTasks, IsEnd
  <2> QED BY <1>0, <1>4, <2>1, ReceivedType DEF UReadBody, Typing
<1>5. CASE UReadClosed
  <2>1. "end" \in ResponseTasks
    BY DEF ResponseTasks
  <2> QED BY <1>5, <2>1, ReceivedType DEF UReadClosed, Typing
<1>6. CASE UReadDone
  <2>1. "done" \in ResponseTasks
    BY DEF ResponseTasks
  <2> QED BY <1>6, <2>1, ReceivedType DEF UReadDone, Typing
<1>7. CASE UReadFails
  <2>1. "failed" \in ResponseTasks
    BY DEF ResponseTasks
  <2> QED BY <1>7, <2>1, ReceivedType DEF UReadFails, Typing
<1>8. CASE UReadNothing
  BY <1>8 DEF UReadNothing, Typing, Units
<1>9. CASE USend
  <2>1. resps' \in Seq(ResponseTasks) /\ Len(resps') <= BufferSize
    <3>1. CASE resps' = resps
      BY <3>1 DEF Typing
    <3>2. CASE resps' = Append(resps, pending) /\ Len(resps) < BufferSize
      <4>1. pending \in ResponseTasks
        BY <1>9 DEF USend, Typing
      <4> QED BY <3>2, <4>1, DuplexAssumption DEF Typing
    <3> QED BY <1>9, <3>1, <3>2 DEF USend
  <2>2. /\ u_pc' \in {"loop", "sending", "returned"} /\ pending' \in ResponseTasks \cup {"none"}
        /\ u_pc' = "sending" <=> pending' # "none"
        /\ outcome' \in {"running", "error", "panic"}
    BY <1>9 DEF USend, Typing
  <2>3. req' = req /\ Units' = Units
    BY <1>9 DEF USend, Units
  <2> QED BY <1>9, <2>1, <2>2, <2>3 DEF USend, Typing
<1>10. CASE UWrite
  <2>1. /\ reqs' = Tail(reqs) /\ reqs' \in Seq(RequestTasks) /\ Len(reqs') < Len(reqs)
        /\ s_body' \in Nat
    BY <1>0, <1>10 DEF UWrite, Typing
  <2>2. /\ s_end' \in BOOLEAN /\ u_reading' \in BOOLEAN /\ u_req' \in BOOLEAN
        /\ partial' \in BOOLEAN /\ lost' \in BOOLEAN
    BY <1>10, EndType DEF UWrite
  <2>3. req' = req /\ Units' = Units
    BY <1>10 DEF UWrite, Units
  <2>4. Len(reqs') <= BufferSize /\ (d_pc = "loop" /\ permit => Len(reqs') < BufferSize)
    BY <2>1, DuplexAssumption DEF Typing
  <2> QED BY <1>10, <2>1, <2>2, <2>3, <2>4 DEF UWrite, Typing
<1>11. CASE UWriteFails
  BY <1>11 DEF UWriteFails, Typing, Units
<1>12. CASE UWritePanics
  BY <1>12 DEF UWritePanics, Typing, Units
<1> QED BY <1>1, <1>2, <1>3, <1>4, <1>5, <1>6, <1>7, <1>8, <1>9, <1>10, <1>11, <1>12
  DEF Upstream

LEMMA TypingParties ==
  ASSUME Typing, Client \/ Server
  PROVE  Typing'
<1>0. req \in Requests /\ Units \in Nat
  BY RequestType DEF Typing
<1>1. CASE Client
  <2>1. req' = req /\ Units' = Units
    BY <1>1 DEF Client, Units
  <2>2. sent' \in 0..Units /\ got \in 0..sent'
    BY <1>0, <1>1 DEF Client, ClientSends, ClientCloses, ClientSendsMore, Typing
  <2>3. client_eof' \in BOOLEAN /\ extra' \in BOOLEAN
    BY <1>1 DEF Client, ClientSends, ClientCloses, ClientSendsMore, Typing
  <2> QED BY <1>1, <2>1, <2>2, <2>3 DEF Client, Typing
<1>2. CASE Server
  <2>1. req' = req /\ Units' = Units
    BY <1>2 DEF Server, Units
  <2>2. sin' \in Seq(ServerUnits)
    <3>1. sin' = sin \/ \E unit \in ServerUnits : sin' = Append(sin, unit)
      BY <1>2 DEF Server, ServerInforms, ServerAnswers, ServerCompletesHeader, ServerSends,
                  ServerCloses, Serves, ServerUnits
    <3> QED BY <3>1 DEF Typing
  <2>3. /\ srv' \in {"wait", "informed", "split", "body", "over"}
        /\ framing' \in {"framed", "closed"} /\ server_eof' \in BOOLEAN
    BY <1>2 DEF Server, ServerInforms, ServerAnswers, ServerCompletesHeader, ServerSends,
                ServerCloses, Typing
  <2>4. made' \in 0..RespPieces
    BY <1>2, DuplexAssumption
    DEF Server, ServerInforms, ServerAnswers, ServerCompletesHeader, ServerSends,
        ServerCloses, Typing
  <2> QED BY <1>2, <2>1, <2>2, <2>3, <2>4 DEF Server, Typing
<1> QED BY <1>1, <1>2

LEMMA TypingNext ==
  ASSUME Typing, [Next]_vars
  PROVE  Typing'
<1>1. CASE UNCHANGED vars
  BY <1>1 DEF vars, Typing, Units
<1> QED BY <1>1, TypingDownstream, TypingUpstream, TypingParties DEF Next

-----------------------------------------------------------------------------
(* The two loops. *)
LoopsInv == UpstreamInv /\ DownstreamInv

LEMMA LoopsInit == Init => LoopsInv
BY DEF Init, LoopsInv, UpstreamInv, DownstreamInv, EndedEarly

(* A task of the request leaves the loop where it is: it is no response that
   ends it, and the reading of a request ends before that. *)
LEMMA LoopsRead ==
  ASSUME Typing, LoopsInv, MayRead, reading, got < sent \/ client_eof,
         NEW task, NEW end \in BOOLEAN, SendRequest(task, end), got' \in Nat
  PROVE  LoopsInv' /\ d_pc' = "loop" /\ ~d_resp'
<1>1. /\ d_pc' = "loop" /\ d_resp' = d_resp /\ ~d_resp
      /\ UNCHANGED <<u_pc, u_req, u_resp, pending, resps, outcome, req, sent, client_eof, extra,
                     c_end>>
  BY DEF SendRequest, Iterate, MayRead, LoopsInv, DownstreamInv, Typing
<1> QED BY <1>1 DEF LoopsInv, UpstreamInv, DownstreamInv, Running, MayRead

LEMMA LoopsDownstream ==
  ASSUME Typing, LoopsInv, Downstream
  PROVE  LoopsInv'
<1>0. req \in Requests /\ Units \in Nat
  BY RequestType DEF Typing
<1>1. CASE DRead
  <2> DEFINE end == got + 1 = Units /\ req.framing # "closed"
             none == got + 1 > req.pieces
             task == IF none THEN "end" ELSE IF end THEN "data_end" ELSE "data"
  <2>1. MayRead /\ reading /\ got < sent /\ got' \in Nat /\ SendRequest(task, end)
    BY <1>0, <1>1 DEF DRead, Typing
  <2>2. end \in BOOLEAN
    OBVIOUS
  <2> HIDE DEF end, task
  <2> QED BY <2>1, <2>2, LoopsRead
<1>2. CASE DReadDone
  <2>1. /\ d_resp' /\ ~reading' /\ reqs' = reqs
        /\ d_pc' = IF u_pc = "returned" THEN "returned" ELSE "loop"
    <3>1. ~d_req /\ Len(reqs) < BufferSize
      BY <1>2 DEF DReadDone, MayRead, Typing
    <3> QED BY <1>2, <3>1 DEF DReadDone, Iterate
  <2>2. req.upgrade /\ req.framing = "chunked" /\ got' = Units'
    <3>1. /\ got \in Nat /\ sent \in 0..Units /\ got < sent /\ got + 1 > req.pieces
          /\ req.upgrade /\ got' = got + 1 /\ req' = req
      BY <1>0, <1>2 DEF DReadDone, Typing
    <3>2. Units = req.pieces + 1 /\ req.framing = "chunked" /\ req.pieces \in Nat
      BY <1>0, <3>1, RequestType
    <3>3. Units' = Units
      BY <3>1 DEF Units
    <3> QED BY <3>1, <3>2, <3>3
  <2>3. /\ UNCHANGED <<u_pc, u_req, u_resp, pending, resps, outcome, req, c_end>>
        /\ Running /\ d_pc = "loop"
    BY <1>2 DEF DReadDone, MayRead
  <2> QED BY <2>1, <2>2, <2>3 DEF LoopsInv, UpstreamInv, DownstreamInv, Running
<1>3. CASE DReadClosed
  <2>1. MayRead /\ reading /\ client_eof /\ SendRequest("end", TRUE) /\ got' = got
    BY <1>3 DEF DReadClosed
  <2>2. got' \in Nat
    BY <1>0, <2>1 DEF Typing
  <2> QED BY <2>1, <2>2, LoopsRead
<1>4. CASE DReadFails
  <2>1. /\ d_pc = "loop" /\ d_pc' = "failing" /\ EndedEarly'
        /\ UNCHANGED <<u_pc, u_req, u_resp, pending, resps, outcome, d_resp, c_end>>
    BY <1>4 DEF DReadFails, MayRead, EndedEarly, Typing
  <2> QED BY <2>1 DEF LoopsInv, UpstreamInv, DownstreamInv, Running
<1>5. CASE DSendFailed
  <2>1. u_pc = "returned" \/ (reqs' # <<>> /\ reqs'[Len(reqs')] = "failed")
    BY <1>5 DEF DSendFailed, Typing
  <2>2. /\ d_pc = "failing" /\ d_pc' = "returned" /\ Running
        /\ UNCHANGED <<u_pc, u_req, u_resp, pending, resps, outcome, client_eof, extra, got, sent>>
    BY <1>5 DEF DSendFailed
  <2> QED BY <2>1, <2>2 DEF LoopsInv, UpstreamInv, DownstreamInv, Running, EndedEarly
<1>6. CASE DWrite
  <2> DEFINE last == resps[Len(resps)]
  <2>0. /\ Running /\ d_pc = "loop" /\ ~d_resp /\ resps # <<>> /\ resps' = <<>>
        /\ UNCHANGED <<u_pc, u_req, u_resp, pending, req, client_eof, extra, got, sent, reqs>>
        /\ Len(resps) \in 1..Len(resps)
    BY <1>6 DEF DWrite, MayWrite, Typing
  <2>1. CASE last = "failed"
    <3>1. outcome' = "error" /\ d_pc' = d_pc /\ c_end' = c_end
      BY <1>6, <2>1 DEF DWrite
    <3> QED BY <2>0, <3>1 DEF LoopsInv, UpstreamInv, DownstreamInv, Running
  <2>2. CASE last # "failed" /\ IsEnd(last)
    <3>1. c_end' = IsEnd(last) /\ Iterate(reqs, IsEnd(last), IsEnd(last)) /\ outcome' = outcome
      BY <1>6, <2>2 DEF DWrite
    <3>2. c_end' /\ d_pc' = "returned"
      BY <2>2, <3>1 DEF Iterate
    <3>3. u_pc = "returned"
      BY <2>0, <2>2 DEF LoopsInv, UpstreamInv
    <3> QED BY <2>0, <3>1, <3>2, <3>3 DEF LoopsInv, UpstreamInv, DownstreamInv, Running
  <2>3. CASE last # "failed" /\ ~IsEnd(last)
    <3>1. Iterate(reqs, IsEnd(last), IsEnd(last)) /\ outcome' = outcome /\ c_end' = IsEnd(last)
      BY <1>6, <2>3 DEF DWrite
    <3>2. ~d_resp' /\ d_pc' = "loop" /\ ~c_end'
      BY <2>3, <3>1 DEF Iterate
    <3>3. u_pc # "returned"
      BY <2>0, <2>3 DEF LoopsInv, UpstreamInv
    <3> QED BY <2>0, <3>1, <3>2, <3>3 DEF LoopsInv, UpstreamInv, DownstreamInv, Running
  <2> QED BY <2>1, <2>2, <2>3
<1>7. CASE DWriteFails
  BY <1>7 DEF DWriteFails, MayWrite, LoopsInv, UpstreamInv, DownstreamInv, Running
<1> QED BY <1>1, <1>2, <1>3, <1>4, <1>5, <1>6, <1>7 DEF Downstream

LEMMA LoopsReceived ==
  ASSUME Typing, LoopsInv, MayReceive, NEW task, Received(task)
  PROVE  LoopsInv'
<1>1. task # "failed" => (u_req' <=> IsEnd(task)) /\ (u_resp' <=> IsEnd(task))
  BY EndType DEF Received
<1>2. /\ u_pc = "loop" /\ u_pc' = "sending" /\ pending' = task /\ Running
      /\ UNCHANGED <<d_pc, d_resp, reading, reqs, req, client_eof, extra, got, sent, c_end,
                     resps, outcome>>
  BY DEF Received, MayReceive
<1>3. UpstreamInv'
  BY <1>1, <1>2 DEF LoopsInv, UpstreamInv, Running
<1>4. DownstreamInv'
  BY <1>2 DEF LoopsInv, DownstreamInv, Running, EndedEarly, Units
<1> QED BY <1>3, <1>4 DEF LoopsInv

LEMMA LoopsUpstream ==
  ASSUME Typing, LoopsInv, Upstream
  PROVE  LoopsInv'
<1>1. CASE \/ UReadInfo \/ UReadHeader \/ UReadBody \/ UReadClosed \/ UReadDone
           \/ UReadFails
  <2>1. MayReceive /\ \E task : Received(task)
    BY <1>1 DEF UReadInfo, UReadHeader, UReadBody, UReadClosed, UReadDone, UReadFails
  <2> QED BY <2>1, LoopsReceived
<1>2. CASE UReadPart
  BY <1>2 DEF UReadPart, LoopsInv, UpstreamInv, DownstreamInv, Running, EndedEarly, Units
<1>3. CASE UReadNothing \/ UWriteFails \/ UWritePanics
  BY <1>3 DEF UReadNothing, UWriteFails, UWritePanics, LoopsInv, UpstreamInv, DownstreamInv,
              Running, EndedEarly, Units
<1>4. CASE USend
  <2>0. /\ Running /\ u_pc = "sending" /\ pending # "none"
        /\ UNCHANGED <<u_req, u_resp, d_pc, d_resp, reading, reqs, req, client_eof, extra,
                       got, sent, c_end>>
    BY <1>4 DEF USend, Typing
  <2>1. CASE outcome' = "error"
    <3>1. u_pc' = u_pc /\ pending' = pending
      BY <1>4, <2>0, <2>1 DEF USend, Running
    <3> QED BY <2>0, <2>1, <3>1 DEF LoopsInv, UpstreamInv, DownstreamInv, Running, EndedEarly, Units
  <2>2. CASE outcome' # "error"
    <3>1. /\ outcome' = outcome /\ pending' = "none"
          /\ u_pc' = IF pending = "failed" \/ (u_req /\ u_resp) THEN "returned" ELSE "loop"
      BY <1>4, <2>2 DEF USend
    <3>2. IsEnd(pending) <=> pending = "failed" \/ (u_req /\ u_resp)
      BY <2>0 DEF LoopsInv, UpstreamInv, IsEnd
    <3>3. u_pc' = "loop" => ~u_resp
      BY <2>0, <3>1, <3>2 DEF LoopsInv, UpstreamInv
    <3>4. CASE d_pc # "returned"
      <4>1. resps' = Append(resps, pending)
        BY <1>4, <3>4 DEF USend
      <4>2. /\ Len(resps) \in Nat /\ Len(resps') = Len(resps) + 1
            /\ resps' # <<>> /\ resps'[Len(resps')] = pending
            /\ \A i \in 1..Len(resps) : resps'[i] = resps[i]
        BY <4>1 DEF Typing
      <4>3. \A i \in 1..Len(resps') : i \in 1..Len(resps) \/ i = Len(resps')
        BY <4>2
      <4>4. u_pc' # "returned" => \A i \in 1..Len(resps') : ~IsEnd(resps'[i])
        BY <2>0, <3>1, <3>2, <4>2, <4>3 DEF LoopsInv, UpstreamInv
      <4>5. UpstreamInv'
        BY <2>0, <3>1, <3>2, <3>3, <4>2, <4>4 DEF UpstreamInv, Running
      <4>6. DownstreamInv'
        BY <2>0, <3>1, <3>4 DEF LoopsInv, DownstreamInv, EndedEarly, Running
      <4> QED BY <4>5, <4>6 DEF LoopsInv
    <3>5. CASE d_pc = "returned"
      <4>1. resps' = resps
        BY <1>4, <3>5 DEF USend
      <4>2. UpstreamInv'
        BY <2>0, <3>1, <3>3, <3>5, <4>1 DEF LoopsInv, UpstreamInv, Running
      <4>3. DownstreamInv'
        BY <2>0, <3>1, <3>5 DEF LoopsInv, DownstreamInv, EndedEarly, Units, Running
      <4> QED BY <4>2, <4>3 DEF LoopsInv
    <3> QED BY <3>4, <3>5
  <2> QED BY <2>1, <2>2
<1>5. CASE UWrite
  <2>0. /\ Running /\ u_pc = "loop" /\ pending = "none" /\ reqs # <<>> /\ Head(reqs) # "failed"
        /\ reqs' = Tail(reqs)
        /\ UNCHANGED <<u_pc, u_resp, pending, d_pc, d_resp, reading, req, client_eof, extra,
                       got, sent, c_end, resps, outcome>>
    BY <1>5 DEF UWrite, MaySend, Typing
  <2>1. reqs[Len(reqs)] = "failed" => reqs' # <<>> /\ reqs'[Len(reqs')] = "failed"
    <3>1. /\ Len(reqs) \in Nat \ {0} /\ Len(reqs') = Len(reqs) - 1 /\ Head(reqs) = reqs[1]
          /\ \A i \in 1..Len(reqs') : reqs'[i] = reqs[i + 1]
      BY <2>0, CountTail DEF Typing
    <3>2. CASE Len(reqs) = 1
      BY <2>0, <3>1, <3>2
    <3>3. CASE Len(reqs) > 1
      <4>1. Len(reqs') \in 1..Len(reqs') /\ Len(reqs') + 1 = Len(reqs)
        BY <3>1, <3>3
      <4>2. reqs' # <<>>
        BY <4>1
      <4> QED BY <3>1, <4>1, <4>2
    <3> QED BY <3>1, <3>2, <3>3
  <2>2. UpstreamInv'
    BY <2>0 DEF LoopsInv, UpstreamInv, Running
  <2>3. DownstreamInv'
    BY <2>0, <2>1 DEF LoopsInv, DownstreamInv, Running, EndedEarly, Units
  <2> QED BY <2>2, <2>3 DEF LoopsInv
<1> QED BY <1>1, <1>2, <1>3, <1>4, <1>5 DEF Upstream

LEMMA LoopsNext ==
  ASSUME Typing, LoopsInv, [Next]_vars
  PROVE  LoopsInv'
<1>1. CASE UNCHANGED vars
  BY <1>1 DEF vars, LoopsInv, UpstreamInv, DownstreamInv, Running, EndedEarly, Units
<1>2. CASE Client
  <2>1. EndedEarly => EndedEarly'
    BY <1>2 DEF Client, ClientSends, ClientCloses, ClientSendsMore, EndedEarly, Typing
  <2> QED BY <1>2, <2>1 DEF Client, LoopsInv, UpstreamInv, DownstreamInv, Running, Units
<1>3. CASE Server
  BY <1>3 DEF Server, LoopsInv, UpstreamInv, DownstreamInv, Running, EndedEarly, Units
<1> QED BY <1>1, <1>2, <1>3, LoopsDownstream, LoopsUpstream DEF Next

-----------------------------------------------------------------------------
(* The request between the two sockets. *)
LEMMA RequestInit == Init => RequestInv
<1> SUFFICES ASSUME Init PROVE RequestInv
  OBVIOUS
<1>1. req.pieces \in Nat
  BY RequestType DEF Init
<1>2. Count(reqs, Data) = 0 /\ reqs = <<>>
  <2>1. reqs = <<>> /\ reqs \in Seq(RequestTasks)
    BY TypingInit DEF Init, Typing
  <2> QED BY <2>1, CountNone
<1>3. DataGot = 0 /\ s_body = 0 /\ ~s_end
  BY <1>1 DEF DataGot, Init
<1> QED BY <1>2, <1>3 DEF RequestInv

LEMMA RequestFrame ==
  ASSUME RequestInv, UNCHANGED <<req, s_body, s_end, got, reqs>>, EndRead => EndRead'
  PROVE  RequestInv'
BY DEF RequestInv, DataGot

LEMMA RequestRead ==
  ASSUME Typing, RequestInv, MayRead, reading, NEW task \in RequestTasks,
         NEW end \in BOOLEAN, SendRequest(task, end),
         DataGot' = DataGot + (IF task \in Data THEN 1 ELSE 0),
         task \in {"data_end", "end"} => EndRead'
  PROVE  RequestInv'
<1>1. reqs' = Append(reqs, task) /\ s_body' = s_body /\ s_end' = s_end
  BY DEF SendRequest
<1>2. /\ Len(reqs) \in Nat /\ Len(reqs') = Len(reqs) + 1 /\ reqs'[Len(reqs')] = task
      /\ \A i \in 1..Len(reqs) : reqs'[i] = reqs[i]
  BY <1>1 DEF Typing
<1>3. Count(reqs', Data) = Count(reqs, Data) + (IF task \in Data THEN 1 ELSE 0)
  BY <1>1, CountAppend DEF Typing
<1>4. Count(reqs, Data) \in Nat /\ s_body \in Nat
  BY Positions DEF Typing
<1>5. s_body' + Count(reqs', Data) = DataGot'
  BY <1>1, <1>3, <1>4 DEF RequestInv
<1>6. ~s_end /\ \A i \in 1..Len(reqs) : reqs[i] \notin {"data_end", "end"}
  BY DEF RequestInv, EndRead
<1>7. ASSUME NEW i \in 1..Len(reqs'), reqs'[i] \in {"data_end", "end"}
      PROVE  EndRead' /\ \A j \in (i + 1)..Len(reqs') : reqs'[j] = "failed"
  <2>1. i = Len(reqs')
    BY <1>2, <1>6, <1>7
  <2> QED BY <1>2, <1>7, <2>1
<1> QED BY <1>1, <1>5, <1>6, <1>7 DEF RequestInv

LEMMA RequestDownstream ==
  ASSUME Typing, RequestInv, Downstream
  PROVE  RequestInv'
<1>0. /\ req \in Requests /\ Units \in Nat /\ req.pieces \in Nat /\ req' = req
      /\ Units' = Units /\ got \in Nat /\ got <= Units
      /\ Units = req.pieces \/ (req.framing = "chunked" /\ Units = req.pieces + 1)
  <2>1. req' = req
    BY DEF Downstream, DRead, DReadDone, DReadClosed, DReadFails, DSendFailed, DWrite,
           DWriteFails, SendRequest
  <2>2. Units' = Units
    BY <2>1 DEF Units
  <2>3. req \in Requests /\ sent \in 0..Units /\ got \in 0..sent
    BY DEF Typing
  <2>4. /\ req.pieces \in Nat /\ Units \in Nat
        /\ Units = req.pieces \/ (req.framing = "chunked" /\ Units = req.pieces + 1)
    BY <2>3, RequestType
  <2> QED BY <2>1, <2>2, <2>3, <2>4
<1>1. CASE DRead
  <2> DEFINE end == got + 1 = Units /\ req.framing # "closed"
             none == got + 1 > req.pieces
             task == IF none THEN "end" ELSE IF end THEN "data_end" ELSE "data"
  <2>1. /\ MayRead /\ reading /\ got' = got + 1 /\ got + 1 <= Units /\ SendRequest(task, end)
    BY <1>0, <1>1 DEF DRead, Typing
  <2>2. end \in BOOLEAN /\ task \in RequestTasks
    BY DEF RequestTasks
  <2>3. DataGot' = DataGot + (IF task \in Data THEN 1 ELSE 0)
    BY <1>0, <2>1 DEF DataGot, Data
  <2>4. ASSUME task \in {"data_end", "end"}
        PROVE  EndRead'
    <3>1. end
      BY <1>0, <2>1, <2>4
    <3>2. reading' = FALSE
      <4> HIDE DEF end, task
      <4> QED BY <2>1, <3>1 DEF SendRequest
    <3> QED BY <1>0, <2>1, <3>1, <3>2 DEF EndRead
  <2> HIDE DEF end, task
  <2> QED BY <2>1, <2>2, <2>3, <2>4, RequestRead
<1>2. CASE DReadDone
  <2>1. DataGot' = DataGot
    BY <1>0, <1>2 DEF DReadDone, DataGot
  <2>2. reading /\ UNCHANGED <<s_body, s_end, reqs>>
    BY <1>2 DEF DReadDone
  <2> QED BY <2>1, <2>2 DEF RequestInv, EndRead
<1>3. CASE DReadClosed
  <2>1. /\ MayRead /\ reading /\ SendRequest("end", TRUE) /\ got' = got /\ got = sent
        /\ client_eof /\ req.framing = "closed"
    BY <1>3 DEF DReadClosed
  <2>2. EndRead' /\ DataGot' = DataGot
    BY <1>0, <2>1 DEF EndRead, DataGot, SendRequest
  <2>3. "end" \in RequestTasks /\ "end" \notin Data /\ DataGot \in Nat
    BY <1>0 DEF RequestTasks, Data, DataGot
  <2>4. DataGot' = DataGot + (IF "end" \in Data THEN 1 ELSE 0)
    BY <2>2, <2>3
  <2> QED BY <2>1, <2>2, <2>3, <2>4, RequestRead
<1>4. CASE DReadFails
  BY <1>0, <1>4, RequestFrame DEF DReadFails, EndRead
<1>5. CASE DSendFailed
  <2>1. CASE reqs' = reqs
    BY <1>0, <1>5, <2>1, RequestFrame DEF DSendFailed, EndRead
  <2>2. CASE reqs' = Append(reqs, "failed")
    <3>1. /\ Len(reqs) \in Nat /\ Len(reqs') = Len(reqs) + 1 /\ reqs'[Len(reqs')] = "failed"
          /\ \A i \in 1..Len(reqs) : reqs'[i] = reqs[i]
      BY <2>2 DEF Typing
    <3>2. "failed" \in RequestTasks /\ "failed" \notin Data
      BY DEF RequestTasks, Data
    <3>3. Count(reqs', Data) = Count(reqs, Data)
      <4>1. Count(reqs', Data) = Count(reqs, Data) + (IF "failed" \in Data THEN 1 ELSE 0)
        BY <2>2, <3>2, CountAppend DEF Typing
      <4>2. Count(reqs, Data) \in Nat
        BY Positions DEF Typing
      <4> QED BY <3>2, <4>1, <4>2
    <3>4. /\ UNCHANGED <<s_body, s_end, got>> /\ DataGot' = DataGot
          /\ EndRead => EndRead'
      BY <1>0, <1>5 DEF DSendFailed, EndRead, DataGot
    <3>5. \A i \in 1..Len(reqs') : i \in 1..Len(reqs) \/ reqs'[i] = "failed"
      BY <3>1
    <3>6. ASSUME NEW i \in 1..Len(reqs'), reqs'[i] \in {"data_end", "end"}
          PROVE  EndRead' /\ \A j \in (i + 1)..Len(reqs') : reqs'[j] = "failed"
      <4>1. i \in 1..Len(reqs) /\ reqs[i] \in {"data_end", "end"}
        BY <3>1, <3>5, <3>6
      <4>2. EndRead /\ \A j \in (i + 1)..Len(reqs) : reqs[j] = "failed"
        BY <4>1 DEF RequestInv
      <4> QED BY <3>1, <3>4, <4>1, <4>2
    <3>7. s_end => EndRead' /\ \A i \in 1..Len(reqs') : reqs'[i] = "failed"
      BY <3>1, <3>4, <3>5 DEF RequestInv
    <3> QED BY <3>3, <3>4, <3>6, <3>7 DEF RequestInv
  <2> QED BY <1>5, <2>1, <2>2 DEF DSendFailed
<1>6. CASE DWrite
  BY <1>0, <1>6, RequestFrame DEF DWrite, EndRead
<1>7. CASE DWriteFails
  BY <1>0, <1>7, RequestFrame DEF DWriteFails, EndRead
<1> QED BY <1>1, <1>2, <1>3, <1>4, <1>5, <1>6, <1>7 DEF Downstream

LEMMA RequestUpstream ==
  ASSUME Typing, RequestInv, Upstream
  PROVE  RequestInv'
<1>1. CASE UWrite
  <2>1. /\ reqs # <<>> /\ Head(reqs) # "failed" /\ reqs' = Tail(reqs)
        /\ s_body' = s_body + (IF Head(reqs) \in Data THEN 1 ELSE 0)
        /\ s_end' = (s_end \/ IsEnd(Head(reqs)))
        /\ UNCHANGED <<req, sent, client_eof, got, reading>>
    BY <1>1 DEF UWrite, Data
  <2>2. /\ Len(reqs) \in Nat \ {0} /\ Len(reqs') = Len(reqs) - 1 /\ Head(reqs) = reqs[1]
        /\ \A i \in 1..Len(reqs') : reqs'[i] = reqs[i + 1]
        /\ Count(reqs, Data) = Count(reqs', Data) + (IF Head(reqs) \in Data THEN 1 ELSE 0)
        /\ reqs' \in Seq(RequestTasks)
    BY <2>1, CountTail DEF Typing
  <2>3. Units' = Units /\ DataGot' = DataGot /\ (EndRead => EndRead')
    BY <2>1 DEF Units, DataGot, EndRead
  <2>4. Count(reqs', Data) \in Nat /\ s_body \in Nat
    BY <2>2, Positions DEF Typing
  <2>5. s_body' + Count(reqs', Data) = DataGot'
    BY <2>1, <2>2, <2>3, <2>4 DEF RequestInv
  <2>6. ~s_end /\ 1 \in 1..Len(reqs)
    BY <2>1, <2>2 DEF RequestInv
  <2>7. ASSUME s_end'
        PROVE  EndRead' /\ \A i \in 1..Len(reqs') : reqs'[i] = "failed"
    <3>1. reqs[1] \in {"data_end", "end"}
      BY <2>1, <2>2, <2>6, <2>7 DEF IsEnd, Typing, RequestTasks
    <3>2. EndRead /\ \A j \in (1 + 1)..Len(reqs) : reqs[j] = "failed"
      BY <2>6, <3>1 DEF RequestInv
    <3> QED BY <2>2, <2>3, <3>2
  <2>8. ASSUME NEW i \in 1..Len(reqs'), reqs'[i] \in {"data_end", "end"}
        PROVE  EndRead' /\ \A j \in (i + 1)..Len(reqs') : reqs'[j] = "failed"
    <3>1. i + 1 \in 1..Len(reqs) /\ reqs[i + 1] \in {"data_end", "end"}
      BY <2>2, <2>8
    <3>2. EndRead /\ \A j \in ((i + 1) + 1)..Len(reqs) : reqs[j] = "failed"
      BY <3>1 DEF RequestInv
    <3> QED BY <2>2, <2>3, <3>2
  <2> QED BY <2>5, <2>7, <2>8 DEF RequestInv
<1>2. CASE ~UWrite
  <2>1. UNCHANGED <<req, sent, client_eof, got, reading, reqs, s_body, s_end>>
    BY <1>2 DEF Upstream, UReadInfo, UReadPart, UReadHeader, UReadBody, UReadClosed, UReadDone,
                UReadFails, UReadNothing, USend, UWriteFails, UWritePanics, Received
  <2> QED BY <2>1, RequestFrame DEF EndRead, Units
<1> QED BY <1>1, <1>2

LEMMA RequestNext ==
  ASSUME Typing, RequestInv, [Next]_vars
  PROVE  RequestInv'
<1>1. CASE UNCHANGED vars
  BY <1>1, RequestFrame DEF vars, EndRead, Units
<1>2. CASE Client
  <2>1. UNCHANGED <<req, s_body, s_end, got, reading, reqs>>
    BY <1>2 DEF Client, ClientSends, ClientCloses, ClientSendsMore
  <2>2. EndRead => EndRead'
    BY <1>2, <2>1 DEF Client, ClientSends, ClientCloses, ClientSendsMore, EndRead, Units
  <2> QED BY <2>1, <2>2, RequestFrame
<1>3. CASE Server
  BY <1>3, RequestFrame DEF Server, EndRead, Units
<1> QED BY <1>1, <1>2, <1>3, RequestDownstream, RequestUpstream DEF Next

-----------------------------------------------------------------------------
(* The stream of the response. *)
Stream == StreamInv /\ HeaderInv

(* What an element of the stream may be, where it is. *)
Fits(i) ==
  /\ sin[i] = "info" => i = 1 /\ HeaderDue /\ ~partial
  /\ sin[i] \in Heads \cup {"part"} =>
       HeaderDue /\ ~partial /\ ~lost /\ \A j \in 1..(i - 1) : sin[j] = "info"
  /\ sin[i] \in EndUnits => i = Len(sin) /\ srv = "over"
  /\ sin[i] = "switch" => req.upgrade
  /\ sin[i] = "head" => ~req.head

LEMMA StreamFits == StreamInv => \A i \in 1..Len(sin) : Fits(i)
BY DEF StreamInv, Fits

LEMMA StreamInit == Init => Stream /\ OrderInv
<1> SUFFICES ASSUME Init PROVE Stream /\ OrderInv
  OBVIOUS
<1>1. sin = <<>> /\ \A i \in 1..Len(sin) : FALSE
  BY DEF Init
<1> QED BY <1>1 DEF Init, Stream, StreamInv, HeaderInv, OrderInv, HeaderDue

(* Nothing changes about it. *)
LEMMA StreamFrame ==
  ASSUME Stream, UNCHANGED <<req, srv, sin, header, partial, lost, u_reading, u_resp>>
  PROVE  Stream'
BY DEF Stream, StreamInv, HeaderInv, HeaderDue, EndUnits

(* What is read of it is the first of it. *)
LEMMA StreamRead ==
  ASSUME Typing, Stream, sin # <<>>, sin' = Tail(sin), UNCHANGED <<req, srv>>,
         srv \notin {"wait", "informed"},
         \/ Head(sin) \notin Heads \cup {"info", "part"}
              /\ UNCHANGED <<partial, lost>> /\ (HeaderDue => HeaderDue')
         \/ Head(sin) # "info" /\ ~lost,
         header' = "switch" => req.upgrade
  PROVE  StreamInv'
<1>1. /\ Len(sin) \in Nat \ {0} /\ Len(sin') = Len(sin) - 1 /\ Head(sin) = sin[1]
      /\ \A i \in 1..Len(sin') : sin'[i] = sin[i + 1]
  BY CountTail DEF Typing
<1>2. ASSUME NEW i \in 1..Len(sin')
      PROVE  Fits(i)'
  <2>1. i + 1 \in 1..Len(sin) /\ i + 1 # 1 /\ 1 \in 1..i
    BY <1>1
  <2>2. Fits(i + 1)
    BY <2>1, StreamFits DEF Stream
  <2>3. sin[i + 1] # "info"
    BY <2>1, <2>2 DEF Fits
  <2>4. sin[i + 1] \in Heads \cup {"part"} => sin[1] = "info"
    BY <2>1, <2>2 DEF Fits
  <2>5. sin[1] # "info"
    BY <1>1
  <2>6. sin'[i] = sin[i + 1]
    BY <1>1
  <2>7. i + 1 = Len(sin) => i = Len(sin')
    <3>1. PICK n \in Nat : n = Len(sin)
      BY <1>1
    <3>2. i \in Int /\ Len(sin') = n - 1
      BY <1>1, <3>1
    <3>3. i + 1 = n => i = n - 1
      BY <3>1, <3>2
    <3> QED BY <3>1, <3>2, <3>3, Zenon
  <2> QED BY <2>2, <2>3, <2>4, <2>5, <2>6, <2>7 DEF Fits, EndUnits
<1> QED BY <1>2 DEF StreamInv, Fits

LEMMA StreamInfo ==
  ASSUME Typing, Stream, UReadInfo
  PROVE  /\ Stream'
         /\ lost' \/ (/\ Len(sin') = Len(sin) - 1
                     /\ \A i \in 1..Len(sin') : sin'[i] = sin[i + 1])
<1>1. PICK n \in 1..Len(sin) :
        /\ sin' = SubSeq(sin, n + 1, Len(sin))
        /\ lost' <=> lost \/ n > 1
  BY DEF UReadInfo
<1>2. /\ HeaderDue /\ HeaderDue' /\ sin # <<>> /\ sin[1] = "info" /\ header' = "info"
      /\ UNCHANGED <<req, srv, partial>>
  BY DEF UReadInfo, HeaderDue, Received
<1>3. /\ Len(sin) \in Nat \ {0} /\ Len(sin') = Len(sin) - n
      /\ \A i \in 1..Len(sin') : sin'[i] = sin[i + n]
  BY <1>1, <1>2, CountDropped DEF Typing
<1>4. ~partial /\ srv # "wait" /\ \A i \in 1..Len(sin) : Fits(i)
  BY <1>2, <1>3, StreamFits DEF Stream, Fits, StreamInv
<1>5. ASSUME NEW i \in 1..Len(sin')
      PROVE  Fits(i)'
  <2>1. i + n \in 1..Len(sin) /\ i + n # 1 /\ n > 1 => 2 \in 1..((i + n) - 1) /\ 2 \in 1..Len(sin)
    BY <1>3
  <2>2. Fits(i + n) /\ sin'[i] = sin[i + n]
    BY <1>3, <1>4, <2>1
  <2>3. sin'[i] # "info"
    BY <2>1, <2>2 DEF Fits
  <2>4. n > 1 => sin[2] # "info"
    BY <1>3, <1>4, <2>1 DEF Fits
  <2>5. sin'[i] \in Heads \cup {"part"} => n = 1 /\ i = 1 /\ ~lost'
    <3>1. ASSUME sin'[i] \in Heads \cup {"part"}
          PROVE  \A j \in 1..((i + n) - 1) : sin[j] = "info"
      BY <2>2, <3>1 DEF Fits
    <3>2. i + n > 2 => 2 \in 1..((i + n) - 1) /\ 2 \in 1..Len(sin)
      BY <1>3
    <3>3. sin[2] = "info" /\ 2 \in 1..Len(sin) => FALSE
      BY <1>4 DEF Fits
    <3>4. sin'[i] \in Heads \cup {"part"} => i + n <= 2 /\ ~lost
      BY <2>2, <3>1, <3>2, <3>3 DEF Fits
    <3>5. sin'[i] \in Heads \cup {"part"} => n = 1 /\ i = 1 /\ ~lost
      BY <1>3, <3>4
    <3> QED BY <1>1, <3>5
  <2>6. i + n = Len(sin) => i = Len(sin')
    <3>1. PICK m \in Nat : m = Len(sin)
      BY <1>3
    <3>2. i \in Int /\ Len(sin') = m - n
      BY <1>3, <3>1
    <3>3. i + n = m => i = m - n
      BY <3>1, <3>2
    <3> QED BY <3>1, <3>2, <3>3, Zenon
  <2> QED BY <1>2, <1>4, <2>2, <2>3, <2>5, <2>6 DEF Fits, EndUnits
<1>6. n > 1 => srv \notin {"wait", "informed"}
  <2>1. srv = "informed" => sin = <<"info">>
    BY <1>2 DEF Stream, StreamInv
  <2>2. n > 1 => sin # <<"info">>
    BY <1>3
  <2> QED BY <1>4, <2>1, <2>2
<1>7. srv = "informed" => sin' = <<>>
  <2>1. srv = "informed" => Len(sin) = 1
    BY <1>2 DEF Stream, StreamInv
  <2>2. sin' \in Seq(ServerUnits)
    BY <1>1, <1>2, CountDropped DEF Typing
  <2>3. \A s \in Seq(ServerUnits) : Len(s) = 0 => s = <<>>
    OBVIOUS
  <2>4. Len(sin) = 1 => Len(sin') = 0
    BY <1>3
  <2> QED BY <2>1, <2>2, <2>3, <2>4
<1>8. StreamInv'
  BY <1>2, <1>4, <1>5, <1>7 DEF StreamInv, Fits
<1>9. HeaderInv'
  BY <1>1, <1>2, <1>4, <1>6 DEF Stream, HeaderInv
<1>10. lost' \/ (/\ Len(sin') = Len(sin) - 1
                 /\ \A i \in 1..Len(sin') : sin'[i] = sin[i + 1])
  <2>1. lost' \/ n = 1
    BY <1>1
  <2> QED BY <1>3, <2>1
<1> QED BY <1>8, <1>9, <1>10 DEF Stream

LEMMA StreamUpstream ==
  ASSUME Typing, Stream, Upstream
  PROVE  Stream'
<1>1. CASE UReadInfo
  BY <1>1, StreamInfo
<1>2. CASE UReadPart
  <2>1. /\ HeaderDue /\ HeaderDue' /\ sin # <<>> /\ Head(sin) = "part" /\ sin' = Tail(sin)
        /\ partial' = TRUE /\ UNCHANGED <<req, srv, lost, header, u_reading, u_resp>>
    BY <1>2 DEF UReadPart, HeaderDue
  <2>2. sin[1] = "part" /\ 1 \in 1..Len(sin)
    BY <2>1 DEF Typing
  <2>3. ~lost /\ srv \notin {"wait", "informed"}
    BY <2>1, <2>2, StreamFits DEF Stream, StreamInv, Fits
  <2>4. StreamInv'
    <3>1. header' = "switch" => req.upgrade
      BY <2>1 DEF HeaderDue
    <3> QED BY <2>1, <2>3, <3>1, StreamRead
  <2> QED BY <2>1, <2>3, <2>4 DEF Stream, HeaderInv
<1>3. CASE UReadHeader
  <2> DEFINE task == HeaderTask(Head(sin))
  <2>1. /\ HeaderDue /\ sin # <<>> /\ sin' = Tail(sin) /\ partial' = FALSE
        /\ Head(sin) \in Heads \/ (Head(sin) = "rest" /\ partial)
        /\ Head(sin) # "info"
        /\ header' = IF Head(sin) = "switch" THEN "switch" ELSE "final"
        /\ u_reading' = ~IsEnd(task) /\ Received(task)
        /\ UNCHANGED <<req, srv, lost>>
    BY <1>3 DEF UReadHeader, Heads, Received
  <2>2. Head(sin) = sin[1] /\ 1 \in 1..Len(sin)
    BY <2>1 DEF Typing
  <2>3. ~lost /\ srv \notin {"wait", "informed"} /\ (sin[1] = "switch" => req.upgrade)
    BY <2>1, <2>2, StreamFits DEF Stream, StreamInv, HeaderInv, Fits
  <2>4. header' = "switch" => req.upgrade
    BY <2>1, <2>2, <2>3
  <2>5. StreamInv'
    BY <2>1, <2>3, <2>4, StreamRead
  <2>6. task # "failed" /\ (u_resp' <=> IsEnd(task))
    BY <2>1, EndType, HeaderTasks DEF Received, Finals
  <2> HIDE DEF task
  <2>7. header' \in {"final", "switch"} /\ (~u_resp' => u_reading')
    BY <2>1, <2>6
  <2> QED BY <2>1, <2>3, <2>5, <2>7 DEF Stream, HeaderInv, HeaderDue
<1>4. CASE UReadBody
  <2>1. /\ ~HeaderDue /\ sin # <<>> /\ sin' = Tail(sin) /\ Head(sin) \in Data
        /\ UNCHANGED <<req, srv, lost, header, partial>>
        /\ (HeaderDue => HeaderDue')
        /\ u_reading' = ~IsEnd(Head(sin)) /\ Received(Head(sin))
    BY <1>4 DEF UReadBody, Data, Received
  <2>2. srv \notin {"wait", "informed"}
    BY <2>1 DEF Stream, HeaderInv
  <2>3. StreamInv'
    <3>1. Head(sin) \notin Heads \cup {"info", "part"}
      BY <2>1 DEF Heads, Data
    <3>2. header' = "switch" => req.upgrade
      BY <2>1 DEF Stream, StreamInv
    <3> QED BY <2>1, <2>2, <3>1, <3>2, StreamRead
  <2>4. ~u_resp' => u_reading'
    BY <2>1, EndType DEF Received, Data
  <2> QED BY <2>1, <2>3, <2>4 DEF Stream, HeaderInv, HeaderDue
<1>5. CASE UReadClosed \/ UReadDone
  <2>1. /\ UNCHANGED <<req, srv, lost, header, partial, sin>>
        /\ Received("end") \/ Received("done")
    BY <1>5 DEF UReadClosed, UReadDone, Received
  <2>2. u_resp'
    <3>1. IsEnd("end") /\ IsEnd("done")
      BY DEF IsEnd
    <3> QED BY <2>1, <3>1 DEF Received
  <2> QED BY <2>1, <2>2 DEF Stream, StreamInv, HeaderInv, HeaderDue, EndUnits
<1>6. CASE UReadFails
  <2>1. /\ UNCHANGED <<req, srv, lost, header, sin, u_reading, u_resp>> /\ partial' = FALSE
    BY <1>6 DEF UReadFails, Received
  <2> QED BY <2>1 DEF Stream, StreamInv, HeaderInv, HeaderDue, EndUnits
<1>7. CASE UReadNothing \/ USend \/ UWriteFails \/ UWritePanics
  BY <1>7, StreamFrame DEF UReadNothing, USend, UWriteFails, UWritePanics
<1>8. CASE UWrite
  <2>1. /\ UNCHANGED <<req, srv, header, sin, u_resp>> /\ partial' = FALSE
        /\ lost' = (lost \/ partial)
        /\ header # "switch" => (u_reading <=> u_reading')
    BY <1>8 DEF UWrite
  <2> QED BY <2>1 DEF Stream, StreamInv, HeaderInv, HeaderDue, EndUnits
<1> QED BY <1>1, <1>2, <1>3, <1>4, <1>5, <1>6, <1>7, <1>8 DEF Upstream

LEMMA StreamServer ==
  ASSUME Typing, Stream, Server
  PROVE  Stream'
<1>0. UNCHANGED <<req, header, partial, lost, u_reading, u_resp>> /\ HeaderDue' = HeaderDue
  BY DEF Server, HeaderDue
<1>1. CASE ServerCloses
  BY <1>0, <1>1, StreamFrame DEF ServerCloses
<1>2. ASSUME NEW unit \in ServerUnits, sin' = Append(sin, unit), srv # "over",
             srv' \notin {"wait", "informed"} \/ (srv = "wait" /\ unit = "info" /\ srv' = "informed"),
             unit = "info" => srv = "wait",
             unit \in Heads \cup {"part"} => srv \in {"wait", "informed"},
             unit \in EndUnits => srv' = "over",
             unit = "switch" => req.upgrade, unit = "head" => ~req.head
      PROVE  Stream'
  <2>0. PICK n \in Nat : n = Len(sin)
    BY DEF Typing
  <2>1. /\ Len(sin') = n + 1 /\ sin'[n + 1] = unit
        /\ \A i \in 1..n : sin'[i] = sin[i]
    BY <1>2, <2>0 DEF Typing
  <2>2. ASSUME NEW i \in 1..n
        PROVE  Fits(i)'
    <3>1. Fits(i) /\ sin[i] \notin EndUnits /\ sin'[i] = sin[i]
      BY <1>2, <2>0, <2>1, StreamFits DEF Stream, Fits
    <3> QED BY <1>0, <2>1, <3>1 DEF Fits, EndUnits
  <2>3. srv \in {"wait", "informed"} =>
          HeaderDue /\ ~partial /\ ~lost /\ (sin = <<>> \/ sin = <<"info">>)
    BY DEF Stream, StreamInv, HeaderInv
  <2>4. srv \in {"wait", "informed"} => \A i \in 1..n : sin[i] = "info"
    BY <2>0, <2>3
  <2>5. srv = "wait" => sin = <<>> /\ n = 0
    BY <2>0 DEF Stream, StreamInv
  <2>6. Fits(n + 1)'
    <3>1. \A j \in 1..((n + 1) - 1) : j \in 1..n
      BY <2>0
    <3> QED BY <1>0, <1>2, <2>1, <2>3, <2>4, <2>5, <3>1 DEF Fits, EndUnits
  <2>7. \A i \in 1..(n + 1) : i \in 1..n \/ i = n + 1
    BY <2>0
  <2>8. ASSUME NEW i \in 1..Len(sin)'
        PROVE  Fits(i)'
    BY <2>1, <2>2, <2>6, <2>7
  <2>9. srv' = "informed" => sin' = <<"info">>
    BY <1>2, <2>5
  <2>10. StreamInv'
    BY <1>0, <1>2, <2>8, <2>9 DEF Stream, StreamInv, Fits
  <2>11. HeaderInv'
    BY <1>0, <1>2, <2>3 DEF Stream, HeaderInv
  <2> QED BY <2>10, <2>11 DEF Stream
<1>3. CASE ServerInforms
  BY <1>2, <1>3 DEF ServerInforms, Serves, ServerUnits, Heads, EndUnits
<1>4. CASE ServerAnswers
  BY <1>2, <1>4 DEF ServerAnswers, MayAnswer, Serves, ServerUnits, Heads, EndUnits
<1>5. CASE ServerCompletesHeader
  BY <1>2, <1>5 DEF ServerCompletesHeader, Serves, ServerUnits, Heads, EndUnits
<1>6. CASE ServerSends
  BY <1>2, <1>6 DEF ServerSends, Serves, ServerUnits, Heads, EndUnits
<1> QED BY <1>1, <1>3, <1>4, <1>5, <1>6 DEF Server

LEMMA StreamNext ==
  ASSUME Typing, Stream, [Next]_vars
  PROVE  Stream'
<1>1. CASE UNCHANGED vars \/ Client
  BY <1>1, StreamFrame DEF vars, Client
<1>2. CASE Downstream
  BY <1>2, StreamFrame
  DEF Downstream, DRead, DReadDone, DReadClosed, DReadFails, DSendFailed, DWrite, DWriteFails,
      SendRequest
<1> QED BY <1>1, <1>2, StreamUpstream, StreamServer DEF Next

-----------------------------------------------------------------------------
(* The order of the stream. *)
LEMMA EmptyStream == \A s \in Seq(ServerUnits) : Len(s) = 0 => s = <<>>
OBVIOUS

Orderly == ~lost /\ HeaderDue /\ u_pc # "returned" /\ pending # "failed"

LEMMA OrderFrame ==
  ASSUME OrderInv, Orderly' => Orderly, Orderly' => UNCHANGED <<sin, srv, partial>>
  PROVE  OrderInv'
BY DEF OrderInv, Orderly, HeaderDue

(* What was read of it is the first of it. *)
LEMMA OrderRead ==
  ASSUME Typing, OrderInv, sin # <<>>, Orderly, srv' = srv,
         sin' \in Seq(ServerUnits), Len(sin') = Len(sin) - 1,
         \A i \in 1..Len(sin') : sin'[i] = sin[i + 1],
         \/ sin[1] = "info" /\ ~partial'
         \/ sin[1] = "part" /\ partial'
  PROVE  OrderInv'
<1> PICK n \in Nat : n = Len(sin')
  OBVIOUS
<1>1. Len(sin) = n + 1 /\ \A i \in 1..n : sin'[i] = sin[i + 1]
  BY DEF Typing
<1>2. /\ \A i \in 1..n : /\ sin[i] = "info" => sin[i + 1] \in Heads \cup {"part"}
                         /\ sin[i] = "part" => sin[i + 1] = "rest"
      /\ sin[n + 1] = "info" <=> srv = "informed"
      /\ sin[n + 1] = "part" <=> srv = "split"
  BY <1>1 DEF OrderInv, Orderly
<1>3. CASE n = 0
  <2>1. sin' = <<>>
    BY <1>3, EmptyStream
  <2>2. srv' \in (IF partial' THEN {"split"} ELSE {"wait", "informed"})
    <3>1. n + 1 = 1
      <4>1. 0 + 1 = 1
        OBVIOUS
      <4> QED BY <1>3, <4>1, Zenon
    <3>2. sin[1] = "info" => srv = "informed"
      BY <1>2, <3>1
    <3>3. sin[1] = "part" => srv = "split"
      BY <1>2, <3>1
    <3> QED BY <3>2, <3>3
  <2> QED BY <2>1, <2>2 DEF OrderInv
<1>4. CASE n > 0
  <2>1. sin' # <<>> /\ 1 \in 1..n /\ sin'[1] = sin[2] /\ sin'[n] = sin[n + 1]
    BY <1>1, <1>4
  <2>2. sin'[1] \in (IF partial' THEN {"rest"} ELSE Heads \cup {"info", "part"})
    BY <1>2, <2>1
  <2>3. \A i \in 1..(n - 1) : i \in 1..n /\ i + 1 \in 1..n
    OBVIOUS
  <2>4. \A i \in 1..(n - 1) :
          /\ sin'[i] = "info" => sin'[i + 1] \in Heads \cup {"part"}
          /\ sin'[i] = "part" => sin'[i + 1] = "rest"
    BY <1>1, <1>2, <2>3
  <2>5. /\ sin'[n] = "info" <=> srv' = "informed"
        /\ sin'[n] = "part" <=> srv' = "split"
    BY <1>2, <2>1
  <2> QED BY <2>1, <2>2, <2>4, <2>5 DEF OrderInv
<1> QED BY <1>3, <1>4

(* And what the server sends the last. *)
LEMMA OrderSent ==
  ASSUME Typing, Stream, OrderInv, Orderly => Orderly', Orderly' => Orderly,
         partial' = partial, NEW unit \in ServerUnits, sin' = Append(sin, unit),
         \/ srv = "wait" /\ unit = "info"
         \/ srv \in {"wait", "informed"} /\ unit \in Heads \cup {"part"}
         \/ srv = "split" /\ unit = "rest"
         \/ srv = "body" /\ unit \in Data,
         unit = "info" <=> srv' = "informed",
         unit = "part" <=> srv' = "split"
  PROVE  OrderInv'
<1> SUFFICES ASSUME Orderly PROVE OrderInv'
  BY DEF OrderInv, Orderly
<1> PICK n \in Nat : n = Len(sin)
  BY DEF Typing
<1>1. Len(sin') = n + 1 /\ sin'[n + 1] = unit /\ \A i \in 1..n : sin'[i] = sin[i]
  BY DEF Typing
<1>2. sin' # <<>>
  BY <1>1
<1>3. CASE n = 0
  <2>1. sin = <<>>
    BY <1>3, EmptyStream DEF Typing
  <2>2. srv \in (IF partial THEN {"split"} ELSE {"wait", "informed"})
    BY <2>1 DEF OrderInv, Orderly
  <2>3. unit \in (IF partial THEN {"rest"} ELSE Heads \cup {"info", "part"})
    BY <2>2
  <2> QED BY <1>1, <1>2, <1>3, <2>3 DEF OrderInv
<1>4. CASE n > 0
  <2>1. /\ sin # <<>> /\ 1 \in 1..n /\ n \in 1..n
        /\ sin[n] = "info" <=> srv = "informed"
        /\ sin[n] = "part" <=> srv = "split"
        /\ sin[1] \in (IF partial THEN {"rest"} ELSE Heads \cup {"info", "part"})
        /\ \A i \in 1..(n - 1) :
             /\ sin[i] = "info" => sin[i + 1] \in Heads \cup {"part"}
             /\ sin[i] = "part" => sin[i + 1] = "rest"
    <3>1. sin # <<>> /\ 1 \in 1..n /\ n \in 1..n
      BY <1>4
    <3> QED BY <3>1 DEF OrderInv, Orderly
  <2>2. srv # "wait"
    BY <2>1 DEF Stream, StreamInv
  <2>3. ASSUME NEW i \in 1..((n + 1) - 1)
        PROVE  /\ sin'[i] = "info" => sin'[i + 1] \in Heads \cup {"part"}
               /\ sin'[i] = "part" => sin'[i + 1] = "rest"
    <3>1. CASE i = n
      BY <1>1, <2>1, <2>2, <3>1
    <3>2. CASE i # n
      <4>1. i \in 1..(n - 1) /\ i \in 1..n /\ i + 1 \in 1..n
        BY <3>2
      <4> QED BY <1>1, <2>1, <4>1
    <3> QED BY <3>1, <3>2
  <2>4. sin'[1] = sin[1]
    BY <1>1, <2>1
  <2> QED BY <1>1, <1>2, <2>1, <2>3, <2>4 DEF OrderInv
<1> QED BY <1>3, <1>4

LEMMA OrderUpstream ==
  ASSUME Typing, Stream, OrderInv, Upstream
  PROVE  OrderInv'
<1>1. CASE UReadInfo
  <2>1. /\ HeaderDue /\ sin # <<>> /\ Head(sin) = "info" /\ u_pc = "loop"
        /\ UNCHANGED <<srv, partial>> /\ sin' \in Seq(ServerUnits)
        /\ lost => lost'
    <3>1. PICK n \in 1..Len(sin) : sin' = SubSeq(sin, n + 1, Len(sin))
      BY <1>1 DEF UReadInfo
    <3>2. sin' \in Seq(ServerUnits)
      BY <3>1, CountDropped DEF Typing
    <3> QED BY <1>1, <3>2 DEF UReadInfo, MayReceive, Received
  <2>2. Head(sin) = sin[1] /\ 1 \in 1..Len(sin)
    BY <2>1 DEF Typing
  <2>3. ~partial
    BY <2>1, <2>2, StreamFits DEF Stream, Fits
  <2>4. CASE lost'
    BY <2>4 DEF OrderInv
  <2>5. CASE ~lost'
    <3>1. /\ Len(sin') = Len(sin) - 1
          /\ \A i \in 1..Len(sin') : sin'[i] = sin[i + 1]
      BY <1>1, <2>5, StreamInfo
    <3>2. Orderly
      BY <2>1, <2>5 DEF Orderly, Typing
    <3> QED BY <2>1, <2>2, <2>3, <3>1, <3>2, OrderRead
  <2> QED BY <2>4, <2>5
<1>2. CASE UReadPart
  <2>1. /\ HeaderDue /\ sin # <<>> /\ Head(sin) = "part" /\ u_pc = "loop" /\ sin' = Tail(sin)
        /\ UNCHANGED <<srv, lost>> /\ partial'
    BY <1>2 DEF UReadPart, MayReceive
  <2>2. /\ sin' \in Seq(ServerUnits) /\ Len(sin') = Len(sin) - 1 /\ Head(sin) = sin[1]
        /\ \A i \in 1..Len(sin') : sin'[i] = sin[i + 1]
    BY <2>1, CountTail DEF Typing
  <2>3. 1 \in 1..Len(sin)
    BY <2>1 DEF Typing
  <2>4. Orderly
    BY <2>1, <2>2, <2>3, StreamFits DEF Orderly, Stream, Fits, Typing
  <2> QED BY <2>1, <2>2, <2>4, OrderRead
<1>3. CASE UReadHeader
  <2>1. ~HeaderDue'
    BY <1>3 DEF UReadHeader, HeaderDue
  <2> QED BY <2>1 DEF OrderInv, HeaderDue
<1>4. CASE UReadBody \/ UReadClosed \/ UReadDone
  <2>1. ~HeaderDue'
    BY <1>4 DEF UReadBody, UReadClosed, UReadDone, HeaderDue
  <2> QED BY <2>1 DEF OrderInv, HeaderDue
<1>5. CASE UReadFails
  <2>1. pending' = "failed"
    BY <1>5 DEF UReadFails, Received
  <2> QED BY <2>1 DEF OrderInv
<1>6. CASE UReadNothing \/ UWriteFails \/ UWritePanics
  BY <1>6, OrderFrame DEF UReadNothing, UWriteFails, UWritePanics, Orderly, HeaderDue
<1>7. CASE USend
  <2>1. /\ UNCHANGED <<sin, srv, partial, lost, header>> /\ u_pc # "returned"
        /\ pending = "failed" => u_pc' = "returned" \/ pending' = "failed"
    BY <1>7 DEF USend
  <2> QED BY <2>1, OrderFrame DEF Orderly, HeaderDue
<1>8. CASE UWrite
  <2>1. /\ UNCHANGED <<sin, srv, u_pc, pending, header>> /\ partial' = FALSE
        /\ ~lost' => ~lost /\ ~partial
    BY <1>8 DEF UWrite
  <2>2. ~lost' => partial' = partial
    BY <2>1 DEF Typing
  <2> QED BY <2>1, <2>2, OrderFrame DEF Orderly, HeaderDue
<1> QED BY <1>1, <1>2, <1>3, <1>4, <1>5, <1>6, <1>7, <1>8 DEF Upstream

LEMMA OrderNext ==
  ASSUME Typing, Stream, OrderInv, [Next]_vars
  PROVE  OrderInv'
<1>1. CASE UNCHANGED vars \/ Client
  BY <1>1, OrderFrame DEF vars, Client, Orderly, HeaderDue
<1>2. CASE Downstream
  <2>1. UNCHANGED <<sin, srv, partial, lost, header, u_pc, pending>>
    BY <1>2 DEF Downstream, DRead, DReadDone, DReadClosed, DReadFails, DSendFailed, DWrite,
                DWriteFails, SendRequest
  <2> QED BY <2>1, OrderFrame DEF Orderly, HeaderDue
<1>3. CASE Server
  <2>0. UNCHANGED <<lost, header, u_pc, pending, partial>> /\ (Orderly <=> Orderly')
    BY <1>3 DEF Server, Orderly, HeaderDue
  <2>1. CASE ServerCloses
    BY <2>0, <2>1, OrderFrame DEF ServerCloses
  <2>2. CASE ServerInforms
    BY <2>0, <2>2, OrderSent DEF ServerInforms, Serves, ServerUnits, Heads, Data
  <2>3. CASE ServerAnswers
    BY <2>0, <2>3, OrderSent DEF ServerAnswers, MayAnswer, Serves, ServerUnits, Heads, Data
  <2>4. CASE ServerCompletesHeader
    BY <2>0, <2>4, OrderSent DEF ServerCompletesHeader, Serves, ServerUnits, Heads, Data
  <2>5. CASE ServerSends
    BY <2>0, <2>5, OrderSent DEF ServerSends, Serves, ServerUnits, Heads, Data
  <2> QED BY <1>3, <2>1, <2>2, <2>3, <2>4, <2>5 DEF Server
<1> QED BY <1>1, <1>2, <1>3, OrderUpstream DEF Next

-----------------------------------------------------------------------------
(* The response between the two sockets. *)
Whole == c_body + Count(resps, Data) + Passing + Count(sin, Data)

LEMMA WholeType ==
  ASSUME Typing
  PROVE  /\ Count(resps, Data) \in Nat /\ Count(sin, Data) \in Nat /\ c_body \in Nat
         /\ Passing \in Nat /\ made \in Nat /\ Whole \in Nat
<1>1. Count(resps, Data) \in Nat /\ Count(sin, Data) \in Nat
  BY Positions DEF Typing
<1>2. c_body \in Nat /\ made \in Nat
  BY DuplexAssumption DEF Typing
<1> QED BY <1>1, <1>2 DEF Whole, Passing

LEMMA ResponseInit == Init => ResponseInv /\ EndInv
<1> SUFFICES ASSUME Init PROVE ResponseInv /\ EndInv
  OBVIOUS
<1>1. resps = <<>> /\ sin = <<>> /\ \A i \in 1..Len(resps) : FALSE
  BY DEF Init
<1>2. Count(resps, Data) = 0 /\ Count(sin, Data) = 0
  BY <1>1, TypingInit, CountNone DEF Typing
<1>3. Passing = 0
  BY DEF Passing, Data, Init
<1>4. ResponseInv
  BY <1>1, <1>2, <1>3 DEF ResponseInv, Init, HeaderDue, Finals, Infos, Data, Ends
<1>5. EndInv
  BY <1>1 DEF EndInv, Init
<1> QED BY <1>4, <1>5

LEMMA ResponseFrame ==
  ASSUME ResponseInv, UNCHANGED <<c_body, c_head, resps, pending, sin, made, header>>,
         lost => lost', d_pc' # "returned" => d_pc # "returned"
  PROVE  ResponseInv'
BY DEF ResponseInv, Passing, HeaderDue

(* A task of the response is read. *)
LEMMA ResponseRead ==
  ASSUME Typing, Typing', ResponseInv, MayReceive, NEW task \in ResponseTasks, Received(task),
         lost => lost', header' = "switch" \/ header' = "final" \/ HeaderDue,
         ~HeaderDue => header' = header,
         Count(sin', Data) + (IF task \in Data THEN 1 ELSE 0) <= Count(sin, Data),
         ~lost' => Count(sin', Data) + (IF task \in Data THEN 1 ELSE 0) = Count(sin, Data),
         task \in Infos => HeaderDue',
         task \in Finals \cup Data \cup Ends => ~HeaderDue',
         task \in Finals => HeaderDue,
         ~HeaderDue' => ~HeaderDue \/ task \in Finals
  PROVE  ResponseInv'
<1>1. /\ UNCHANGED <<c_body, c_head, resps, made, d_pc>>
      /\ pending = "none" /\ pending' = task
  BY DEF Received, MayReceive, Typing
<1>2. Passing = 0 /\ Passing' = (IF task \in Data THEN 1 ELSE 0)
  BY <1>1 DEF Passing, Data
<1>3. /\ Count(resps, Data) \in Nat /\ Count(sin, Data) \in Nat /\ c_body \in Nat
      /\ made \in Nat /\ Count(sin', Data) \in Nat
  BY WholeType, Positions DEF Typing
<1>4. /\ (c_body + Count(resps, Data) + Passing + Count(sin, Data) <= made)'
      /\ (d_pc # "returned" /\ ~lost =>
            c_body + Count(resps, Data) + Passing + Count(sin, Data) = made)'
  BY <1>1, <1>2, <1>3 DEF ResponseInv
<1>5. HeaderDue' => HeaderDue
  BY DEF HeaderDue
<1>6. (c_head = "final" => ~HeaderDue /\ \A i \in 1..Len(resps) : resps[i] \notin Infos)'
  BY <1>1, <1>5 DEF ResponseInv
<1>7. /\ (pending \in Infos => HeaderDue)'
      /\ (pending \in Finals \cup Data \cup Ends => ~HeaderDue)'
  BY <1>1
<1>8. ASSUME NEW i \in 1..Len(resps)
      PROVE  /\ resps[i] \in Finals \cup Data \cup Ends => ~HeaderDue'
             /\ task \in Finals => resps[i] \notin Data
  BY <1>1, <1>5 DEF ResponseInv
<1>9. (d_pc # "returned" /\ ~HeaderDue =>
        \/ c_head = "final" \/ pending \in Finals
        \/ \E i \in 1..Len(resps) : resps[i] \in Finals)'
  <2>1. pending \notin Finals
    BY <1>1 DEF Finals
  <2> QED BY <1>1, <2>1 DEF ResponseInv
<1> QED BY <1>1, <1>4, <1>6, <1>7, <1>8, <1>9 DEF ResponseInv

LEMMA ResponseUpstream ==
  ASSUME Typing, Typing', Stream, ResponseInv, Upstream
  PROVE  ResponseInv'
<1>0. /\ Count(sin, Data) \in Nat
      /\ sin # <<>> => Count(sin, Data) = Count(Tail(sin), Data)
                          + (IF Head(sin) \in Data THEN 1 ELSE 0)
      /\ sin # <<>> => Count(Tail(sin), Data) \in Nat
  <2>1. Count(sin, Data) \in Nat
    BY WholeType
  <2>2. ASSUME sin # <<>>
        PROVE  /\ Tail(sin) \in Seq(ServerUnits)
               /\ Count(sin, Data) = Count(Tail(sin), Data)
                    + (IF Head(sin) \in Data THEN 1 ELSE 0)
    BY <2>2, CountTail DEF Typing
  <2>3. ASSUME sin # <<>>
        PROVE  Count(Tail(sin), Data) \in Nat
    BY <2>2, <2>3, Positions
  <2> QED BY <2>1, <2>2, <2>3
<1>1. CASE UReadInfo
  <2>1. PICK n \in 1..Len(sin) : sin' = SubSeq(sin, n + 1, Len(sin)) /\ (n > 1 => lost')
    BY <1>1 DEF UReadInfo
  <2>2. Count(sin', Data) <= Count(sin, Data)
    BY <2>1, CountDropped DEF Typing
  <2>3. ASSUME ~lost'
        PROVE  Count(sin', Data) = Count(sin, Data)
    <3>1. n = 1 /\ n \in 0..Len(sin)
      BY <2>1, <2>3
    <3>2. sin' \in Seq(ServerUnits) /\ sin \in Seq(ServerUnits) /\ sin # <<>>
      BY <1>1 DEF UReadInfo, Typing
    <3>3. Len(sin') = Len(sin) - n /\ \A i \in 1..Len(sin') : sin'[i] = sin[i + n]
      BY <2>1, <3>2, CountDropped
    <3>4. Count(sin', Data) = Cardinality(Behind(sin, n, Data))
      BY <3>1, <3>2, <3>3, CountBehind
    <3>5. PICK t \in Seq(ServerUnits) : t = Tail(sin)
      BY <3>2, CountTail
    <3>6. /\ Len(t) = Len(sin) - n /\ \A i \in 1..Len(t) : t[i] = sin[i + n]
      BY <3>1, <3>2, <3>5, CountTail
    <3>7. Count(t, Data) = Cardinality(Behind(sin, n, Data))
      BY <3>1, <3>2, <3>6, CountBehind
    <3>8. Head(sin) \notin Data
      BY <1>1 DEF UReadInfo, Data
    <3> QED BY <1>0, <3>2, <3>4, <3>5, <3>7, <3>8
  <2> DEFINE task == IF req.head THEN "informed" ELSE "info"
  <2>4. task \in ResponseTasks /\ task \notin Finals \cup Data \cup Ends
    BY DEF ResponseTasks, Data, Finals, Ends
  <2>5. /\ MayReceive /\ Received(task) /\ HeaderDue /\ HeaderDue' /\ (lost => lost')
    BY <1>1 DEF UReadInfo, HeaderDue
  <2>6. Count(sin', Data) \in Nat
    BY Positions DEF Typing
  <2> HIDE DEF task
  <2> QED BY <1>0, <2>2, <2>3, <2>4, <2>5, <2>6, ResponseRead
<1>2. CASE UReadPart
  <2>1. /\ sin # <<>> /\ sin' = Tail(sin) /\ Head(sin) \notin Data
        /\ UNCHANGED <<c_body, c_head, resps, pending, made, header, lost, d_pc>>
    BY <1>2 DEF UReadPart, Data
  <2>2. Count(sin', Data) = Count(sin, Data)
    BY <1>0, <2>1
  <2> QED BY <2>1, <2>2 DEF ResponseInv, Passing, HeaderDue
<1>3. CASE UReadHeader
  <2> DEFINE task == HeaderTask(Head(sin))
  <2>1. /\ MayReceive /\ HeaderDue /\ sin # <<>> /\ sin' = Tail(sin) /\ lost' = lost
        /\ Head(sin) \in Heads \cup {"rest"} /\ Received(task)
        /\ header' \in {"switch", "final"}
    BY <1>3 DEF UReadHeader, Heads
  <2>2. /\ Head(sin) \notin Data /\ task \notin Data /\ task \notin Infos /\ task \in Finals
        /\ task \in ResponseTasks
    <3>1. task \in Finals
      BY HeaderTasks
    <3> QED BY <2>1, <3>1 DEF Heads, Finals, Infos, Data, ResponseTasks
  <2>3. ~HeaderDue'
    BY <2>1 DEF HeaderDue
  <2> HIDE DEF task
  <2> QED BY <1>0, <2>1, <2>2, <2>3, ResponseRead
<1>4. CASE UReadBody
  <2>1. /\ MayReceive /\ ~HeaderDue /\ sin # <<>> /\ sin' = Tail(sin) /\ lost' = lost
        /\ Head(sin) \in Data /\ Received(Head(sin)) /\ header' = header /\ ~HeaderDue'
    BY <1>4 DEF UReadBody, Data, HeaderDue
  <2>2. /\ Head(sin) \notin Finals /\ Head(sin) \notin Infos /\ Head(sin) \in ResponseTasks
    BY <2>1 DEF Finals, Infos, Data, ResponseTasks
  <2>3. header' = "switch" \/ header' = "final"
    BY <2>1 DEF HeaderDue, Typing
  <2> QED BY <1>0, <2>1, <2>2, <2>3, ResponseRead
<1>5. CASE UReadClosed \/ UReadDone \/ UReadFails
  <2>1. PICK task \in {"end", "done", "failed"} :
          /\ MayReceive /\ Received(task) /\ UNCHANGED <<header, sin, lost>>
          /\ task \in {"end", "done"} => ~HeaderDue
    BY <1>5 DEF UReadClosed, UReadDone, UReadFails
  <2>2. /\ task \notin Finals /\ task \notin Infos /\ task \in ResponseTasks /\ task \notin Data
        /\ task = "failed" => task \notin Finals \cup Data \cup Ends
        /\ HeaderDue' = HeaderDue
    BY <2>1 DEF Finals, Infos, Data, Ends, ResponseTasks, HeaderDue
  <2>3. header' = "switch" \/ header' = "final" \/ HeaderDue
    BY <2>1 DEF HeaderDue, Typing
  <2> QED BY <1>0, <2>1, <2>2, <2>3, ResponseRead
<1>6. CASE UReadNothing \/ UWriteFails \/ UWritePanics
  BY <1>6, ResponseFrame DEF UReadNothing, UWriteFails, UWritePanics
<1>7. CASE UWrite
  <2>1. UNCHANGED <<c_body, c_head, resps, pending, sin, made, header, d_pc>> /\ (lost => lost')
    BY <1>7 DEF UWrite
  <2> QED BY <2>1, ResponseFrame
<1>8. CASE USend
  <2>0. UNCHANGED <<c_body, c_head, sin, made, header, lost, d_pc>> /\ pending # "none"
    BY <1>8 DEF USend, Typing
  <2>1. CASE resps' = resps /\ pending' = pending
    BY <2>0, <2>1, ResponseFrame
  <2>2. CASE resps' = resps /\ pending' = "none" /\ d_pc = "returned"
    <3>1. Passing' = 0
      BY <2>2 DEF Passing, Data
    <3>2. pending' \notin Finals \cup Data \cup Ends /\ pending' \notin Infos
      BY <2>2 DEF Finals, Infos, Data, Ends
    <3>3. Whole' <= made'
      BY <2>0, <2>2, <3>1, WholeType DEF ResponseInv, Whole
    <3>4. HeaderDue' = HeaderDue
      BY <2>0 DEF HeaderDue
    <3> QED BY <2>0, <2>2, <3>2, <3>3, <3>4 DEF ResponseInv, Whole
  <2>3. CASE resps' = Append(resps, pending) /\ pending' = "none"
    <3>0. PICK n \in Nat : n = Len(resps)
      BY DEF Typing
    <3>1. /\ Len(resps') = n + 1 /\ resps'[n + 1] = pending
          /\ \A i \in 1..n : resps'[i] = resps[i]
          /\ \A i \in 1..(n + 1) : i \in 1..n \/ i = n + 1
          /\ n + 1 \in 1..(n + 1)
      BY <2>3, <3>0 DEF Typing
    <3>2. Passing' = 0
      BY <2>3 DEF Passing, Data
    <3>3. pending' \notin Finals \cup Data \cup Ends /\ pending' \notin Infos
      BY <2>3 DEF Finals, Infos, Data, Ends
    <3>4. Count(resps', Data) = Count(resps, Data) + Passing
      BY <2>0, <2>3, CountAppend DEF Typing, Passing
    <3>5. Whole' = Whole
      BY <2>0, <3>2, <3>4, WholeType DEF Whole
    <3>6. HeaderDue' = HeaderDue
      BY <2>0 DEF HeaderDue
    <3>7. \A i \in 1..(n + 1) : resps'[i] \in Finals \cup Data \cup Ends => ~HeaderDue
      BY <3>0, <3>1 DEF ResponseInv
    <3>8. c_head = "final" => ~HeaderDue /\ \A i \in 1..(n + 1) : resps'[i] \notin Infos
      BY <3>0, <3>1 DEF ResponseInv
    <3>9. d_pc # "returned" /\ ~HeaderDue =>
            c_head = "final" \/ \E i \in 1..(n + 1) : resps'[i] \in Finals
      <4>1. \A i \in 1..n : i \in 1..(n + 1)
        BY <3>0
      <4> QED BY <3>0, <3>1, <4>1 DEF ResponseInv
    <3> QED BY <2>0, <3>1, <3>3, <3>5, <3>6, <3>7, <3>8, <3>9 DEF ResponseInv, Whole
  <2> QED BY <1>8, <2>1, <2>2, <2>3 DEF USend
<1> QED BY <1>1, <1>2, <1>3, <1>4, <1>5, <1>6, <1>7, <1>8 DEF Upstream

(* handle_downstream takes all there is, the header before the body. *)
LEMMA ResponseWrite ==
  ASSUME Typing, ResponseInv, DWrite
  PROVE  ResponseInv'
<1>1. /\ resps' = <<>> /\ d_pc = "loop" /\ \A i \in 1..Len(resps') : FALSE
      /\ UNCHANGED <<pending, sin, made, header, lost>>
  BY DEF DWrite, MayWrite
<1>2. c_body' = c_body + Count(resps, Data)
  BY DEF DWrite, Count, Taken, Data
<1>3. Count(resps', Data) = 0
  <2>1. resps' \in Seq(ResponseTasks)
    BY <1>1
  <2> QED BY <1>1, <2>1, CountNone
<1>4. Whole' = Whole /\ HeaderDue' = HeaderDue /\ Passing' = Passing
  BY <1>1, <1>2, <1>3, WholeType DEF Whole, Passing, HeaderDue
<1>5. (c_head' = "final") <=>
        \/ \E i \in 1..Len(resps) : resps[i] \in Finals
        \/ c_head = "final" /\ \A i \in 1..Len(resps) : resps[i] \notin Infos
  BY DEF DWrite, Taken, Infos
<1>6. c_head = "final" => c_head' = "final"
  BY <1>5 DEF ResponseInv
<1>7. c_head' = "final" => ~HeaderDue
  BY <1>5 DEF ResponseInv
<1>8. ASSUME c_body' > 0, c_head # "final"
      PROVE  c_head' = "final"
  <2>1. c_body = 0
    BY <1>8, WholeType DEF ResponseInv
  <2>2. Count(resps, Data) # 0
    BY <1>2, <1>8, <2>1
  <2>3. PICK i \in 1..Len(resps) : resps[i] \in Data
    BY <2>2, CountNone DEF Typing
  <2>4. ~HeaderDue /\ pending \notin Finals
    BY <2>3 DEF ResponseInv
  <2>5. \E j \in 1..Len(resps) : resps[j] \in Finals
    BY <1>1, <1>8, <2>4 DEF ResponseInv
  <2> QED BY <1>5, <2>5
<1>9. d_pc # "returned" /\ ~HeaderDue => c_head' = "final" \/ pending \in Finals
  BY <1>5, <1>6 DEF ResponseInv
<1> QED BY <1>1, <1>4, <1>6, <1>7, <1>8, <1>9 DEF ResponseInv, Whole

LEMMA ResponseServer ==
  ASSUME Typing, ResponseInv, Server
  PROVE  ResponseInv'
<1>0. UNCHANGED <<c_body, c_head, resps, pending, header, lost, d_pc>>
  BY DEF Server
<1>1. CASE ServerCloses
  BY <1>0, <1>1, ResponseFrame DEF ServerCloses
<1>2. ASSUME NEW unit \in ServerUnits, sin' = Append(sin, unit),
             made' = made + (IF unit \in Data THEN 1 ELSE 0)
      PROVE  ResponseInv'
  <2>1. Count(sin', Data) = Count(sin, Data) + (IF unit \in Data THEN 1 ELSE 0)
    BY <1>2, CountAppend DEF Typing
  <2>2. Count(resps', Data) = Count(resps, Data) /\ Passing' = Passing
    BY <1>0 DEF Passing
  <2>3. CASE unit \in Data
    <3>1. Whole' = Whole + 1 /\ made' = made + 1
      BY <1>0, <1>2, <2>1, <2>2, <2>3, WholeType DEF Whole
    <3> QED BY <1>0, <3>1, WholeType DEF ResponseInv, Whole, HeaderDue
  <2>4. CASE unit \notin Data
    <3>1. Whole' = Whole /\ made' = made
      BY <1>0, <1>2, <2>1, <2>2, <2>4, WholeType DEF Whole
    <3> QED BY <1>0, <3>1 DEF ResponseInv, Whole, HeaderDue
  <2> QED BY <2>3, <2>4
<1>3. made \in Nat
  BY WholeType
<1>4. CASE ServerInforms \/ ServerAnswers \/ ServerCompletesHeader
  <2>1. \E unit \in ServerUnits \ Data : sin' = Append(sin, unit) /\ made' = made
    BY <1>4 DEF ServerInforms, ServerAnswers, ServerCompletesHeader, Serves, ServerUnits, Data
  <2> QED BY <1>2, <1>3, <2>1
<1>5. CASE ServerSends
  <2>1. \E unit \in Data : sin' = Append(sin, unit) /\ made' = made + 1
    BY <1>5 DEF ServerSends, Serves, Data
  <2> QED BY <1>2, <1>3, <2>1 DEF Data, ServerUnits
<1> QED BY <1>1, <1>4, <1>5 DEF Server

LEMMA ResponseNext ==
  ASSUME Typing, Typing', Stream, ResponseInv, [Next]_vars
  PROVE  ResponseInv'
<1>1. CASE UNCHANGED vars \/ Client
  BY <1>1, ResponseFrame DEF vars, Client
<1>2. CASE DRead \/ DReadDone \/ DReadClosed \/ DReadFails \/ DSendFailed \/ DWriteFails
  <2>1. /\ UNCHANGED <<c_body, c_head, resps, pending, sin, made, header, lost>>
        /\ d_pc # "returned"
    BY <1>2 DEF DRead, DReadDone, DReadClosed, DReadFails, DSendFailed, DWriteFails,
                SendRequest, MayRead, MayWrite
  <2> QED BY <2>1, ResponseFrame
<1>3. CASE DWrite
  BY <1>3, ResponseWrite
<1> QED BY <1>1, <1>2, <1>3, ResponseUpstream, ResponseServer DEF Next, Downstream

-----------------------------------------------------------------------------
(* The 1xx that answers a HEAD. *)
LEMMA InformedInit == Init => InformedInv
<1> SUFFICES ASSUME Init PROVE InformedInv
  OBVIOUS
<1>1. \A i \in 1..Len(resps) : FALSE
  BY DEF Init
<1> QED BY <1>1 DEF Init, InformedInv, HeadInformed

LEMMA InformedFrame ==
  ASSUME InformedInv, UNCHANGED <<req, header, u_resp, c_end, c_head>>,
         u_pc' = "loop" => u_pc = "loop",
         pending' = "informed" => pending = "informed",
         \A i \in 1..Len(resps') : resps'[i] = "informed" => HeadInformed
  PROVE  InformedInv'
BY DEF InformedInv, HeadInformed

LEMMA InformedUpstream ==
  ASSUME Typing, LoopsInv, ResponseInv, InformedInv, Upstream
  PROVE  InformedInv'
<1>0. /\ MayReceive => ~u_resp /\ u_pc = "loop" /\ ~HeadInformed
      /\ UNCHANGED <<req, c_end, c_head>>
  <2>1. UNCHANGED <<req, c_end, c_head>>
    BY DEF Upstream, UReadInfo, UReadPart, UReadHeader, UReadBody, UReadClosed, UReadDone,
           UReadFails, UReadNothing, USend, UWrite, UWriteFails, UWritePanics, Received
  <2> QED BY <2>1 DEF MayReceive, InformedInv
<1>1. CASE UReadInfo
  <2>1. /\ MayReceive /\ HeaderDue /\ header' = "info"
        /\ Received(IF req.head THEN "informed" ELSE "info")
    BY <1>1 DEF UReadInfo
  <2>2. /\ u_pc' = "sending" /\ resps' = resps
        /\ pending' = (IF req.head THEN "informed" ELSE "info")
        /\ req.head => u_resp'
    BY <2>1 DEF Received, IsEnd
  <2>3. HeadInformed' <=> req.head
    BY <1>0, <2>1 DEF HeadInformed
  <2>4. c_end => c_head = "final"
    BY <1>0, <2>1 DEF InformedInv
  <2>5. \A i \in 1..Len(resps) : resps[i] # "informed"
    BY <1>0, <2>1 DEF InformedInv
  <2> QED BY <1>0, <2>2, <2>3, <2>4, <2>5 DEF InformedInv
<1>2. CASE UReadHeader \/ UReadBody \/ UReadClosed \/ UReadDone \/ UReadFails
  <2>1. PICK task \in ResponseTasks \ {"informed"} : MayReceive /\ Received(task)
    BY <1>2, HeaderTasks
    DEF UReadHeader, UReadBody, UReadClosed, UReadDone, UReadFails, Finals, ResponseTasks
  <2>2. header' \in {"final", "switch"} \/ header' = header
    BY <1>2 DEF UReadHeader, UReadBody, UReadClosed, UReadDone, UReadFails
  <2>3. ~HeadInformed'
    BY <1>0, <2>1, <2>2 DEF HeadInformed
  <2>4. pending' = task /\ resps' = resps
    BY <2>1 DEF Received
  <2> QED BY <1>0, <2>1, <2>3, <2>4 DEF InformedInv
<1>3. CASE UReadPart \/ UReadNothing \/ UWrite \/ UWriteFails \/ UWritePanics
  <2>1. UNCHANGED <<req, header, u_resp, c_end, c_head, u_pc, pending, resps>>
    BY <1>3 DEF UReadPart, UReadNothing, UWrite, UWriteFails, UWritePanics
  <2> QED BY <2>1, InformedFrame DEF InformedInv
<1>4. CASE USend
  <2>1. /\ UNCHANGED <<req, header, u_resp, c_end, c_head>> /\ u_pc = "sending"
        /\ pending' = pending \/ pending' = "none"
        /\ u_pc' = u_pc \/ u_pc' = "returned"
             \/ (u_pc' = "loop" /\ pending # "failed" /\ ~(u_req /\ u_resp))
    BY <1>4 DEF USend
  <2>2. HeadInformed => u_pc' # "loop"
    <3>1. u_resp /\ pending # "failed" => u_req /\ u_resp
      BY <2>1, EndType DEF LoopsInv, UpstreamInv, Typing
    <3> QED BY <2>1, <3>1 DEF InformedInv
  <2>3. \A i \in 1..Len(resps') :
          resps'[i] = pending \/ (i \in 1..Len(resps) /\ resps'[i] = resps[i])
    <3>1. CASE resps' = resps
      BY <3>1
    <3>2. CASE resps' = Append(resps, pending)
      BY <3>2 DEF Typing
    <3> QED BY <1>4, <3>1, <3>2 DEF USend
  <2>4. \A i \in 1..Len(resps') : resps'[i] = "informed" => HeadInformed
    BY <2>3 DEF InformedInv
  <2> QED BY <2>1, <2>2, <2>4 DEF InformedInv, HeadInformed
<1> QED BY <1>0, <1>1, <1>2, <1>3, <1>4 DEF Upstream

(* Where the end of a response is written, so is its header. *)
LEMMA InformedNext ==
  ASSUME Typing, LoopsInv, ResponseInv, ResponseInv', InformedInv, [Next]_vars
  PROVE  InformedInv'
<1>1. CASE UNCHANGED vars \/ Client \/ Server
  <2>1. UNCHANGED <<req, header, u_resp, c_end, c_head, u_pc, pending, resps>>
    BY <1>1 DEF vars, Client, Server
  <2> QED BY <2>1, InformedFrame DEF InformedInv
<1>2. CASE DRead \/ DReadDone \/ DReadClosed \/ DReadFails \/ DSendFailed \/ DWriteFails
  <2>1. UNCHANGED <<req, header, u_resp, c_end, c_head, u_pc, pending, resps>>
    BY <1>2 DEF DRead, DReadDone, DReadClosed, DReadFails, DSendFailed, DWriteFails,
                SendRequest
  <2> QED BY <2>1, InformedFrame DEF InformedInv
<1>3. CASE DWrite
  <2> DEFINE last == resps[Len(resps)]
  <2>1. /\ MayWrite /\ resps # <<>> /\ resps' = <<>> /\ \A i \in 1..Len(resps') : FALSE
        /\ UNCHANGED <<req, header, u_resp, u_pc, pending>>
        /\ last = "failed" => c_end' = c_end
        /\ last # "failed" => c_end' = IsEnd(last)
        /\ d_pc = "loop"
    BY <1>3 DEF DWrite, MayWrite
  <2>2. Len(resps) \in 1..Len(resps) /\ last \in ResponseTasks
    BY <2>1 DEF Typing
  <2>3. ~c_end
    BY <2>1 DEF MayWrite, LoopsInv, DownstreamInv
  <2>4. ASSUME c_end', ~HeadInformed
        PROVE  c_head' = "final"
    <3>1. last # "failed" /\ IsEnd(last)
      BY <2>1, <2>3, <2>4
    <3>2. last # "informed"
      BY <2>2, <2>4 DEF InformedInv
    <3>3. ~HeaderDue
      BY <2>2, <3>1, <3>2 DEF IsEnd, Ends, ResponseInv
    <3>4. u_pc = "returned"
      BY <2>1, <2>2, <3>1 DEF MayWrite, LoopsInv, UpstreamInv
    <3>5. pending \notin Finals
      BY <3>4 DEF Typing, Finals
    <3>6. c_head = "final" \/ \E i \in 1..Len(resps) : resps[i] \in Finals
      BY <2>1, <3>3, <3>5 DEF ResponseInv
    <3>7. c_head = "final" => \A i \in 1..Len(resps) : resps[i] \notin Infos
      BY DEF ResponseInv
    <3> QED BY <1>3, <3>6, <3>7 DEF DWrite, Taken, Infos
  <2> HIDE DEF last
  <2> QED BY <2>1, <2>4 DEF InformedInv, HeadInformed
<1> QED BY <1>1, <1>2, <1>3, InformedUpstream DEF Next, Downstream

-----------------------------------------------------------------------------
(* The end of the response. *)
LEMMA EndFrame ==
  ASSUME EndInv, UNCHANGED <<req, header, u_resp, c_end, sin, srv, framing, server_eof, resps,
                             c_body, made>>,
         u_pc' = "returned" \/ pending' = "failed" => u_pc = "returned" \/ pending = "failed",
         lost => lost'
  PROVE  EndInv'
BY DEF EndInv, ServerEnded, HeaderDue, HeadInformed

(* Where a header is due there was no end. *)
LEMMA NoEndYet ==
  ASSUME ResponseInv, EndInv, HeaderDue, ~HeadInformed
  PROVE  ~c_end /\ \A i \in 1..Len(resps) : resps[i] \notin Ends
BY DEF ResponseInv, EndInv, HeaderDue

LEMMA EndDownstream ==
  ASSUME Typing, LoopsInv, HeaderInv, ResponseInv, InformedInv, EndInv, Downstream
  PROVE  EndInv'
<1>1. CASE DRead \/ DReadDone \/ DReadClosed \/ DReadFails \/ DSendFailed \/ DWriteFails
  <2>1. UNCHANGED <<req, header, u_resp, c_end, sin, srv, framing, server_eof, resps, c_body,
                    made, u_pc, pending, lost>>
    BY <1>1 DEF DRead, DReadDone, DReadClosed, DReadFails, DSendFailed, DWriteFails,
                SendRequest
  <2> QED BY <2>1, EndFrame
<1>2. CASE DWrite
  <2> DEFINE last == resps[Len(resps)]
  <2>1. /\ MayWrite /\ resps # <<>> /\ resps' = <<>> /\ \A i \in 1..Len(resps') : FALSE
        /\ UNCHANGED <<req, header, u_resp, sin, srv, framing, server_eof, made, u_pc, pending,
                       lost>>
        /\ last = "failed" => c_end' = c_end
        /\ last # "failed" => c_end' = IsEnd(last)
    BY <1>2 DEF DWrite
  <2>2. c_body' = c_body + Count(resps, Data)
    BY <1>2 DEF DWrite, Count, Taken, Data
  <2>3. Len(resps) \in 1..Len(resps) /\ last \in ResponseTasks
    BY <2>1 DEF Typing
  <2>4. ~c_end
    BY <2>1 DEF MayWrite, LoopsInv, DownstreamInv
  <2>5. ASSUME c_end', header # "switch", ~HeadInformed
        PROVE  sin = <<>> /\ ServerEnded /\ c_body' = made /\ ~HeaderDue
    <3>1. last # "failed" /\ IsEnd(last)
      BY <2>1, <2>4, <2>5
    <3>2. last \in Ends
      BY <2>3, <2>5, <3>1 DEF IsEnd, Ends, InformedInv
    <3>3. sin = <<>> /\ ServerEnded /\ ~HeaderDue
      BY <2>3, <2>5, <3>2 DEF EndInv, ResponseInv
    <3>4. ~lost
      BY <3>3 DEF HeaderInv
    <3>5. u_pc = "returned"
      BY <2>1, <2>3, <3>1 DEF MayWrite, LoopsInv, UpstreamInv
    <3>6. Passing = 0
      BY <3>5 DEF Typing, Passing, Data
    <3>7. Count(sin, Data) = 0
      BY <3>3, CountNone DEF Typing
    <3>8. c_body + Count(resps, Data) + Passing + Count(sin, Data) = made
      BY <2>1, <3>4 DEF MayWrite, ResponseInv
    <3> QED BY <2>2, <3>3, <3>6, <3>7, <3>8, WholeType
  <2> HIDE DEF last
  <2> QED BY <2>1, <2>5 DEF EndInv, ServerEnded, HeaderDue, HeadInformed
<1> QED BY <1>1, <1>2 DEF Downstream

LEMMA EndUpstream ==
  ASSUME Typing, LoopsInv, Stream, OrderInv, ResponseInv, InformedInv, EndInv, Upstream
  PROVE  EndInv'
<1>0. /\ MayReceive => ~u_resp /\ u_pc = "loop" /\ pending = "none" /\ ~HeadInformed
      /\ req' = req
  <2>1. req' = req
    BY DEF Upstream, UReadInfo, UReadPart, UReadHeader, UReadBody, UReadClosed, UReadDone,
           UReadFails, UReadNothing, USend, UWrite, UWriteFails, UWritePanics, Received
  <2> QED BY <2>1 DEF MayReceive, Typing, InformedInv
<1>1. CASE UReadInfo
  <2>1. /\ HeaderDue /\ MayReceive /\ header' = "info"
        /\ Received(IF req.head THEN "informed" ELSE "info")
        /\ UNCHANGED <<srv, framing, server_eof, resps, c_end, c_body, made>>
    BY <1>1 DEF UReadInfo, Received
  <2>2. CASE req.head
    <3>1. HeadInformed'
      BY <1>0, <2>1, <2>2 DEF HeadInformed
    <3> QED BY <3>1 DEF EndInv
  <2>3. CASE ~req.head
    <3>1. ~u_resp' /\ u_pc' = "sending" /\ pending' = "info"
      BY <2>1, <2>3 DEF Received, IsEnd
    <3> QED BY <1>0, <2>1, <3>1, NoEndYet DEF EndInv
  <2> QED BY <2>2, <2>3
<1>2. CASE UReadPart
  <2>1. /\ HeaderDue /\ ~u_resp /\ u_pc = "loop" /\ pending = "none" /\ ~HeadInformed
        /\ UNCHANGED <<resps, c_end, u_resp, u_pc, pending>>
    BY <1>0, <1>2 DEF UReadPart
  <2> QED BY <2>1, NoEndYet DEF EndInv
<1>3. CASE UReadHeader
  <2> DEFINE task == HeaderTask(Head(sin))
  <2>1. /\ HeaderDue /\ Received(task) /\ sin # <<>> /\ sin' = Tail(sin) /\ MayReceive
        /\ Head(sin) \in Heads \cup {"rest"}
        /\ header' = IF Head(sin) = "switch" THEN "switch" ELSE "final"
        /\ UNCHANGED <<srv, framing, server_eof, resps, c_end, c_body, made>>
    BY <1>3 DEF UReadHeader, Received, Heads
  <2>2. /\ task \in Finals /\ task # "failed"
        /\ u_pc' = "sending" /\ pending' = task /\ (u_resp' <=> IsEnd(task))
    BY <2>1, EndType, HeaderTasks DEF Received, Finals
  <2>3. ASSUME u_resp', header' # "switch"
        PROVE  sin' = <<>> /\ ServerEnded'
    <3>1. Head(sin) \in {"bare", "head", "rest"} /\ (req.head \/ Head(sin) = "bare")
      BY <2>1, <2>2, <2>3, HeaderTasks DEF Heads
    <3>2. Head(sin) = sin[1] /\ 1 \in 1..Len(sin)
      BY <2>1 DEF Typing
    <3>3. sin[1] \in EndUnits
      BY <3>1, <3>2, StreamFits DEF Stream, Fits, EndUnits
    <3>4. Len(sin) = 1 /\ srv = "over"
      BY <3>2, <3>3, StreamFits DEF Stream, Fits
    <3>5. sin' \in Seq(ServerUnits) /\ Len(sin') = 0
      BY <2>1, <3>4, CountTail DEF Typing
    <3> QED BY <2>1, <3>4, <3>5, EmptyStream DEF ServerEnded
  <2> HIDE DEF task
  <2> QED BY <1>0, <2>1, <2>2, <2>3, NoEndYet DEF EndInv
<1>4. CASE UReadBody
  <2>1. /\ MayReceive /\ Received(Head(sin)) /\ sin # <<>> /\ sin' = Tail(sin)
        /\ Head(sin) \in Data /\ header' = header
        /\ UNCHANGED <<srv, framing, server_eof, resps, c_end, c_body, made>>
    BY <1>4 DEF UReadBody, Received, Data
  <2>2. /\ Head(sin) # "failed"
        /\ u_pc' = "sending" /\ pending' = Head(sin) /\ (u_resp' <=> IsEnd(Head(sin)))
    BY <2>1, EndType DEF Received, Data
  <2>3. ASSUME u_resp'
        PROVE  sin' = <<>> /\ ServerEnded'
    <3>1. Head(sin) = "data_end"
      BY <2>1, <2>2, <2>3 DEF IsEnd, Data
    <3>2. Head(sin) = sin[1] /\ 1 \in 1..Len(sin)
      BY <2>1 DEF Typing
    <3>3. Len(sin) = 1 /\ srv = "over"
      BY <3>1, <3>2, StreamFits DEF Stream, Fits, EndUnits
    <3>4. sin' \in Seq(ServerUnits) /\ Len(sin') = 0
      BY <2>1, <3>3, CountTail DEF Typing
    <3> QED BY <2>1, <3>3, <3>4, EmptyStream DEF ServerEnded
  <2>4. header # "switch" => ~c_end /\ \A i \in 1..Len(resps) : resps[i] \notin Ends
    BY <1>0, <2>1 DEF EndInv
  <2> QED BY <1>0, <2>1, <2>2, <2>3, <2>4 DEF EndInv, HeadInformed
<1>5. CASE UReadClosed
  <2>1. /\ sin = <<>> /\ ServerEnded /\ Received("end")
        /\ UNCHANGED <<srv, framing, server_eof, resps, c_end, c_body, made, sin, header>>
    BY <1>5 DEF UReadClosed, Received, ServerEnded
  <2>2. u_pc' = "sending" /\ pending' = "end"
    BY <2>1 DEF Received
  <2> QED BY <1>0, <2>1, <2>2 DEF EndInv, ServerEnded, HeaderDue, HeadInformed
<1>6. CASE UReadDone
  <2>1. header' = header /\ ~HeaderDue /\ ~u_reading /\ ~u_resp
    BY <1>0, <1>6 DEF UReadDone
  <2>2. header = "switch"
    BY <2>1 DEF Stream, HeaderInv, HeaderDue, Typing
  <2> QED BY <2>1, <2>2 DEF EndInv
<1>7. CASE UReadFails
  <2>1. /\ MayReceive /\ Received("failed")
        /\ UNCHANGED <<srv, framing, server_eof, resps, c_end, c_body, made, sin, header, lost>>
    BY <1>7 DEF UReadFails, Received
  <2>2. u_resp' = u_resp
    BY <2>1 DEF Received
  <2>3. lost \/ (sin = <<>> /\ server_eof)
    <3>1. CASE sin = <<>>
      BY <1>7, <3>1 DEF UReadFails
    <3>2. CASE sin # <<>> /\ ~lost
      <4>1. HeaderDue /\ (Head(sin) \in Data \/ (Head(sin) = "rest" /\ ~partial))
        BY <1>7, <3>2 DEF UReadFails, Data
      <4>2. sin[1] \in (IF partial THEN {"rest"} ELSE Heads \cup {"info", "part"})
        BY <1>0, <2>1, <3>2, <4>1 DEF OrderInv
      <4>3. Head(sin) = sin[1]
        BY <3>2 DEF Typing
      <4> QED BY <4>1, <4>2, <4>3 DEF Data, Heads
    <3> QED BY <3>1, <3>2
  <2> QED BY <1>0, <2>1, <2>2, <2>3 DEF EndInv, ServerEnded, HeaderDue, HeadInformed
<1>8. CASE UReadNothing \/ UWriteFails \/ UWritePanics
  BY <1>8, EndFrame DEF UReadNothing, UWriteFails, UWritePanics
<1>9. CASE UWrite
  <2>1. /\ UNCHANGED <<req, header, u_resp, c_end, sin, srv, framing, server_eof, resps,
                       c_body, made, u_pc, pending>>
        /\ lost => lost'
    BY <1>9 DEF UWrite
  <2> QED BY <2>1, EndFrame
<1>10. CASE USend
  <2>0. /\ UNCHANGED <<req, header, u_resp, c_end, sin, srv, framing, server_eof, c_body, made,
                       lost>>
        /\ pending # "none" /\ u_pc = "sending"
    BY <1>10 DEF USend, Typing
  <2>1. u_pc' = "returned" \/ pending' = "failed" => pending = "failed" \/ u_resp
    BY <1>10, <2>0 DEF USend
  <2>2. pending \in Ends => u_resp
    BY <2>0 DEF LoopsInv, UpstreamInv, Ends, IsEnd
  <2>3. \A i \in 1..Len(resps') :
          resps'[i] = pending \/ (i \in 1..Len(resps) /\ resps'[i] = resps[i])
    <3>1. CASE resps' = resps
      BY <3>1
    <3>2. CASE resps' = Append(resps, pending)
      BY <3>2 DEF Typing
    <3> QED BY <1>10, <3>1, <3>2 DEF USend
  <2>4. ASSUME header # "switch", ~HeadInformed, NEW i \in 1..Len(resps'), resps'[i] \in Ends
        PROVE  sin = <<>> /\ ServerEnded
    BY <2>2, <2>3, <2>4 DEF EndInv
  <2>5. ASSUME header # "switch", ~HeadInformed, u_pc' = "returned" \/ pending' = "failed"
        PROVE  lost \/ (sin = <<>> /\ (ServerEnded \/ server_eof))
    BY <2>1, <2>5 DEF EndInv
  <2> QED BY <2>0, <2>4, <2>5 DEF EndInv, ServerEnded, HeaderDue, HeadInformed
<1> QED BY <1>1, <1>2, <1>3, <1>4, <1>5, <1>6, <1>7, <1>8, <1>9, <1>10 DEF Upstream

LEMMA EndNext ==
  ASSUME Typing, LoopsInv, Stream, OrderInv, ResponseInv, InformedInv, EndInv, [Next]_vars
  PROVE  EndInv'
<1>1. CASE UNCHANGED vars \/ Client
  BY <1>1, EndFrame DEF vars, Client
<1>2. CASE Server
  <2>0. UNCHANGED <<req, header, u_resp, c_end, resps, c_body, u_pc, pending, lost>>
    BY <1>2 DEF Server
  <2>1. CASE ServerCloses
    <3>1. UNCHANGED <<srv, made, framing, sin>> /\ server_eof'
      BY <2>1 DEF ServerCloses
    <3> QED BY <2>0, <3>1 DEF EndInv, ServerEnded, HeaderDue, HeadInformed
  <2>2. CASE ~ServerCloses
    <3>1. srv # "over" /\ ~server_eof
      BY <1>2, <2>2 DEF Server, ServerInforms, ServerAnswers, ServerCompletesHeader,
                        ServerSends, MayAnswer, Serves
    <3>2. ~ServerEnded
      BY <3>1 DEF ServerEnded
    <3> QED BY <2>0, <3>1, <3>2 DEF EndInv, HeadInformed
  <2> QED BY <2>1, <2>2
<1> QED BY <1>1, <1>2, EndDownstream, EndUpstream DEF Next, Stream

-----------------------------------------------------------------------------
(* Between polite parties. *)
LEMMA PoliteRequest ==
  ASSUME req \in Requests, req.polite
  PROVE  ~req.upgrade /\ req.framing # "closed"
BY DEF Requests

LEMMA PoliteInit == Init => PoliteInv
<1> SUFFICES ASSUME Init, req.polite PROVE PoliteInv
  BY DEF PoliteInv
<1>1. req \in Requests
  BY DEF Init
<1>2. req.framing # "closed" /\ Units \in Nat
  BY <1>1, PoliteRequest, RequestType
<1>3. Units > 0 => reading
  BY DEF Init
<1>4. ~reading => Units = 0
  BY <1>2, <1>3
<1> QED BY <1>4 DEF Init, PoliteInv

(* A server that has the whole request leaves none of it unread. *)
LEMMA CompleteIsRead ==
  ASSUME Typing, RequestInv, req.polite, RequestComplete
  PROVE  got = Units
<1>1. /\ req \in Requests /\ req.pieces \in Nat /\ Units \in Nat
      /\ req.framing \in {"length", "chunked"} /\ got \in Nat /\ got <= Units
      /\ req.framing = "length" => Units = req.pieces
  BY RequestType, PoliteRequest DEF Typing
<1>2. CASE req.framing = "chunked"
  BY <1>2 DEF RequestComplete, RequestInv, EndRead
<1>3. CASE req.framing = "length"
  <2>1. Count(reqs, Data) \in Nat /\ s_body \in Nat
    BY Positions DEF Typing
  <2>2. s_body <= DataGot /\ s_body = req.pieces
    BY <1>1, <2>1 DEF RequestInv, RequestComplete, DataGot
  <2> QED BY <1>1, <1>3, <2>2 DEF DataGot
<1> QED BY <1>1, <1>2, <1>3

(* And gets no more of it. *)
LEMMA CompleteStays ==
  ASSUME Typing, RequestInv, RequestComplete, [Next]_vars
  PROVE  RequestComplete'
<1>1. CASE UWrite
  <2>1. /\ reqs # <<>> /\ req' = req
        /\ s_body' = s_body + (IF Head(reqs) \in Data THEN 1 ELSE 0)
        /\ s_end' = (s_end \/ IsEnd(Head(reqs)))
    BY <1>1 DEF UWrite, Data
  <2>2. /\ Count(reqs, Data) = Count(Tail(reqs), Data) + (IF Head(reqs) \in Data THEN 1 ELSE 0)
        /\ Tail(reqs) \in Seq(RequestTasks)
    BY <2>1, CountTail DEF Typing
  <2>3. Count(reqs, Data) \in Nat /\ Count(Tail(reqs), Data) \in Nat /\ s_body \in Nat
    BY <2>2, Positions DEF Typing
  <2>4. DataGot <= req.pieces /\ req.pieces \in Nat /\ DataGot \in Nat
    BY RequestType DEF DataGot, Typing
  <2>5. Head(reqs) \notin Data
    BY <2>2, <2>3, <2>4 DEF RequestInv, RequestComplete
  <2>6. s_body' = s_body
    BY <2>1, <2>3, <2>5
  <2>7. s_end => s_end'
    BY <2>1, EndType DEF Typing
  <2> QED BY <2>1, <2>6, <2>7 DEF RequestComplete
<1>2. CASE ~UWrite
  <2>1. UNCHANGED <<req, s_body, s_end>>
    BY <1>2 DEF Next, vars, Upstream, UReadInfo, UReadPart, UReadHeader, UReadBody, UReadClosed,
                UReadDone, UReadFails, UReadNothing, USend, UWriteFails, UWritePanics,
                Received, Downstream, DRead, DReadDone, DReadClosed, DReadFails, DSendFailed,
                DWrite, DWriteFails, SendRequest, Client, Server
  <2> QED BY <2>1 DEF RequestComplete
<1> QED BY <1>1, <1>2

LEMMA PoliteFrame ==
  ASSUME Typing, RequestInv, PoliteInv, [Next]_vars,
         UNCHANGED <<req, client_eof, extra, server_eof, framing, srv, reading, got, d_pc, c_end>>
  PROVE  PoliteInv'
<1>1. Units' = Units
  BY DEF Units
<1> QED BY <1>1, CompleteStays DEF PoliteInv

LEMMA PoliteDownstream ==
  ASSUME Typing, LoopsInv, RequestInv, Stream, ResponseInv, PoliteInv, Downstream
  PROVE  PoliteInv'
<1>0. /\ UNCHANGED <<req, client_eof, extra, server_eof, framing, srv, s_body, s_end>>
      /\ Units' = Units
  BY DEF Downstream, DRead, DReadDone, DReadClosed, DReadFails, DSendFailed, DWrite,
         DWriteFails, SendRequest, Units
<1> SUFFICES ASSUME req.polite PROVE PoliteInv'
  BY <1>0 DEF PoliteInv
<1>1. /\ ~client_eof /\ ~extra /\ d_pc # "failing" /\ ~req.upgrade /\ req.framing # "closed"
      /\ Units \in Nat /\ sent \in 0..Units /\ got \in 0..sent
  BY PoliteRequest, RequestType DEF PoliteInv, Typing
<1>2. SUFFICES (~reading' => got' = Units) /\ d_pc' # "failing" /\ (d_pc' = "returned" => c_end')
  BY <1>0, <1>2 DEF PoliteInv, RequestComplete
<1>3. CASE DRead
  <2> DEFINE end == got + 1 = Units /\ req.framing # "closed"
             none == got + 1 > req.pieces
             task == IF none THEN "end" ELSE IF end THEN "data_end" ELSE "data"
  <2>1. MayRead /\ reading /\ got < sent /\ got' = got + 1 /\ SendRequest(task, end)
    BY <1>3 DEF DRead
  <2>2. end \in BOOLEAN /\ got' \in Nat
    BY <1>1, <2>1
  <2>3. reading' = ~end
    <3> HIDE DEF end, task
    <3> QED BY <2>1 DEF SendRequest
  <2>4. d_pc' = "loop"
    <3> HIDE DEF end, task
    <3> QED BY <2>1, <2>2, LoopsRead
  <2> QED BY <1>1, <2>1, <2>3, <2>4
<1>4. CASE DWrite
  <2> DEFINE last == resps[Len(resps)]
  <2>1. /\ MayWrite /\ got' = got /\ resps # <<>>
        /\ reading' = (reading /\ Taken({"head", "bare", "switched"}) = {})
    BY <1>4 DEF DWrite
  <2>2. ASSUME ~reading'
        PROVE  got = Units
    <3>1. CASE ~reading
      BY <3>1 DEF PoliteInv
    <3>2. CASE Taken({"head", "bare", "switched"}) # {}
      <4>1. PICK i \in 1..Len(resps) : resps[i] \in {"head", "bare", "switched"}
        BY <3>2 DEF Taken
      <4>2. ~HeaderDue
        BY <4>1 DEF ResponseInv, Finals
      <4>3. RequestComplete
        BY <4>2 DEF Stream, HeaderInv, PoliteInv
      <4> QED BY <4>3, CompleteIsRead
    <3> QED BY <2>1, <2>2, <3>1, <3>2
  <2>3. d_pc' # "failing" /\ (d_pc' = "returned" => c_end')
    <3>1. CASE last = "failed"
      BY <1>4, <2>1, <3>1 DEF DWrite, MayWrite
    <3>2. CASE last # "failed"
      <4>1. c_end' = IsEnd(last) /\ Iterate(reqs, IsEnd(last), IsEnd(last))
        BY <1>4, <3>2 DEF DWrite
      <4> QED BY <4>1 DEF Iterate
    <3> QED BY <3>1, <3>2
  <2> QED BY <2>1, <2>2, <2>3
<1>5. CASE DWriteFails
  BY <1>1, <1>5 DEF DWriteFails
<1>6. ~DReadDone /\ ~DReadClosed /\ ~DSendFailed
  BY <1>1 DEF DReadDone, DReadClosed, DSendFailed
<1>7. ~reading => ~(got < sent)
  BY <1>1 DEF PoliteInv
<1>8. ~DReadFails
  BY <1>1, <1>7 DEF DReadFails
<1> QED BY <1>3, <1>4, <1>5, <1>6, <1>8 DEF Downstream

LEMMA PoliteServer ==
  ASSUME Typing, PoliteInv, Server
  PROVE  PoliteInv'
<1>1. /\ UNCHANGED <<req, client_eof, extra, reading, got, d_pc, c_end, s_body, s_end>>
      /\ Units' = Units
  BY DEF Server, Units
<1> SUFFICES ASSUME req.polite PROVE PoliteInv'
  BY <1>1 DEF PoliteInv
<1>2. ~req.upgrade
  BY PoliteRequest DEF Typing
<1>3. ~server_eof' /\ framing' = "framed"
  BY <1>2 DEF Server, ServerInforms, ServerAnswers, ServerCompletesHeader, ServerSends,
              ServerCloses, PoliteInv
<1>4. srv' \in {"wait", "informed"} \/ RequestComplete
  BY DEF Server, ServerInforms, ServerAnswers, ServerCompletesHeader, ServerSends,
         ServerCloses, PoliteInv, MayAnswer
<1> QED BY <1>1, <1>3, <1>4 DEF PoliteInv, RequestComplete

LEMMA PoliteNext ==
  ASSUME Typing, LoopsInv, RequestInv, Stream, ResponseInv, PoliteInv, [Next]_vars
  PROVE  PoliteInv'
<1>1. CASE UNCHANGED vars
  BY <1>1, PoliteFrame DEF vars
<1>2. CASE Client
  <2>1. /\ UNCHANGED <<req, server_eof, framing, srv, reading, got, d_pc, c_end>>
        /\ req.polite => UNCHANGED <<client_eof, extra>>
    BY <1>2 DEF Client, ClientSends, ClientCloses, ClientSendsMore
  <2>2. CASE req.polite
    BY <2>1, <2>2, PoliteFrame
  <2>3. CASE ~req.polite
    BY <2>1, <2>3 DEF PoliteInv
  <2> QED BY <2>2, <2>3
<1>3. CASE Upstream
  <2>1. UNCHANGED <<req, client_eof, extra, server_eof, framing, srv, reading, got, d_pc, c_end>>
    BY <1>3 DEF Upstream, UReadInfo, UReadPart, UReadHeader, UReadBody, UReadClosed, UReadDone,
                UReadFails, UReadNothing, USend, UWrite, UWriteFails, UWritePanics, Received
  <2> QED BY <2>1, PoliteFrame
<1> QED BY <1>1, <1>2, <1>3, PoliteDownstream, PoliteServer DEF Next

-----------------------------------------------------------------------------
(* The invariant holds in every state the exchange can reach. *)
LEMMA InitHolds == Init => IInv
BY TypingInit, LoopsInit, RequestInit, StreamInit, ResponseInit, InformedInit, PoliteInit
   DEF IInv, LoopsInv, Stream

LEMMA NextKeeps ==
  ASSUME IInv, [Next]_vars
  PROVE  IInv'
<1>1. /\ Typing /\ LoopsInv /\ RequestInv /\ Stream /\ OrderInv /\ ResponseInv
      /\ InformedInv /\ EndInv /\ PoliteInv
  BY DEF IInv, LoopsInv, Stream
<1>2. Typing' /\ LoopsInv' /\ RequestInv' /\ Stream' /\ OrderInv'
  BY <1>1, TypingNext, LoopsNext, RequestNext, StreamNext, OrderNext
<1>3. ResponseInv' /\ InformedInv' /\ EndInv' /\ PoliteInv'
  BY <1>1, <1>2, ResponseNext, InformedNext, EndNext, PoliteNext
<1> QED BY <1>2, <1>3 DEF IInv, LoopsInv, Stream

(* The inductive invariant: where every task and every piece of an exchange is. *)
THEOREM Invariance == Spec => []IInv
<1>1. IInv /\ [Next]_vars => IInv'
  BY NextKeeps
<1> QED BY <1>1, InitHolds, PTL DEF Spec

(* TypeOK, for all bodies and channels: neither party is ever given more pieces
   than fit the message, and no channel more tasks than its bound. *)
THEOREM TypesHold == Spec => []TypeOK
<1>1. ASSUME IInv
      PROVE  TypeOK
  <2>1. Typing /\ RequestInv /\ ResponseInv
    BY <1>1 DEF IInv
  <2>2. c_body \in 0..RespPieces
    <3>1. c_body <= made /\ c_body \in Nat /\ made \in 0..RespPieces /\ RespPieces \in Nat
      BY <2>1, WholeType, DuplexAssumption DEF ResponseInv, Typing
    <3> QED BY <3>1
  <2>3. s_body \in 0..ReqPieces
    <3>1. req.pieces \in 0..ReqPieces /\ ReqPieces \in Nat /\ got \in Nat
      BY <2>1, RequestType, DuplexAssumption DEF Typing
    <3>2. Count(reqs, Data) \in Nat /\ s_body \in Nat
      BY <2>1, Positions DEF Typing
    <3>3. s_body + Count(reqs, Data) <= req.pieces
      BY <2>1, <3>1 DEF RequestInv, DataGot
    <3> QED BY <3>1, <3>2, <3>3
  <2>4. {client_eof, extra, c_end, server_eof, s_end, d_req, d_resp, permit, reading, u_req,
         u_resp, partial, u_reading, lost} \subseteq BOOLEAN
    BY <2>1 DEF Typing
  <2> QED BY <2>1, <2>2, <2>3, <2>4 DEF Typing, TypeOK, ServerUnits
<1> QED BY <1>1, Invariance, PTL

(* ResponseFaithful: the client gets no more than the server made, a body after
   its header, and an end only with the header and when the server ended the
   response; the one end that comes early is that of a 1xx that answers a HEAD. *)
THEOREM ResponsesAreFaithful == Spec => []ResponseFaithful
<1>1. IInv => ResponseFaithful
  BY WholeType, Positions
     DEF IInv, ResponseFaithful, ResponseInv, InformedInv, EndInv, Typing, Passing, ServerEnded
<1> QED BY <1>1, Invariance, PTL

(* RequestFaithful: the server gets no more than the client sent, and the end
   of a request only with all of it. *)
THEOREM RequestsAreFaithful == Spec => []RequestFaithful
<1>1. ASSUME IInv
      PROVE  RequestFaithful
  <2>1. Typing /\ RequestInv
    BY <1>1 DEF IInv
  <2>2. /\ req.pieces \in Nat /\ Units \in Nat /\ got \in Nat /\ got <= sent /\ sent <= Units
        /\ Units >= req.pieces /\ sent \in Nat
        /\ req.framing = "closed" => Units = req.pieces
    BY <2>1, RequestType DEF Typing
  <2>3. Count(reqs, Data) \in Nat /\ s_body \in Nat
    BY <2>1, Positions DEF Typing
  <2>4. s_body <= sent
    BY <2>1, <2>2, <2>3 DEF RequestInv, DataGot
  <2>5. ASSUME s_end
        PROVE  s_body = DataGot /\ EndRead
    <3>1. EndRead /\ \A i \in 1..Len(reqs) : reqs[i] \notin Data
      BY <2>1, <2>5 DEF RequestInv, Data
    <3>2. Count(reqs, Data) = 0
      BY <2>1, <3>1, CountNone DEF Typing
    <3> QED BY <2>1, <2>3, <3>1, <3>2 DEF RequestInv
  <2>6. ASSUME s_end
        PROVE  s_body = (IF req.framing = "closed" THEN sent ELSE req.pieces)
    BY <2>2, <2>5, <2>6 DEF DataGot, EndRead
  <2>7. s_end /\ req.framing = "closed" => client_eof
    BY <2>5 DEF EndRead
  <2> QED BY <2>4, <2>6, <2>7 DEF RequestFaithful
<1> QED BY <1>1, Invariance, PTL

(* NoneNeverReceived: neither loop finds its channel closed and empty. *)
THEOREM NoneIsNeverReceived == Spec => []NoneNeverReceived
<1>1. IInv => NoneNeverReceived
  BY DEF IInv, UpstreamInv, DownstreamInv, NoneNeverReceived, MayWrite, MaySend
<1> QED BY <1>1, Invariance, PTL

(* PooledIsOver: a stream is pooled with its exchange over, but for one whose
   HEAD was answered with a 1xx; bytes that were thrown away leave a rest only
   behind a response its client did not take for complete. *)
THEOREM PooledIsAlwaysOver == Spec => []PooledIsOver
<1>1. IInv => NoResponseLeft
  BY DEF IInv, EndInv, NoResponseLeft, Pooled
<1>2. IInv => PooledIsServed
  BY DEF IInv, DownstreamInv, EndedEarly, PooledIsServed, Pooled
<1> QED BY <1>1, <1>2, Invariance, PTL DEF PooledIsOver

(* PooledIsReusable: the stream of a polite exchange can carry the next one,
   unless a HEAD was answered with a 1xx. *)
THEOREM PooledStaysReusable == Spec => []PooledIsReusable
<1>1. ASSUME IInv, Pooled, req.polite, ~HeadInformed
      PROVE  RequestComplete /\ srv = "over" /\ sin = <<>> /\ ~server_eof
  <2>1. c_end /\ framing = "framed" /\ ~server_eof
    BY <1>1 DEF IInv, PoliteInv, Pooled
  <2>2. header # "switch"
    BY <1>1, PoliteRequest DEF IInv, StreamInv, Typing
  <2>3. sin = <<>> /\ srv = "over"
    BY <1>1, <2>1, <2>2 DEF IInv, EndInv, ServerEnded
  <2>4. RequestComplete
    BY <1>1, <2>3 DEF IInv, PoliteInv
  <2> QED BY <2>1, <2>3, <2>4
<1>2. IInv => PooledIsReusable
  BY <1>1 DEF PooledIsReusable
<1> QED BY <1>2, Invariance, PTL
=============================================================================
