--------------------------- MODULE BodyRelayProofs ---------------------------
(***************************************************************************)
(* For every head, message, buffer, limit and channel: the sessions choose *)
(* the framings that are meant, the reader cuts out the body, and the      *)
(* relay brings it to the other side as it is.                             *)
(***************************************************************************)
EXTENDS BodyRelayProperties, TLAPS, WellFoundedInduction

-----------------------------------------------------------------------------
(* The framings. *)

(* What each choice may be, so that the modes can be told apart. *)
LEMMA ModesDiffer ==
  /\ ChunkedEncoding # UntilClosed
  /\ \A n : ContentLength(n) # ChunkedEncoding /\ ContentLength(n) # UntilClosed
BY DEF ChunkedEncoding, UntilClosed, ContentLength

(* set_request_body_reader (downstream.rs) reads a request in the framing its
   head means exactly if the request is none that is read on, and has no list of
   codings. *)
THEOREM RequestsAreReadAsMeant ==
  ASSUME NEW q \in RequestHeads
  PROVE  RequestReader(q) = RequestMeant(q) <=> ~(ReadOn(q) \/ Listed(q))
<1>1. q.version \in {"1.0", "1.1"} /\ q.coding \in {"none", "chunked", "list"}
  BY DEF RequestHeads
<1>2. CASE q.coding = "chunked"
  BY <1>2 DEF RequestReader, RequestMeant, Framed, Declared, ReadOn, Listed
<1>3. CASE q.coding = "none" /\ q.length # None
  BY <1>3 DEF RequestReader, RequestMeant, Framed, Declared, ReadOn, Listed
<1>4. CASE q.coding = "none" /\ q.length = None
  BY <1>1, <1>4, ModesDiffer
  DEF RequestReader, RequestMeant, Framed, Declared, ReadOn, Listed
<1>5. CASE q.coding = "list"
  BY <1>5, ModesDiffer DEF RequestReader, RequestMeant, Framed, Declared, Listed
<1> QED
  BY <1>1, <1>2, <1>3, <1>4, <1>5

(* set_request_body_writer (upstream.rs) writes it so that the server takes it
   for what it is exactly if it is none that is written raw, and has no list of
   codings. *)
THEOREM RequestsAreUnderstood ==
  ASSUME NEW q \in RequestHeads
  PROVE  Understood(RequestWriter(q), RequestMeant(q)) <=> ~(WrittenRaw(q) \/ Listed(q))
<1>1. q.coding \in {"none", "chunked", "list"}
  BY DEF RequestHeads
<1>2. CASE q.coding = "chunked"
  BY <1>2, ModesDiffer
  DEF RequestWriter, RequestMeant, Framed, Declared, WrittenRaw, Understood, Listed
<1>3. CASE q.coding = "none"
  BY <1>3, ModesDiffer
  DEF RequestWriter, RequestMeant, Framed, Declared, WrittenRaw, Understood, Listed
<1>4. CASE q.coding = "list"
  BY <1>4, ModesDiffer DEF RequestWriter, RequestMeant, Framed, Declared, Understood, Listed
<1> QED
  BY <1>1, <1>2, <1>3, <1>4

(* set_response_body_reader (upstream.rs) reads a response as it is meant exactly
   if it has no list of codings that frames a body, and set_response_body_writer
   (downstream.rs) writes it so exactly if, besides, it is not half switched. *)
THEOREM ResponsesAgree ==
  ASSUME NEW q \in RequestHeads, NEW r \in ResponseHeads
  PROVE  /\ ResponseReader(q, r) = ResponseMeant(q, r) <=> ~ListedResponse(q, r)
         /\ ResponseWriter(q, r) = ResponseMeant(q, r) <=>
              ~(HalfSwitched(q, r) \/ ListedResponse(q, r))
<1>1. /\ r.version \in {"1.0", "1.1"} /\ r.coding \in {"none", "chunked", "list"}
      /\ r.status \in {"switch", "empty", "final"} /\ q.head \in BOOLEAN
  BY DEF RequestHeads, ResponseHeads
<1>2. Framed(r, UntilClosed) = Declared(r, UntilClosed) <=> ~Listed(r)
  BY <1>1, ModesDiffer DEF Framed, Declared, Listed
<1>3. CASE Bodiless(q, r)
  <2>1. ~HalfSwitched(q, r) /\ ~ListedResponse(q, r)
    BY <1>3 DEF Bodiless, HalfSwitched, ListedResponse
  <2>2. ResponseReader(q, r) = ResponseMeant(q, r) /\ ResponseWriter(q, r) = ResponseMeant(q, r)
    BY <1>3 DEF ResponseReader, ResponseWriter, ResponseMeant
  <2> QED
    BY <2>1, <2>2
<1>4. CASE ~Bodiless(q, r) /\ IsRequestUpgrade(q) /\ r.status = "switch"
  <2>1. ~q.head /\ ~ListedResponse(q, r)
    BY <1>4 DEF Bodiless, ListedResponse
  <2>2. ResponseMeant(q, r) = UntilClosed /\ ResponseReader(q, r) = UntilClosed
    BY <1>4 DEF ResponseMeant, ResponseReader
  <2>3. ResponseWriter(q, r) = IF r.version = "1.1" THEN UntilClosed ELSE Declared(r, UntilClosed)
    BY <1>4 DEF ResponseWriter, IsResponseUpgrade
  <2>4. HalfSwitched(q, r) <=> r.version = "1.0" /\ Declared(r, UntilClosed) # UntilClosed
    BY <1>4, <2>1 DEF HalfSwitched
  <2> QED
    BY <1>1, <2>1, <2>2, <2>3, <2>4
<1>5. CASE ~Bodiless(q, r) /\ ~(IsRequestUpgrade(q) /\ r.status = "switch")
  <2>1. ~HalfSwitched(q, r) /\ (ListedResponse(q, r) <=> Listed(r))
    BY <1>5 DEF HalfSwitched, ListedResponse
  <2>2. /\ ResponseReader(q, r) = Declared(r, UntilClosed)
        /\ ResponseWriter(q, r) = Declared(r, UntilClosed)
        /\ ResponseMeant(q, r) = Framed(r, UntilClosed)
    BY <1>5 DEF ResponseReader, ResponseWriter, ResponseMeant, IsResponseUpgrade
  <2> QED
    BY <1>2, <2>1, <2>2
<1> QED
  BY <1>3, <1>4, <1>5

-----------------------------------------------------------------------------
(* What FlattenSeq makes of sequences.  It is defined by recursion; a least
   number that is an exception replaces the induction. *)
(* A set of naturals has a least element. *)
LEMMA Minimal ==
  ASSUME NEW T, T \subseteq Nat, T # {}, NEW R, IsWellFoundedOn(R, Nat)
  PROVE  \E n \in T : \A m \in T : ~(<<m, n>> \in R)
BY WFMin, Zenon

LEMMA LessIsWellFounded ==
  \E R : IsWellFoundedOn(R, Nat) /\ \A x, y \in Nat : x < y => <<x, y>> \in R
<1> DEFINE R == OpToRel(<, Nat)
<1>1. IsWellFoundedOn(R, Nat)
  BY NatLessThanWellFounded, Zenon
<1>2. \A x, y \in Nat : x < y => <<x, y>> \in R
  BY DEF OpToRel
<1> HIDE DEF R
<1> QED BY <1>1, <1>2

LEMMA LeastNat ==
  ASSUME NEW T, T \subseteq Nat, T # {}
  PROVE  \E n \in T : \A m \in T : n <= m
<1>1. PICK R : IsWellFoundedOn(R, Nat) /\ \A x, y \in Nat : x < y => <<x, y>> \in R
  BY LessIsWellFounded, Zenon
<1>2. \E n \in T : \A m \in T : ~(<<m, n>> \in R)
  <2>1. IsWellFoundedOn(R, Nat)
    BY <1>1
  <2> QED BY <2>1, Minimal, Zenon
<1>a. PICK n \in T : \A m \in T : ~(<<m, n>> \in R)
  BY <1>2
<1>3. ASSUME NEW m \in T PROVE n <= m
  <2>1. m \in Nat /\ n \in Nat
    OBVIOUS
  <2>2. ~(m < n)
    BY <1>1, <1>a, <2>1
  <2> QED BY <2>1, <2>2
<1> QED BY <1>3

(* f is the function by which FlattenSeq is defined. *)
Flattens(f, s, n) ==
  f = [i \in 1..n |-> IF i = 1 THEN s[i] ELSE f[i - 1] \o s[i]]

LEMMA FlattensExists ==
  ASSUME NEW s, NEW n \in Nat
  PROVE  \E f : Flattens(f, s, n)
<1> DEFINE T == { m \in Nat : ~\E f : Flattens(f, s, m) }
<1> SUFFICES ASSUME T # {} PROVE FALSE
  OBVIOUS
<1>1. PICK m \in T : \A k \in T : m <= k
  BY LeastNat
<1>2. m # 0
  <2> SUFFICES \E f : Flattens(f, s, 0)
    BY <1>1
  <2> DEFINE f == [i \in 1..0 |-> 0]
  <2>1. f = [i \in 1..0 |-> IF i = 1 THEN s[i] ELSE f[i - 1] \o s[i]]
    OBVIOUS
  <2> HIDE DEF f
  <2> QED BY <2>1 DEF Flattens
<1>3. m - 1 \in Nat /\ m - 1 \notin T
  BY <1>1, <1>2
<1>4. PICK f : Flattens(f, s, m - 1)
  BY <1>3
<1> DEFINE F(i) == IF i < m THEN f[i] ELSE IF i = 1 THEN s[i] ELSE f[i - 1] \o s[i]
           g == [i \in 1..m |-> F(i)]
<1>5. g = [i \in 1..m |-> IF i = 1 THEN s[i] ELSE g[i - 1] \o s[i]]
  <2>1. ASSUME NEW i \in 1..m PROVE F(i) = IF i = 1 THEN s[i] ELSE g[i - 1] \o s[i]
    <3>1. CASE i = 1
      BY <1>2, <1>3, <1>4, <3>1 DEF Flattens
    <3>2. CASE i # 1
      <4>1. i - 1 \in 1..m /\ i - 1 < m /\ g[i - 1] = f[i - 1]
        BY <3>2, <1>3
      <4>2. CASE i < m
        <5>1. i \in 1..(m - 1)
          BY <1>3, <4>2
        <5>2. f[i] = f[i - 1] \o s[i]
          BY <1>4, <5>1, <3>2 DEF Flattens
        <5> QED BY <4>1, <4>2, <5>2, <3>2
      <4>3. CASE ~(i < m)
        BY <4>1, <4>3, <3>2
      <4> QED BY <4>2, <4>3
    <3> QED BY <3>1, <3>2
  <2> HIDE DEF F
  <2>2. g = [i \in 1..m |-> F(i)]
    OBVIOUS
  <2> HIDE DEF g
  <2> QED BY <2>1, <2>2
<1>6. Flattens(g, s, m)
  BY <1>5 DEF Flattens
<1> QED BY <1>1, <1>6

LEMMA FlattenIs ==
  ASSUME NEW s, NEW n \in Nat \ {0}, Len(s) = n
  PROVE  \E f : Flattens(f, s, n) /\ FlattenSeq(s) = f[n]
<1> DEFINE f == CHOOSE f : Flattens(f, s, n)
<1>1. Flattens(f, s, n)
  BY FlattensExists
<1>2. FlattenSeq(s) = f[n]
  BY DEF FlattenSeq, Flattens
<1> HIDE DEF f
<1> QED BY <1>1, <1>2

LEMMA FlattensUnique ==
  ASSUME NEW s, NEW n \in Nat, NEW f, NEW g, Flattens(f, s, n), Flattens(g, s, n)
  PROVE  f = g
<1> DEFINE T == { i \in 1..n : f[i] # g[i] }
<1>1. T = {}
  <2> SUFFICES ASSUME T # {} PROVE FALSE
    OBVIOUS
  <2>0. T \subseteq Nat
    OBVIOUS
  <2>1. PICK i \in T : \A k \in T : i <= k
    <3> HIDE DEF T
    <3> QED BY <2>0, LeastNat
  <2>2. CASE i = 1
    BY <2>1, <2>2 DEF Flattens
  <2>3. CASE i # 1
    <3>1. i - 1 \in 1..n /\ f[i - 1] = g[i - 1] /\ i \in 1..n /\ f[i] # g[i]
      BY <2>1, <2>3
    <3>2. f[i] = f[i - 1] \o s[i] /\ g[i] = g[i - 1] \o s[i]
      BY <2>3, <3>1 DEF Flattens
    <3> QED BY <3>1, <3>2
  <2> QED BY <2>2, <2>3
<1>2. DOMAIN f = 1..n /\ DOMAIN g = 1..n /\ f = [i \in 1..n |-> f[i]] /\ g = [i \in 1..n |-> g[i]]
  BY DEF Flattens
<1> QED BY <1>1, <1>2

LEMMA FlattenEmpty == FlattenSeq(<<>>) = <<>>
BY DEF FlattenSeq

LEMMA FlattenOne ==
  ASSUME NEW S, NEW t \in Seq(S)
  PROVE  FlattenSeq(<<t>>) = t
<1>0. Len(<<t>>) = 1 /\ 1 \in Nat \ {0}
  OBVIOUS
<1>1. PICK f : Flattens(f, <<t>>, 1) /\ FlattenSeq(<<t>>) = f[1]
  BY <1>0, FlattenIs
<1> QED BY <1>1 DEF Flattens

LEMMA FlattenAppend ==
  ASSUME NEW S, NEW s \in Seq(Seq(S)), NEW t \in Seq(S)
  PROVE  FlattenSeq(Append(s, t)) = IF s = <<>> THEN t ELSE FlattenSeq(s) \o t
<1>1. CASE s = <<>>
  <2>1. Append(s, t) = <<t>>
    BY <1>1
  <2> QED BY <1>1, <2>1, FlattenOne
<1>2. CASE s # <<>>
  <2> DEFINE n == Len(s)
  <2>0. n \in Nat \ {0} /\ Len(Append(s, t)) = n + 1 /\ n + 1 \in Nat \ {0}
    BY <1>2
  <2>a. Len(s) = n
    OBVIOUS
  <2> HIDE DEF n
  <2>1. PICK f : Flattens(f, s, n) /\ FlattenSeq(s) = f[n]
    BY <2>0, <2>a, FlattenIs
  <2>2. PICK g : Flattens(g, Append(s, t), n + 1) /\ FlattenSeq(Append(s, t)) = g[n + 1]
    BY <2>0, FlattenIs
  <2> DEFINE h == [i \in 1..n |-> g[i]]
  <2>3. Flattens(h, s, n)
    <3>1. ASSUME NEW i \in 1..n
          PROVE  g[i] = IF i = 1 THEN s[i] ELSE h[i - 1] \o s[i]
      <4>1. i \in 1..(n + 1) /\ Append(s, t)[i] = s[i] /\ (i # 1 => h[i - 1] = g[i - 1])
        BY <2>0 DEF n
      <4> QED BY <2>2, <4>1 DEF Flattens
    <3>2. h = [i \in 1..n |-> g[i]]
      OBVIOUS
    <3> HIDE DEF h
    <3> QED BY <3>1, <3>2 DEF Flattens
  <2>4. h = f
    BY <2>0, <2>1, <2>3, FlattensUnique
  <2>5. g[n] = f[n]
    BY <2>0, <2>4
  <2>6. g[n + 1] = g[n] \o t
    <3>1. n + 1 \in 1..(n + 1) /\ n + 1 # 1 /\ Append(s, t)[n + 1] = t /\ (n + 1) - 1 = n
      BY <2>0 DEF n
    <3> QED BY <2>2, <3>1 DEF Flattens
  <2> QED BY <1>2, <2>1, <2>2, <2>5, <2>6
<1> QED BY <1>1, <1>2

LEMMA SubSeqIs ==
  ASSUME NEW S, NEW s \in Seq(S), NEW m \in Nat, NEW n \in Nat,
         m >= 1, n <= Len(s), m <= n + 1
  PROVE  /\ SubSeq(s, m, n) \in Seq(S)
         /\ Len(SubSeq(s, m, n)) = n - m + 1
         /\ \A i \in 1..(n - m + 1) : SubSeq(s, m, n)[i] = s[m + i - 1]
OBVIOUS

(* What SubSeq takes from a sequence. *)
Excerpt(S, u, s, m, n) ==
  /\ u \in Seq(S) /\ Len(u) = n - m + 1
  /\ \A i \in 1..(n - m + 1) : u[i] = s[m + i - 1]

LEMMA ExcerptIs ==
  ASSUME NEW S, NEW s \in Seq(S), NEW m \in Nat, NEW n \in Nat,
         m >= 1, n <= Len(s), m <= n + 1
  PROVE  Excerpt(S, SubSeq(s, m, n), s, m, n)
<1> DEFINE u == SubSeq(s, m, n)
<1>1. /\ u \in Seq(S) /\ Len(u) = n - m + 1
      /\ \A i \in 1..(n - m + 1) : u[i] = s[m + i - 1]
  BY SubSeqIs
<1> HIDE DEF u
<1>2. Excerpt(S, u, s, m, n)
  BY <1>1 DEF Excerpt
<1> QED BY <1>2 DEF u

(* The last of a sequence, apart from those before it. *)
LEMMA FrontAndLast ==
  ASSUME NEW S, NEW s \in Seq(S), s # <<>>
  PROVE  \E front \in Seq(S), last \in S :
           s = Append(front, last) /\ Len(front) = Len(s) - 1
<1> DEFINE front == SubSeq(s, 1, Len(s) - 1)
<1>0. Len(s) \in Nat \ {0} /\ s[Len(s)] \in S
  OBVIOUS
<1>1. /\ front \in Seq(S) /\ Len(front) = Len(s) - 1
      /\ \A i \in 1..(Len(s) - 1) : front[i] = s[i]
  <2>1. Len(s) - 1 \in Nat /\ Len(s) - 1 - 1 + 1 = Len(s) - 1 /\ 1 \in Nat /\ 1 >= 1
    BY <1>0
  <2>2. Len(s) - 1 <= Len(s) /\ 1 <= Len(s) - 1 + 1 /\ \A i \in 1..(Len(s) - 1) : 1 + i - 1 = i
    BY <1>0
  <2>3. PICK k \in Nat : k = Len(s) - 1
    BY <2>1
  <2>4. /\ SubSeq(s, 1, k) \in Seq(S) /\ Len(SubSeq(s, 1, k)) = k - 1 + 1
        /\ \A i \in 1..(k - 1 + 1) : SubSeq(s, 1, k)[i] = s[1 + i - 1]
    BY <2>1, <2>2, <2>3, SubSeqIs
  <2> QED BY <2>1, <2>2, <2>3, <2>4
<1> HIDE DEF front
<1>2. s = Append(front, s[Len(s)])
  <2>1. Append(front, s[Len(s)]) \in Seq(S) /\ Len(Append(front, s[Len(s)])) = Len(s)
    BY <1>0, <1>1
  <2>2. ASSUME NEW i \in 1..Len(s) PROVE Append(front, s[Len(s)])[i] = s[i]
    BY <1>0, <1>1
  <2> QED BY <2>1, <2>2
<1> QED BY <1>0, <1>1, <1>2

LEMMA FlattenType ==
  ASSUME NEW S, NEW s \in Seq(Seq(S))
  PROVE  FlattenSeq(s) \in Seq(S)
<1> DEFINE T == { n \in Nat : \E r \in Seq(Seq(S)) : Len(r) = n /\ FlattenSeq(r) \notin Seq(S) }
<1> SUFFICES ASSUME T # {} PROVE FALSE
  OBVIOUS
<1>1. PICK n \in T : \A k \in T : n <= k
  BY LeastNat
<1>2. PICK r \in Seq(Seq(S)) : Len(r) = n /\ FlattenSeq(r) \notin Seq(S)
  BY <1>1
<1>3. r # <<>>
  BY <1>2, FlattenEmpty
<1>4. PICK front \in Seq(Seq(S)), last \in Seq(S) : r = Append(front, last) /\ Len(front) = n - 1
  BY <1>2, <1>3, FrontAndLast
<1>5. n - 1 \in Nat /\ n - 1 \notin T
  BY <1>1, <1>4
<1>6. FlattenSeq(front) \in Seq(S)
  BY <1>4, <1>5
<1>7. CASE front = <<>>
  BY <1>2, <1>4, <1>7, FlattenAppend
<1>8. CASE front # <<>>
  <2>1. FlattenSeq(r) = FlattenSeq(front) \o last
    BY <1>4, <1>8, FlattenAppend
  <2> QED BY <1>2, <1>4, <1>6, <2>1
<1> QED BY <1>7, <1>8

LEMMA AppendTail ==
  ASSUME NEW S, NEW s \in Seq(S), s # <<>>, NEW e \in S
  PROVE  Head(Append(s, e)) = Head(s) /\ Tail(Append(s, e)) = Append(Tail(s), e)
<1>0. Len(s) \in Nat \ {0}
  OBVIOUS
<1> DEFINE a == Tail(Append(s, e))
           b == Append(Tail(s), e)
<1>1. a \in Seq(S) /\ Len(a) = Len(s) /\ \A i \in 1..Len(s) : a[i] = Append(s, e)[i + 1]
  BY <1>0
<1>2. b \in Seq(S) /\ Len(b) = Len(s)
  BY <1>0
<1>3. ASSUME NEW i \in 1..Len(s) PROVE b[i] = Append(s, e)[i + 1]
  BY <1>0
<1>4. Head(Append(s, e)) = Head(s)
  BY <1>0
<1> HIDE DEF a, b
<1>5. a = b
  <2>1. \A i \in 1..Len(s) : a[i] = b[i]
    BY <1>1, <1>3
  <2> QED BY <1>1, <1>2, <2>1
<1> QED BY <1>4, <1>5 DEF a, b

LEMMA ConcatAssoc ==
  ASSUME NEW S, NEW s \in Seq(S), NEW t \in Seq(S), NEW u \in Seq(S)
  PROVE  (s \o t) \o u = s \o (t \o u)
<1>1. /\ (s \o t) \o u \in Seq(S) /\ s \o (t \o u) \in Seq(S)
      /\ Len((s \o t) \o u) = Len(s) + Len(t) + Len(u)
      /\ Len(s \o (t \o u)) = Len(s) + Len(t) + Len(u)
  OBVIOUS
<1>2. ASSUME NEW i \in 1..(Len(s) + Len(t) + Len(u))
      PROVE  ((s \o t) \o u)[i] = (s \o (t \o u))[i]
  <2>1. CASE i <= Len(s)
    BY <2>1
  <2>2. CASE i > Len(s) /\ i <= Len(s) + Len(t)
    BY <2>2
  <2>3. CASE i > Len(s) + Len(t)
    <3>1. ((s \o t) \o u)[i] = u[i - (Len(s) + Len(t))]
      BY <2>3
    <3>2. (s \o (t \o u))[i] = (t \o u)[i - Len(s)] /\ (t \o u)[i - Len(s)] = u[i - Len(s) - Len(t)]
      BY <2>3
    <3>3. i - (Len(s) + Len(t)) = i - Len(s) - Len(t)
      OBVIOUS
    <3> QED BY <3>1, <3>2, <3>3
  <2> QED BY <2>1, <2>2, <2>3
<1> QED BY <1>1, <1>2

Regroups(S, s, t, u) == (s \o t) \o u = s \o (t \o u)

LEMMA RegroupsIs ==
  ASSUME NEW S, NEW s \in Seq(S), NEW t \in Seq(S), NEW u \in Seq(S)
  PROVE  Regroups(S, s, t, u)
BY ConcatAssoc DEF Regroups

LEMMA FlattenFirst ==
  ASSUME NEW S, NEW s \in Seq(Seq(S)), s # <<>>
  PROVE  FlattenSeq(s) = Head(s) \o FlattenSeq(Tail(s))
<1> DEFINE T == { n \in Nat : \E r \in Seq(Seq(S)) :
                    /\ Len(r) = n /\ r # <<>>
                    /\ FlattenSeq(r) # Head(r) \o FlattenSeq(Tail(r)) }
<1> SUFFICES ASSUME T # {} PROVE FALSE
  <2>1. ASSUME T = {} PROVE FlattenSeq(s) = Head(s) \o FlattenSeq(Tail(s))
    <3>1. Len(s) \in Nat /\ Len(s) \notin T
      <4>1. Len(s) \in Nat
        OBVIOUS
      <4> QED BY <2>1, <4>1, Zenon
    <3> QED BY <3>1, Zenon
  <2> QED BY <2>1, Zenon
<1>1. PICK n \in T : \A k \in T : n <= k
  BY LeastNat
<1>2. PICK r \in Seq(Seq(S)) : /\ Len(r) = n /\ r # <<>>
                              /\ FlattenSeq(r) # Head(r) \o FlattenSeq(Tail(r))
  BY <1>1
<1>3. PICK front \in Seq(Seq(S)), last \in Seq(S) : r = Append(front, last) /\ Len(front) = n - 1
  BY <1>2, FrontAndLast
<1>4. CASE front = <<>>
  <2>1. Head(r) = last /\ Tail(r) = <<>>
    BY <1>3, <1>4
  <2>2. FlattenSeq(r) = last
    BY <1>3, <1>4, FlattenAppend
  <2>3. last \o <<>> = last
    OBVIOUS
  <2> QED BY <1>2, <2>1, <2>2, <2>3, FlattenEmpty
<1>5. CASE front # <<>>
  <2>0. n \in Nat /\ n # 0
    BY <1>1, <1>2
  <2>1. n - 1 \in Nat /\ n - 1 \notin T
    <3> HIDE DEF T
    <3>1. n - 1 \in Nat /\ ~(n <= n - 1)
      BY <2>0
    <3> QED BY <1>1, <3>1
  <2>2. FlattenSeq(front) = Head(front) \o FlattenSeq(Tail(front))
    BY <1>3, <1>5, <2>1
  <2>3. Head(r) = Head(front) /\ Tail(r) = Append(Tail(front), last)
    BY <1>3, <1>5, AppendTail
  <2>4. FlattenSeq(r) = FlattenSeq(front) \o last
    BY <1>3, <1>5, FlattenAppend
  <2>5. Tail(front) \in Seq(Seq(S)) /\ Head(front) \in Seq(S)
    BY <1>5
  <2>6. FlattenSeq(Tail(r)) = FlattenSeq(Tail(front)) \o last
    <3>1. CASE Tail(front) = <<>>
      <4>1. last \in Seq(S) /\ <<>> \o last = last
        BY <1>3
      <4>2. FlattenSeq(Append(Tail(front), last)) = last
        BY <2>5, <3>1, <4>1, FlattenAppend
      <4> QED BY <2>3, <3>1, <4>1, <4>2, FlattenEmpty
    <3>2. CASE Tail(front) # <<>>
      BY <2>3, <2>5, <3>2, FlattenAppend
    <3> QED BY <3>1, <3>2
  <2>7. FlattenSeq(Tail(front)) \in Seq(S)
    BY <2>5, FlattenType
  <2>8. (Head(front) \o FlattenSeq(Tail(front))) \o last = Head(front) \o (FlattenSeq(Tail(front)) \o last)
    <3> DEFINE first == Head(front)
               rest  == FlattenSeq(Tail(front))
    <3>1. first \in Seq(S) /\ rest \in Seq(S) /\ last \in Seq(S)
      BY <1>3, <2>5, <2>7
    <3> HIDE DEF T, first, rest
    <3>2. Regroups(S, first, rest, last)
      BY <3>1, RegroupsIs
    <3> QED BY <3>2 DEF Regroups, first, rest
  <2> QED BY <1>2, <2>2, <2>3, <2>4, <2>6, <2>8
<1> QED BY <1>4, <1>5

(* Where each of the sequences begins in what FlattenSeq makes of them. *)
Parts(at, s) ==
  LET all == FlattenSeq(s) IN
  /\ at \in [1..(Len(s) + 1) -> Nat]
  /\ at[1] = 0 /\ at[Len(s) + 1] = Len(all)
  /\ \A i \in 1..Len(s) :
       /\ at[i + 1] = at[i] + Len(s[i]) /\ at[i + 1] <= Len(all)
       /\ \A k \in 1..Len(s[i]) : all[at[i] + k] = s[i][k]
  /\ \A p \in 1..Len(all) : \E i \in 1..Len(s) : \E k \in 1..Len(s[i]) : p = at[i] + k

LEMMA PartsAppend ==
  ASSUME NEW S, NEW s \in Seq(Seq(S)), NEW t \in Seq(S), NEW at, Parts(at, s)
  PROVE  \E new : Parts(new, Append(s, t))
<1> DEFINE n   == Len(s)
           r   == Append(s, t)
           all == FlattenSeq(s)
           new == [i \in 1..(n + 2) |-> IF i <= n + 1 THEN at[i] ELSE at[n + 1] + Len(t)]
<1>1. /\ n \in Nat /\ Len(r) = n + 1 /\ r[n + 1] = t /\ Len(t) \in Nat
      /\ \A i \in 1..n : r[i] = s[i] /\ Len(s[i]) \in Nat
  OBVIOUS
<1>2. all \in Seq(S) /\ Len(all) \in Nat
  BY FlattenType
<1>3. FlattenSeq(r) = all \o t
  <2>1. CASE s = <<>>
    <3>1. <<>> \o t = t
      OBVIOUS
    <3> QED BY <2>1, <3>1, FlattenAppend, FlattenEmpty
  <2>2. CASE s # <<>>
    BY <2>2, FlattenAppend
  <2> QED BY <2>1, <2>2
<1>4. /\ at \in [1..(n + 1) -> Nat] /\ at[1] = 0 /\ at[n + 1] = Len(all)
      /\ \A i \in 1..n : /\ at[i + 1] = at[i] + Len(s[i]) /\ at[i + 1] <= Len(all)
                         /\ \A k \in 1..Len(s[i]) : all[at[i] + k] = s[i][k]
      /\ \A p \in 1..Len(all) : \E i \in 1..n : \E k \in 1..Len(s[i]) : p = at[i] + k
  BY DEF Parts
<1>5. /\ Len(all \o t) = Len(all) + Len(t)
      /\ \A p \in 1..Len(all) : (all \o t)[p] = all[p]
      /\ \A k \in 1..Len(t) : (all \o t)[Len(all) + k] = t[k]
  BY <1>2
<1> HIDE DEF n, r, all
<1>6. /\ new \in [1..(Len(r) + 1) -> Nat] /\ new[1] = 0
      /\ new[Len(r) + 1] = Len(all \o t)
      /\ \A i \in 1..(n + 1) : new[i] = at[i]
  BY <1>1, <1>2, <1>4, <1>5
<1>7. new[n + 2] = Len(all) + Len(t)
  BY <1>1, <1>2, <1>4
<1> HIDE DEF new
<1>8. ASSUME NEW i \in 1..Len(r)
      PROVE  /\ new[i + 1] = new[i] + Len(r[i]) /\ new[i + 1] <= Len(all \o t)
             /\ \A k \in 1..Len(r[i]) : (all \o t)[new[i] + k] = r[i][k]
  <2>1. CASE i = n + 1
    <3>1. new[i] = Len(all) /\ new[i + 1] = Len(all) + Len(t) /\ r[i] = t
      BY <1>1, <1>4, <1>6, <1>7, <2>1
    <3> QED BY <1>1, <1>2, <1>5, <3>1
  <2>2. CASE i # n + 1
    <3>1. i \in 1..n /\ i \in 1..(n + 1) /\ i + 1 \in 1..(n + 1)
      BY <1>1, <2>2
    <3>2. new[i] = at[i] /\ new[i + 1] = at[i + 1] /\ r[i] = s[i] /\ at[i] \in Nat
      BY <1>1, <1>4, <1>6, <3>1
    <3>a. /\ at[i + 1] = at[i] + Len(s[i]) /\ at[i + 1] <= Len(all)
          /\ \A k \in 1..Len(s[i]) : all[at[i] + k] = s[i][k]
      BY <1>4, <3>1
    <3>3. ASSUME NEW k \in 1..Len(s[i]) PROVE (all \o t)[at[i] + k] = s[i][k]
      <4>1. at[i] + k \in 1..Len(all)
        <5>1. /\ at[i] \in Nat /\ Len(s[i]) \in Nat /\ k \in Nat /\ k >= 1 /\ k <= Len(s[i])
              /\ at[i] + Len(s[i]) <= Len(all)
          BY <1>1, <3>1, <3>2, <3>a
        <5> QED BY <1>2, <5>1
      <4> QED BY <1>5, <3>1, <3>a, <4>1
    <3>4. at[i + 1] <= Len(all) + Len(t) /\ new[i + 1] = new[i] + Len(r[i])
      <4>1. at[i + 1] \in Nat
        BY <1>4, <3>1
      <4> QED BY <1>1, <1>2, <3>2, <3>a, <4>1
    <3> QED BY <1>5, <3>2, <3>3, <3>4
  <2> QED BY <2>1, <2>2
<1>9. ASSUME NEW p \in 1..Len(all \o t)
      PROVE  \E i \in 1..Len(r) : \E k \in 1..Len(r[i]) : p = new[i] + k
  <2>1. CASE p <= Len(all)
    <3>1. PICK i \in 1..n : \E k \in 1..Len(s[i]) : p = at[i] + k
      BY <1>2, <1>4, <2>1
    <3>2. i \in 1..(n + 1) /\ i \in 1..Len(r) /\ r[i] = s[i]
      BY <1>1
    <3> QED BY <1>6, <3>1, <3>2
  <2>2. CASE ~(p <= Len(all))
    <3>1. p - Len(all) \in 1..Len(t) /\ p = Len(all) + (p - Len(all))
      BY <1>1, <1>2, <1>5, <2>2
    <3>2. n + 1 \in 1..Len(r) /\ n + 1 \in 1..(n + 1) /\ new[n + 1] = Len(all) /\ r[n + 1] = t
      BY <1>1, <1>4, <1>6
    <3> QED BY <3>1, <3>2
  <2> QED BY <2>1, <2>2
<1>10. Parts(new, r)
  <2> DEFINE whole == FlattenSeq(r)
  <2>1. whole = all \o t
    BY <1>3
  <2> HIDE DEF whole
  <2>2. new \in [1..(Len(r) + 1) -> Nat] /\ new[1] = 0 /\ new[Len(r) + 1] = Len(whole)
    BY <1>6, <2>1
  <2>3. \A i \in 1..Len(r) :
          /\ new[i + 1] = new[i] + Len(r[i]) /\ new[i + 1] <= Len(whole)
          /\ \A k \in 1..Len(r[i]) : whole[new[i] + k] = r[i][k]
    BY <1>8, <2>1
  <2>4. \A p \in 1..Len(whole) : \E i \in 1..Len(r) : \E k \in 1..Len(r[i]) : p = new[i] + k
    BY <1>9, <2>1
  <2> QED BY <2>2, <2>3, <2>4, Zenon DEF Parts, whole
<1> QED BY <1>10 DEF r

LEMMA FlattenParts ==
  ASSUME NEW S, NEW s \in Seq(Seq(S))
  PROVE  \E at : Parts(at, s)
<1> DEFINE T == { n \in Nat : \E r \in Seq(Seq(S)) : Len(r) = n /\ ~\E at : Parts(at, r) }
<1> SUFFICES ASSUME T # {} PROVE FALSE
  OBVIOUS
<1>1. PICK n \in T : \A k \in T : n <= k
  BY LeastNat
<1>2. PICK r \in Seq(Seq(S)) : Len(r) = n /\ ~\E at : Parts(at, r)
  BY <1>1
<1>3. CASE r = <<>>
  <2> DEFINE at == [i \in 1..1 |-> 0]
  <2>1. Parts(at, <<>>)
    BY FlattenEmpty DEF Parts
  <2> QED BY <1>2, <1>3, <2>1
<1>4. CASE r # <<>>
  <2>1. PICK front \in Seq(Seq(S)), last \in Seq(S) : r = Append(front, last) /\ Len(front) = n - 1
    BY <1>2, <1>4, FrontAndLast
  <2>2. n \in Nat /\ n # 0
    BY <1>1, <1>2, <1>4
  <2>3. n - 1 \in Nat /\ n - 1 \notin T
    <3> HIDE DEF T
    <3>1. n - 1 \in Nat /\ ~(n <= n - 1)
      BY <2>2
    <3> QED BY <1>1, <3>1
  <2>4. \E at : Parts(at, front)
    BY <2>1, <2>3
  <2> QED BY <1>2, <2>1, <2>4, PartsAppend
<1> QED BY <1>3, <1>4

-----------------------------------------------------------------------------
(* What a message looks like on the wire. *)
Kinds    == {"size", "ext", "cr", "lf", "data", "beyond"}
ByteType == [kind : Kinds, n : Nat]

LEMMA ConcatIs ==
  ASSUME NEW S, NEW s \in Seq(S), NEW t \in Seq(S), NEW m \in Nat, NEW n \in Nat,
         Len(s) = m, Len(t) = n
  PROVE  /\ s \o t \in Seq(S) /\ Len(s \o t) = m + n
         /\ \A i \in 1..m : (s \o t)[i] = s[i]
         /\ \A i \in 1..n : (s \o t)[m + i] = t[i]
OBVIOUS

(* One sequence behind another. *)
Behind(S, u, s, t, k, l) ==
  /\ u \in Seq(S) /\ Len(u) = k + l
  /\ \A i \in 1..k : u[i] = s[i]
  /\ \A i \in 1..l : u[k + i] = t[i]

LEMMA BehindIs ==
  ASSUME NEW S, NEW s \in Seq(S), NEW t \in Seq(S), NEW k \in Nat, NEW l \in Nat,
         Len(s) = k, Len(t) = l
  PROVE  Behind(S, s \o t, s, t, k, l)
<1> DEFINE u == s \o t
<1>1. /\ u \in Seq(S) /\ Len(u) = k + l
      /\ \A i \in 1..k : u[i] = s[i]
      /\ \A i \in 1..l : u[k + i] = t[i]
  BY ConcatIs
<1> HIDE DEF u
<1>2. Behind(S, u, s, t, k, l)
  BY <1>1 DEF Behind
<1> QED BY <1>2 DEF u

LEMMA OneIs ==
  ASSUME NEW S, NEW e \in S
  PROVE  <<e>> \in Seq(S) /\ Len(<<e>>) = 1 /\ <<e>>[1] = e
OBVIOUS

LEMMA TwoAre ==
  ASSUME NEW S, NEW e \in S, NEW f \in S
  PROVE  <<e, f>> \in Seq(S) /\ Len(<<e, f>>) = 2 /\ <<e, f>>[1] = e /\ <<e, f>>[2] = f
OBVIOUS

LEMMA ByteIs ==
  ASSUME NEW kind \in Kinds
  PROVE  Byte(kind) \in ByteType /\ Byte(kind).kind = kind
BY DEF Byte, ByteType

LEMMA TimesIs ==
  ASSUME NEW n \in Nat, NEW kind \in Kinds
  PROVE  /\ Times(n, Byte(kind)) \in Seq(ByteType) /\ Len(Times(n, Byte(kind))) = n
         /\ \A i \in 1..n : Times(n, Byte(kind))[i].kind = kind
<1>1. Byte(kind) \in ByteType /\ Byte(kind).kind = kind
  BY ByteIs
<1> QED BY <1>1 DEF Times

(* A chunk head of some size stands behind a position. *)
HeadAt(w, ext, b, size) ==
  /\ w[b + 1].kind = "size" /\ w[b + 1].n = size
  /\ \A i \in 2..(ext + 1) : w[b + i].kind = "ext"
  /\ w[b + ext + 2].kind = "cr" /\ w[b + ext + 3].kind = "lf"

LEMMA HeadIs ==
  ASSUME NEW m, m.ext \in Nat, NEW size \in Nat
  PROVE  /\ ChunkHead(m, size) \in Seq(ByteType) /\ Len(ChunkHead(m, size)) = m.ext + 3
         /\ HeadAt(ChunkHead(m, size), m.ext, 0, size)
<1> DEFINE ext == m.ext
           a == <<[kind |-> "size", n |-> size]>>
           b == Times(ext, Byte("ext"))
           c == CRLF
<1>0. ext \in Nat
  OBVIOUS
<1>1. a \in Seq(ByteType) /\ Len(a) = 1 /\ a[1].kind = "size" /\ a[1].n = size
  <2>1. [kind |-> "size", n |-> size] \in ByteType
    BY DEF ByteType, Kinds
  <2> QED BY <2>1, OneIs
<1>2. b \in Seq(ByteType) /\ Len(b) = ext /\ \A i \in 1..ext : b[i].kind = "ext"
  <2>1. "ext" \in Kinds
    BY DEF Kinds
  <2> QED BY <1>0, <2>1, TimesIs
<1>3. c \in Seq(ByteType) /\ Len(c) = 2 /\ c[1].kind = "cr" /\ c[2].kind = "lf"
  <2>1. "cr" \in Kinds /\ "lf" \in Kinds
    BY DEF Kinds
  <2> QED BY <2>1, ByteIs, TwoAre DEF CRLF
<1>a. ChunkHead(m, size) = (a \o b) \o c
  BY DEF ChunkHead
<1> HIDE DEF a, b, c, ext
<1>4. /\ a \o b \in Seq(ByteType) /\ Len(a \o b) = ext + 1
      /\ (a \o b)[1] = a[1] /\ \A i \in 1..ext : (a \o b)[1 + i] = b[i]
  <2> DEFINE one == 1
  <2>1. one \in Nat /\ Len(a) = one
    BY <1>1
  <2> HIDE DEF one
  <2>2. /\ a \o b \in Seq(ByteType) /\ Len(a \o b) = one + ext
        /\ \A i \in 1..one : (a \o b)[i] = a[i]
        /\ \A i \in 1..ext : (a \o b)[one + i] = b[i]
    <3>1. a \in Seq(ByteType)
      BY <1>1
    <3>2. Behind(ByteType, a \o b, a, b, one, ext)
      BY <1>0, <1>2, <2>1, <3>1, BehindIs
    <3> QED BY <3>2 DEF Behind
  <2>3. one = 1 /\ 1 \in 1..one
    BY DEF one
  <2>4. one + ext = ext + 1
    BY <1>0, <2>3
  <2> QED BY <2>2, <2>3, <2>4
<1>5. /\ (a \o b) \o c \in Seq(ByteType) /\ Len((a \o b) \o c) = ext + 3
      /\ \A i \in 1..(ext + 1) : ((a \o b) \o c)[i] = (a \o b)[i]
      /\ ((a \o b) \o c)[ext + 2] = c[1] /\ ((a \o b) \o c)[ext + 3] = c[2]
  <2>1. ext + 1 \in Nat /\ ext + 1 + 2 = ext + 3 /\ ext + 1 + 1 = ext + 2
    BY <1>0
  <2> DEFINE d == a \o b
  <2>2. d \in Seq(ByteType) /\ Len(d) = ext + 1
    BY <1>4
  <2> HIDE DEF d
  <2>3. /\ d \o c \in Seq(ByteType) /\ Len(d \o c) = ext + 1 + 2
        /\ \A i \in 1..(ext + 1) : (d \o c)[i] = d[i]
        /\ (d \o c)[ext + 1 + 1] = c[1] /\ (d \o c)[ext + 1 + 2] = c[2]
    <3> DEFINE two == 2
    <3>1. two \in Nat /\ Len(c) = two /\ c \in Seq(ByteType)
      BY <1>3
    <3> HIDE DEF two
    <3>2. Behind(ByteType, d \o c, d, c, ext + 1, two)
      BY <2>1, <2>2, <3>1, BehindIs
    <3>3. /\ d \o c \in Seq(ByteType) /\ Len(d \o c) = ext + 1 + two
          /\ \A i \in 1..(ext + 1) : (d \o c)[i] = d[i]
          /\ \A i \in 1..two : (d \o c)[ext + 1 + i] = c[i]
      BY <3>2 DEF Behind
    <3>4. 1 \in 1..two /\ 2 \in 1..two
      BY DEF two
    <3> QED BY <3>3, <3>4 DEF two
  <2> QED BY <2>1, <2>3 DEF d
<1>6. ASSUME NEW i \in 2..(ext + 1) PROVE ((a \o b) \o c)[i].kind = "ext"
  <2>1. i - 1 \in 1..ext /\ i = 1 + (i - 1) /\ i \in 1..(ext + 1)
    BY <1>0
  <2> QED BY <1>2, <1>4, <1>5, <2>1
<1>7. c[1].kind = "cr" /\ c[2].kind = "lf"
  BY <1>3
<1>8. ((a \o b) \o c)[1] = a[1]
  <2>1. 1 \in 1..(ext + 1)
    BY <1>0
  <2> QED BY <1>4, <1>5, <2>1
<1> DEFINE all == (a \o b) \o c
<1>9. /\ all \in Seq(ByteType) /\ Len(all) = ext + 3
      /\ all[1] = a[1] /\ \A i \in 2..(ext + 1) : all[i].kind = "ext"
      /\ all[ext + 2] = c[1] /\ all[ext + 3] = c[2]
  BY <1>5, <1>6, <1>8
<1> HIDE DEF all
<1>10. HeadAt(all, ext, 0, size)
  BY <1>0, <1>1, <1>7, <1>9 DEF HeadAt
<1> QED BY <1>a, <1>9, <1>10 DEF ext, all

(* What follows a chunk head: the payload, CR and LF. *)
PayloadAt(w, b, size) ==
  /\ \A i \in 1..size : w[b + i].kind = "data"
  /\ w[b + size + 1].kind = "cr" /\ w[b + size + 2].kind = "lf"

LEMMA ChunkIs ==
  ASSUME NEW m, m.ext \in Nat, NEW size \in Nat
  PROVE  /\ Chunk(m, size) \in Seq(ByteType) /\ Len(Chunk(m, size)) = m.ext + 5 + size
         /\ HeadAt(Chunk(m, size), m.ext, 0, size)
         /\ PayloadAt(Chunk(m, size), m.ext + 3, size)
<1> DEFINE ext == m.ext
           a == ChunkHead(m, size)
           b == Times(size, Byte("data"))
           c == CRLF
           all == (a \o b) \o c
<1>0. ext \in Nat
  OBVIOUS
<1>1. a \in Seq(ByteType) /\ Len(a) = ext + 3 /\ HeadAt(a, ext, 0, size)
  BY HeadIs
<1>2. b \in Seq(ByteType) /\ Len(b) = size /\ \A i \in 1..size : b[i].kind = "data"
  <2>1. "data" \in Kinds
    BY DEF Kinds
  <2> QED BY <2>1, TimesIs
<1>3. c \in Seq(ByteType) /\ Len(c) = 2 /\ c[1].kind = "cr" /\ c[2].kind = "lf"
  <2>1. "cr" \in Kinds /\ "lf" \in Kinds
    BY DEF Kinds
  <2> QED BY <2>1, ByteIs, TwoAre DEF CRLF
<1>a. Chunk(m, size) = all
  BY DEF Chunk
<1> HIDE DEF a, b, c, ext
<1>4. /\ a \o b \in Seq(ByteType) /\ Len(a \o b) = ext + 3 + size
      /\ \A i \in 1..(ext + 3) : (a \o b)[i] = a[i]
      /\ \A i \in 1..size : (a \o b)[ext + 3 + i] = b[i]
  <2>1. ext + 3 \in Nat
    BY <1>0
  <2> QED BY <1>1, <1>2, <2>1
<1>5. /\ all \in Seq(ByteType) /\ Len(all) = ext + 5 + size
      /\ \A i \in 1..(ext + 3 + size) : all[i] = (a \o b)[i]
      /\ all[ext + 3 + size + 1] = c[1] /\ all[ext + 3 + size + 2] = c[2]
  <2>1. ext + 3 + size \in Nat /\ ext + 3 + size + 2 = ext + 5 + size
    BY <1>0
  <2> DEFINE d == a \o b
  <2>2. d \in Seq(ByteType) /\ Len(d) = ext + 3 + size
    BY <1>4
  <2> HIDE DEF d
  <2>3. /\ d \o c \in Seq(ByteType) /\ Len(d \o c) = ext + 3 + size + 2
        /\ \A i \in 1..(ext + 3 + size) : (d \o c)[i] = d[i]
        /\ (d \o c)[ext + 3 + size + 1] = c[1] /\ (d \o c)[ext + 3 + size + 2] = c[2]
    <3> DEFINE two == 2
    <3>1. two \in Nat /\ Len(c) = two /\ c \in Seq(ByteType)
      BY <1>3
    <3> HIDE DEF two
    <3>2. Behind(ByteType, d \o c, d, c, ext + 3 + size, two)
      BY <2>1, <2>2, <3>1, BehindIs
    <3>3. /\ d \o c \in Seq(ByteType) /\ Len(d \o c) = ext + 3 + size + two
          /\ \A i \in 1..(ext + 3 + size) : (d \o c)[i] = d[i]
          /\ \A i \in 1..two : (d \o c)[ext + 3 + size + i] = c[i]
      BY <3>2 DEF Behind
    <3>4. 1 \in 1..two /\ 2 \in 1..two
      BY DEF two
    <3> QED BY <3>3, <3>4 DEF two
  <2> QED BY <2>1, <2>3 DEF d
<1> HIDE DEF all
<1>6. /\ \A i \in 1..(ext + 3) : all[i] = a[i]
      /\ \A i \in 1..size : all[ext + 3 + i] = b[i]
  <2>1. ASSUME NEW i \in 1..(ext + 3) PROVE all[i] = a[i]
    <3>1. i \in 1..(ext + 3 + size)
      BY <1>0
    <3> QED BY <1>4, <1>5, <3>1
  <2>2. ASSUME NEW i \in 1..size PROVE all[ext + 3 + i] = b[i]
    <3>1. ext + 3 + i \in 1..(ext + 3 + size)
      BY <1>0
    <3> QED BY <1>4, <1>5, <3>1
  <2> QED BY <2>1, <2>2
<1>7. HeadAt(all, ext, 0, size)
  BY <1>0, <1>1, <1>6 DEF HeadAt
<1>8. PayloadAt(all, ext + 3, size)
  BY <1>0, <1>2, <1>3, <1>5, <1>6 DEF PayloadAt
<1> QED BY <1>a, <1>5, <1>7, <1>8 DEF ext

LEMMA HeadKinds ==
  ASSUME NEW w, NEW ext \in Nat, NEW b \in Nat, NEW size, HeadAt(w, ext, b, size)
  PROVE  /\ \A i \in 1..(ext + 3) : w[b + i].kind \in {"size", "ext", "cr", "lf"}
         /\ \A i \in 1..(ext + 3) : w[b + i].kind = "size" <=> i = 1
         /\ \A i \in 1..(ext + 3) : w[b + i].kind = "lf" <=> i = ext + 3
         /\ \A i \in 1..(ext + 3) : w[b + i].kind = "cr" <=> i = ext + 2
         /\ w[b + 1].n = size
<1>1. ASSUME NEW i \in 1..(ext + 3)
      PROVE  \/ i = 1 /\ w[b + i].kind = "size"
             \/ i # 1 /\ i # ext + 2 /\ i # ext + 3 /\ w[b + i].kind = "ext"
             \/ i # 1 /\ i = ext + 2 /\ w[b + i].kind = "cr"
             \/ i # 1 /\ i = ext + 3 /\ w[b + i].kind = "lf"
  <2>1. i = 1 \/ i \in 2..(ext + 1) \/ i = ext + 2 \/ i = ext + 3
    OBVIOUS
  <2> QED BY <2>1 DEF HeadAt
<1>2. ASSUME NEW i \in 1..(ext + 3)
      PROVE  /\ w[b + i].kind \in {"size", "ext", "cr", "lf"}
             /\ w[b + i].kind = "size" <=> i = 1
             /\ w[b + i].kind = "lf" <=> i = ext + 3
             /\ w[b + i].kind = "cr" <=> i = ext + 2
  BY <1>1
<1> QED BY <1>2 DEF HeadAt

LEMMA HeadShift ==
  ASSUME NEW v, NEW w, NEW ext \in Nat, NEW b \in Nat, NEW size, HeadAt(v, ext, 0, size),
         \A i \in 1..(ext + 3) : w[b + i] = v[i]
  PROVE  HeadAt(w, ext, b, size)
<1>1. /\ 1 \in 1..(ext + 3) /\ ext + 2 \in 1..(ext + 3) /\ ext + 3 \in 1..(ext + 3)
      /\ \A i \in 2..(ext + 1) : i \in 1..(ext + 3) /\ 0 + i = i
      /\ 0 + ext + 2 = ext + 2 /\ 0 + ext + 3 = ext + 3
      /\ b + (ext + 2) = b + ext + 2 /\ b + (ext + 3) = b + ext + 3
  OBVIOUS
<1> QED BY <1>1 DEF HeadAt

LEMMA PayloadShift ==
  ASSUME NEW v, NEW w, NEW k \in Nat, NEW b \in Nat, NEW size \in Nat, PayloadAt(v, k, size),
         \A i \in 1..(k + size + 2) : w[b + i] = v[i]
  PROVE  PayloadAt(w, b + k, size)
<1>1. /\ k + size + 1 \in 1..(k + size + 2) /\ k + size + 2 \in 1..(k + size + 2)
      /\ \A i \in 1..size : k + i \in 1..(k + size + 2) /\ b + (k + i) = b + k + i
      /\ b + (k + size + 1) = b + k + size + 1 /\ b + (k + size + 2) = b + k + size + 2
  OBVIOUS
<1> QED BY <1>1 DEF PayloadAt

(* The chunks of a message begin behind the positions in B; behind the last one
   is the head of size zero. *)
Layout(w, ext, B, last) ==
  /\ B \subseteq 0..last /\ 0 \in B /\ last \in B
  /\ \A b \in B \ {last} : \E size \in Nat \ {0} :
       /\ HeadAt(w, ext, b, size) /\ PayloadAt(w, b + ext + 3, size)
       /\ b + ext + 5 + size \in B
  /\ HeadAt(w, ext, last, 0) /\ last + ext + 5 <= Len(w)
  /\ \A i \in (last + ext + 4)..Len(w) : w[i].kind \notin {"data", "size"}
  /\ \A i \in 1..Len(w) : w[i].kind = "size" => i - 1 \in B

LEMMA CRLFIs ==
  CRLF \in Seq(ByteType) /\ Len(CRLF) = 2 /\ CRLF[1].kind = "cr" /\ CRLF[2].kind = "lf"
<1>1. "cr" \in Kinds /\ "lf" \in Kinds
  BY DEF Kinds
<1> QED BY <1>1, ByteIs, TwoAre DEF CRLF

FourInARow(f, h, c, d) == ((f \o h) \o c) \o d

InARow(S, w, f, h, c, d, two) ==
  /\ w \in Seq(S) /\ Len(w) = Len(f) + Len(h) + two + Len(d)
  /\ \A i \in 1..Len(f) : w[i] = f[i]
  /\ \A i \in 1..Len(h) : w[Len(f) + i] = h[i]
  /\ \A i \in 1..two : w[Len(f) + Len(h) + i] = c[i]
  /\ \A i \in 1..Len(d) : w[Len(f) + Len(h) + two + i] = d[i]

LEMMA FourInARowIs ==
  ASSUME NEW S, NEW f \in Seq(S), NEW h \in Seq(S), NEW c \in Seq(S), NEW d \in Seq(S),
         NEW two \in Nat, Len(c) = two
  PROVE  InARow(S, FourInARow(f, h, c, d), f, h, c, d, two)
<1>0. PICK x \in Nat, y \in Nat, z \in Nat : x = Len(f) /\ y = Len(h) /\ z = Len(d)
  OBVIOUS
<1>n. two \in Nat
  OBVIOUS
<1>a. x + y \in Nat /\ x + y + two \in Nat
  BY <1>0
<1>b. PICK k \in Nat, l \in Nat : k = x + y /\ l = k + two
  BY <1>a
<1> DEFINE a == f \o h
           b == a \o c
           w == b \o d
<1>1. /\ a \in Seq(S) /\ Len(a) = x + y
      /\ \A i \in 1..x : a[i] = f[i]
      /\ \A i \in 1..y : a[x + i] = h[i]
  BY <1>0, ConcatIs
<1> HIDE DEF a
<1>2. /\ b \in Seq(S) /\ Len(b) = x + y + two
      /\ \A i \in 1..(x + y) : b[i] = a[i]
      /\ \A i \in 1..two : b[x + y + i] = c[i]
  <2>0. k \in Nat
    BY <1>b
  <2>1. a \in Seq(S) /\ Len(a) = k
    BY <1>1, <1>b
  <2>2. /\ b \in Seq(S) /\ Len(b) = k + two
        /\ \A i \in 1..k : b[i] = a[i]
        /\ \A i \in 1..two : b[k + i] = c[i]
    <3>1. Behind(S, a \o c, a, c, k, two)
      BY <2>0, <2>1, BehindIs
    <3> QED BY <3>1 DEF Behind
  <2> QED BY <2>2, <1>b
<1> HIDE DEF b
<1>3. /\ w \in Seq(S) /\ Len(w) = x + y + two + z
      /\ \A i \in 1..(x + y + two) : w[i] = b[i]
      /\ \A i \in 1..z : w[x + y + two + i] = d[i]
  <2>0. l \in Nat
    BY <1>b
  <2>1. b \in Seq(S) /\ Len(b) = l
    BY <1>2, <1>b
  <2>2. z \in Nat /\ Len(d) = z
    BY <1>0
  <2>3. /\ w \in Seq(S) /\ Len(w) = l + z
        /\ \A i \in 1..l : w[i] = b[i]
        /\ \A i \in 1..z : w[l + i] = d[i]
    <3>1. Behind(S, b \o d, b, d, l, z)
      BY <2>0, <2>1, <2>2, BehindIs
    <3> QED BY <3>1 DEF Behind
  <2> QED BY <2>3, <1>b
<1> HIDE DEF w
<1>4. ASSUME NEW i \in 1..x PROVE w[i] = f[i]
  <2>1. i \in 1..(x + y) /\ i \in 1..(x + y + two)
    BY <1>0, <1>n
  <2> QED BY <1>1, <1>2, <1>3, <2>1
<1>5. ASSUME NEW i \in 1..y PROVE w[x + i] = h[i]
  <2>1. x + i \in 1..(x + y) /\ x + i \in 1..(x + y + two)
    BY <1>0, <1>n
  <2> QED BY <1>1, <1>2, <1>3, <2>1
<1>6. ASSUME NEW i \in 1..two PROVE w[x + y + i] = c[i]
  <2>1. x + y + i \in 1..(x + y + two)
    BY <1>0, <1>n
  <2> QED BY <1>2, <1>3, <2>1
<1>7. /\ w \in Seq(S) /\ Len(w) = x + y + two + z
      /\ \A i \in 1..x : w[i] = f[i]
      /\ \A i \in 1..y : w[x + i] = h[i]
      /\ \A i \in 1..two : w[x + y + i] = c[i]
      /\ \A i \in 1..z : w[x + y + two + i] = d[i]
  BY <1>3, <1>4, <1>5, <1>6
<1>8. w = FourInARow(f, h, c, d)
  BY DEF w, b, a, FourInARow
<1>9. InARow(S, w, f, h, c, d, two)
  BY <1>0, <1>7 DEF InARow
<1> QED BY <1>8, <1>9

LEMMA ChunkKinds ==
  ASSUME NEW v, NEW ext \in Nat, NEW size \in Nat, HeadAt(v, ext, 0, size), PayloadAt(v, ext + 3, size),
         NEW k \in 1..(ext + 5 + size)
  PROVE  v[k].kind = "size" => k = 1
<1>1. CASE k \in 1..(ext + 3)
  <2>1. 0 \in Nat
    OBVIOUS
  <2>2. \A i \in 1..(ext + 3) : v[0 + i].kind = "size" <=> i = 1
    BY <2>1, HeadKinds
  <2>3. 0 + k = k
    OBVIOUS
  <2> QED BY <1>1, <2>2, <2>3
<1>2. CASE k \in (ext + 4)..(ext + 3 + size)
  <2>1. k - (ext + 3) \in 1..size /\ ext + 3 + (k - (ext + 3)) = k
    BY <1>2
  <2> QED BY <2>1 DEF PayloadAt
<1>3. CASE k = ext + 3 + size + 1 \/ k = ext + 3 + size + 2
  BY <1>3 DEF PayloadAt
<1> QED BY <1>1, <1>2, <1>3

LEMMA MessageIs ==
  ASSUME NEW m \in Messages
  PROVE  /\ m.framing \in {"chunked", "length", "closed"} /\ m.sizes \in Seq(Nat)
         /\ m.ext \in Nat /\ m.beyond \in Nat /\ WireOf[m] = Bytes(m)
         /\ m.framing # "chunked" => m.sizes[1] \in Nat
         /\ m.framing = "chunked" => \A i \in 1..Len(m.sizes) : m.sizes[i] \in Nat \ {0}
         /\ m.framing = "closed" => m.beyond = 0
<1>1. m \in MessageType
  BY ReaderAssumption
<1>2. /\ m.framing \in {"chunked", "length", "closed"} /\ m.sizes \in Seq(Nat)
      /\ m.ext \in Nat /\ m.beyond \in Nat
  BY <1>1 DEF MessageType
<1>3. m.framing # "chunked" => m.sizes[1] \in Nat
  <2>1. m.framing # "chunked" => Len(m.sizes) = 1
    BY ReaderAssumption
  <2>2. Len(m.sizes) = 1 => 1 \in 1..Len(m.sizes)
    OBVIOUS
  <2> QED BY <1>2, <2>1, <2>2
<1>4. m.framing = "chunked" => \A i \in 1..Len(m.sizes) : m.sizes[i] \in Nat \ {0}
  <2>1. m.framing = "chunked" => \A i \in 1..Len(m.sizes) : m.sizes[i] > 0
    BY ReaderAssumption
  <2>2. \A i \in 1..Len(m.sizes) : m.sizes[i] \in Nat
    BY <1>2
  <2> QED BY <2>1, <2>2
<1>5. m.framing = "closed" => m.beyond = 0
  BY ReaderAssumption
<1>6. WireOf[m] = Bytes(m)
  BY DEF WireOf
<1> QED BY <1>2, <1>3, <1>4, <1>5, <1>6

LEMMA ChunkedLayout ==
  ASSUME NEW m \in Messages, m.framing = "chunked"
  PROVE  /\ WireOf[m] \in Seq(ByteType)
         /\ \E B, last : Layout(WireOf[m], m.ext, B, last)
<1> DEFINE ext    == m.ext
           n      == Len(m.sizes)
           beyond == m.beyond
           chunks == [i \in 1..n |-> Chunk(m, m.sizes[i])]
           f      == FlattenSeq(chunks)
           h      == ChunkHead(m, 0)
           d      == Times(beyond, Byte("beyond"))
           w      == ((f \o h) \o CRLF) \o d
<1>1. /\ ext \in Nat /\ beyond \in Nat /\ n \in Nat
      /\ \A i \in 1..n : m.sizes[i] \in Nat \ {0}
  BY MessageIs
<1>2. \A i \in 1..n : /\ Chunk(m, m.sizes[i]) \in Seq(ByteType)
                      /\ Len(Chunk(m, m.sizes[i])) = ext + 5 + m.sizes[i]
                      /\ HeadAt(Chunk(m, m.sizes[i]), ext, 0, m.sizes[i])
                      /\ PayloadAt(Chunk(m, m.sizes[i]), ext + 3, m.sizes[i])
  BY <1>1, ChunkIs
<1>3. WireOf[m] = w
  BY MessageIs DEF Bytes
<1>4. chunks \in Seq(Seq(ByteType)) /\ Len(chunks) = n /\ \A i \in 1..n : chunks[i] = Chunk(m, m.sizes[i])
  <2> DEFINE C(i) == Chunk(m, m.sizes[i])
  <2>1. \A i \in 1..n : C(i) \in Seq(ByteType)
    BY <1>2
  <2> HIDE DEF C
  <2>2. [i \in 1..n |-> C(i)] \in Seq(Seq(ByteType)) /\ Len([i \in 1..n |-> C(i)]) = n
    BY <1>1, <2>1
  <2> QED BY <2>2 DEF C
<1>5. h \in Seq(ByteType) /\ Len(h) = ext + 3 /\ HeadAt(h, ext, 0, 0)
  BY <1>1, HeadIs
<1>6. d \in Seq(ByteType) /\ Len(d) = beyond /\ \A i \in 1..beyond : d[i].kind = "beyond"
  <2>1. "beyond" \in Kinds
    BY DEF Kinds
  <2> QED BY <1>1, <2>1, TimesIs
<1>7. f \in Seq(ByteType)
  BY <1>4, FlattenType
<1>8. PICK at : Parts(at, chunks)
  BY <1>4, FlattenParts
<1> HIDE DEF n, ext, beyond, chunks, f, h, d
<1>9. PICK last \in Nat : last = Len(f)
  BY <1>7
<1>10. /\ w \in Seq(ByteType) /\ Len(w) = last + ext + 5 + beyond
       /\ \A i \in 1..last : w[i] = f[i]
       /\ \A i \in 1..(ext + 3) : w[last + i] = h[i]
       /\ w[last + ext + 4] = CRLF[1] /\ w[last + ext + 5] = CRLF[2]
       /\ \A i \in 1..beyond : w[last + ext + 5 + i] = d[i]
  <2> DEFINE two == 2
  <2>1. two \in Nat /\ CRLF \in Seq(ByteType) /\ Len(CRLF) = two
    BY CRLFIs
  <2>2. two = 2
    OBVIOUS
  <2> HIDE DEF two
  <2>3. /\ w \in Seq(ByteType) /\ Len(w) = Len(f) + Len(h) + two + Len(d)
        /\ \A i \in 1..Len(f) : w[i] = f[i]
        /\ \A i \in 1..Len(h) : w[Len(f) + i] = h[i]
        /\ \A i \in 1..two : w[Len(f) + Len(h) + i] = CRLF[i]
        /\ \A i \in 1..Len(d) : w[Len(f) + Len(h) + two + i] = d[i]
    <3>1. w = FourInARow(f, h, CRLF, d)
      BY DEF FourInARow
    <3>2. f \in Seq(ByteType) /\ h \in Seq(ByteType) /\ d \in Seq(ByteType)
      BY <1>5, <1>6, <1>7
    <3> HIDE DEF w
    <3> DEFINE c == CRLF
    <3>3. c \in Seq(ByteType) /\ Len(c) = two /\ two \in Nat
      BY <2>1
    <3> HIDE DEF c
    <3>4. InARow(ByteType, FourInARow(f, h, c, d), f, h, c, d, two)
      BY <3>2, <3>3, FourInARowIs
    <3> QED BY <3>1, <3>4 DEF InARow, c
  <2> HIDE DEF w
  <2>4. 1 \in 1..two /\ 2 \in 1..two
    BY <2>2
  <2>5. /\ Len(f) + Len(h) = last + ext + 3 /\ Len(f) + Len(h) + two = last + ext + 5
        /\ Len(f) + Len(h) + 1 = last + ext + 4 /\ Len(f) + Len(h) + 2 = last + ext + 5
    BY <1>1, <1>5, <1>9, <2>2
  <2>6. w[last + ext + 4] = CRLF[1] /\ w[last + ext + 5] = CRLF[2]
    BY <2>3, <2>4, <2>5
  <2> QED BY <1>5, <1>6, <1>9, <2>3, <2>5, <2>6
<1> HIDE DEF w
<1> DEFINE B == { at[i] : i \in 1..(n + 1) }
<1>11. /\ at \in [1..(n + 1) -> Nat] /\ at[1] = 0 /\ at[n + 1] = last
       /\ \A i \in 1..n : /\ at[i + 1] = at[i] + Len(chunks[i]) /\ at[i + 1] <= last
                          /\ \A k \in 1..Len(chunks[i]) : f[at[i] + k] = chunks[i][k]
       /\ \A p \in 1..last : \E i \in 1..n : \E k \in 1..Len(chunks[i]) : p = at[i] + k
  BY <1>4, <1>8, <1>9 DEF Parts, f
<1>12. B \subseteq 0..last /\ 0 \in B /\ last \in B
  <2>1. ASSUME NEW i \in 1..(n + 1) PROVE at[i] \in 0..last
    <3>1. CASE i = 1
      BY <1>9, <1>11, <3>1
    <3>2. CASE i # 1
      <4>1. i - 1 \in 1..n /\ (i - 1) + 1 = i
        BY <1>1, <3>2
      <4> QED BY <1>11, <4>1
    <3> QED BY <3>1, <3>2
  <2>2. 1 \in 1..(n + 1) /\ n + 1 \in 1..(n + 1)
    BY <1>1
  <2> QED BY <1>11, <2>1, <2>2
<1>13. ASSUME NEW i \in 1..n
       PROVE  /\ HeadAt(w, ext, at[i], m.sizes[i]) /\ PayloadAt(w, at[i] + (ext + 3), m.sizes[i])
              /\ at[i + 1] = at[i] + ext + 5 + m.sizes[i]
              /\ \A k \in 1..(ext + 5 + m.sizes[i]) : w[at[i] + k] = Chunk(m, m.sizes[i])[k]
  <2> DEFINE v    == Chunk(m, m.sizes[i])
             size == m.sizes[i]
             b    == at[i]
  <2>1. size \in Nat /\ b \in Nat
    <3>1. i \in 1..(n + 1)
      BY <1>1
    <3> QED BY <1>1, <1>11, <3>1
  <2>a. chunks[i] = v
    BY <1>4
  <2>2. /\ Len(chunks[i]) = ext + 5 + size /\ HeadAt(v, ext, 0, size) /\ PayloadAt(v, ext + 3, size)
    BY <1>2, <2>a
  <2>b. /\ at[i + 1] = b + Len(chunks[i]) /\ at[i + 1] <= last
        /\ \A k \in 1..Len(chunks[i]) : f[b + k] = v[k]
    BY <1>11, <2>a
  <2> HIDE DEF v, size, b
  <2>3. at[i + 1] = b + ext + 5 + size /\ b + ext + 5 + size <= last
    BY <1>1, <2>1, <2>2, <2>b
  <2>4. ASSUME NEW k \in 1..(ext + 5 + size) PROVE w[b + k] = v[k]
    <3>1. b + k \in 1..last
      BY <1>1, <1>9, <2>1, <2>3
    <3>2. f[b + k] = v[k]
      BY <2>2, <2>b
    <3> QED BY <1>10, <3>1, <3>2
  <2>5. HeadAt(w, ext, b, size)
    <3>1. \A k \in 1..(ext + 3) : k \in 1..(ext + 5 + size)
      BY <1>1, <2>1
    <3> QED BY <1>1, <2>1, <2>2, <2>4, <3>1, HeadShift
  <2>6. PayloadAt(w, b + (ext + 3), size)
    <3>1. ext + 3 \in Nat /\ ext + 3 + size + 2 = ext + 5 + size
      BY <1>1, <2>1
    <3> QED BY <2>1, <2>2, <2>4, <3>1, PayloadShift
  <2> QED BY <2>1, <2>3, <2>4, <2>5, <2>6 DEF v, size, b
<1>14. ASSUME NEW b \in B, b # last
       PROVE  \E size \in Nat \ {0} :
                /\ HeadAt(w, ext, b, size) /\ PayloadAt(w, b + ext + 3, size)
                /\ b + ext + 5 + size \in B
  <2>1. PICK i \in 1..(n + 1) : b = at[i]
    OBVIOUS
  <2>2. i \in 1..n /\ i + 1 \in 1..(n + 1) /\ b \in Nat
    <3>1. i # n + 1
      BY <1>11, <1>14, <2>1
    <3>2. b \in Nat
      BY <1>11, <2>1
    <3> QED BY <1>1, <3>1, <3>2
  <2>3. at[i + 1] \in B
    BY <2>2
  <2>4. b + (ext + 3) = b + ext + 3
    BY <1>1, <2>2
  <2>5. m.sizes[i] \in Nat \ {0}
    BY <1>1, <2>2
  <2> HIDE DEF B
  <2> QED BY <1>13, <2>1, <2>2, <2>3, <2>4, <2>5
<1>15. HeadAt(w, ext, last, 0)
  BY <1>1, <1>5, <1>9, <1>10, HeadShift
<1>16. ASSUME NEW i \in (last + ext + 4)..Len(w)
       PROVE  w[i].kind \notin {"data", "size"}
  <2>1. CRLF[1].kind = "cr" /\ CRLF[2].kind = "lf"
    BY CRLFIs
  <2>2. CASE i = last + ext + 4 \/ i = last + ext + 5
    BY <1>10, <2>1, <2>2
  <2>3. CASE ~(i = last + ext + 4 \/ i = last + ext + 5)
    <3>0. /\ i \in Int /\ i >= last + ext + 4 /\ i <= last + ext + 5 + beyond
          /\ last \in Nat /\ ext \in Nat /\ beyond \in Nat
      BY <1>1, <1>9, <1>10
    <3>1. i - (last + ext + 5) \in 1..beyond /\ last + ext + 5 + (i - (last + ext + 5)) = i
      BY <2>3, <3>0
    <3> QED BY <1>6, <1>10, <3>1
  <2> QED BY <2>2, <2>3
<1>17. ASSUME NEW p \in 1..Len(w), w[p].kind = "size"
       PROVE  p - 1 \in B
  <2>1. CASE p <= last
    <3>1. PICK i \in 1..n : \E k \in 1..Len(chunks[i]) : p = at[i] + k
      BY <1>9, <1>11, <2>1
    <3>2. PICK k \in 1..Len(chunks[i]) : p = at[i] + k
      BY <3>1
    <3>3. k \in 1..(ext + 5 + m.sizes[i])
      BY <1>2, <1>4
    <3>4. Chunk(m, m.sizes[i])[k].kind = "size"
      BY <1>13, <1>17, <3>2, <3>3
    <3>5. k = 1
      <4> DEFINE v    == Chunk(m, m.sizes[i])
                 size == m.sizes[i]
      <4>1. /\ size \in Nat /\ HeadAt(v, ext, 0, size) /\ PayloadAt(v, ext + 3, size)
            /\ v[k].kind = "size"
        BY <1>1, <1>2, <3>4
      <4>2. k \in 1..(ext + 5 + size)
        BY <3>3
      <4> HIDE DEF v, size
      <4> QED BY <1>1, <4>1, <4>2, ChunkKinds
    <3>6. at[i] \in B /\ at[i] \in Nat
      <4>1. i \in 1..(n + 1)
        BY <1>1
      <4> QED BY <1>11, <4>1
    <3> HIDE DEF B
    <3> QED BY <3>2, <3>5, <3>6
  <2>2. CASE ~(p <= last)
    <3>1. ~(p \in (last + ext + 4)..Len(w))
      BY <1>16, <1>17
    <3>2. p \in Nat /\ p - last \in 1..(ext + 3) /\ last + (p - last) = p
      BY <1>1, <1>9, <1>10, <2>2, <3>1
    <3>3. \A i \in 1..(ext + 3) : w[last + i].kind = "size" <=> i = 1
      <4>1. 0 \in Nat /\ ext \in Nat /\ last \in Nat
        BY <1>1, <1>9
      <4> QED BY <1>15, <4>1, HeadKinds
    <3>4. p - last = 1
      BY <1>17, <3>2, <3>3
    <3>5. p - 1 = last
      BY <1>9, <3>2, <3>4
    <3> QED BY <1>12, <3>5
  <2> QED BY <2>1, <2>2
<1>18. last + ext + 5 <= Len(w)
  BY <1>1, <1>9, <1>10
<1> HIDE DEF B
<1>19. Layout(w, ext, B, last)
  BY <1>12, <1>14, <1>15, <1>16, <1>17, <1>18 DEF Layout
<1> QED BY <1>3, <1>10, <1>19 DEF ext

LEMMA PlainLayout ==
  ASSUME NEW m \in Messages, m.framing # "chunked"
  PROVE  /\ WireOf[m] \in Seq(ByteType) /\ Len(WireOf[m]) = m.sizes[1] + m.beyond
         /\ BodyOf[m] = 1..m.sizes[1]
<1> DEFINE n == m.sizes[1]
           k == m.beyond
           a == Times(n, Byte("data"))
           b == Times(k, Byte("beyond"))
           w == a \o b
<1>1. n \in Nat /\ k \in Nat /\ WireOf[m] = w
  BY MessageIs DEF Bytes
<1>2. a \in Seq(ByteType) /\ Len(a) = n /\ \A i \in 1..n : a[i].kind = "data"
  <2>1. "data" \in Kinds
    BY DEF Kinds
  <2> QED BY <1>1, <2>1, TimesIs
<1>3. b \in Seq(ByteType) /\ Len(b) = k /\ \A i \in 1..k : b[i].kind = "beyond"
  <2>1. "beyond" \in Kinds
    BY DEF Kinds
  <2> QED BY <1>1, <2>1, TimesIs
<1> HIDE DEF n, k, a, b
<1>4. /\ w \in Seq(ByteType) /\ Len(w) = n + k
      /\ \A i \in 1..n : w[i] = a[i]
      /\ \A i \in 1..k : w[n + i] = b[i]
  <2>1. a \in Seq(ByteType) /\ Len(a) = n
    BY <1>2
  <2>2. b \in Seq(ByteType) /\ Len(b) = k
    BY <1>3
  <2>3. n \in Nat /\ k \in Nat
    BY <1>1
  <2>4. Behind(ByteType, a \o b, a, b, n, k)
    BY <2>1, <2>2, <2>3, BehindIs
  <2> QED BY <2>4 DEF Behind
<1> HIDE DEF w
<1>5. ASSUME NEW i \in 1..Len(w) PROVE w[i].kind = "data" <=> i \in 1..n
  <2>1. CASE i \in 1..n
    BY <1>2, <1>4, <2>1
  <2>2. CASE ~(i \in 1..n)
    <3>1. i - n \in 1..k /\ n + (i - n) = i
      BY <1>1, <1>4, <2>2
    <3>2. w[i].kind = "beyond"
      BY <1>3, <1>4, <3>1
    <3> QED BY <2>2, <3>2
  <2> QED BY <2>1, <2>2
<1>6. { i \in 1..Len(w) : w[i].kind = "data" } = 1..n
  <2>1. \A i \in 1..n : i \in 1..Len(w)
    BY <1>1, <1>4
  <2> QED BY <1>5, <2>1
<1> QED BY <1>1, <1>4, <1>6 DEF BodyOf, n, k

LEMMA WireType ==
  ASSUME NEW m \in Messages
  PROVE  WireOf[m] \in Seq(ByteType)
BY ChunkedLayout, PlainLayout

-----------------------------------------------------------------------------
(* The invariant of the reader. *)

(* The body has been returned up to here. *)
Pos ==
  LET s == read_state IN
  IF s.start # 0 THEN taken - s.end + s.start
  ELSE IF s.end # 0 THEN taken - s.expect
  ELSE taken - rewind_buf_size

(* Behind these positions stands a chunk head. *)
StartsOf == [m \in Messages |-> { b \in 0..(Len(WireOf[m]) - 1) : WireOf[m][b + 1].kind = "size" }]
Starts   == StartsOf[message]

Size == message.sizes[1]

(* A chunk head begins in the buffer, the buffer was read to the end of a chunk,
   or to somewhere within its payload or its CR LF. *)
HeadInBuffer ==
  LET s == read_state
      start == IF s.start # 0 THEN s.start ELSE s.end - s.expect
  IN  /\ Pos \in Starts /\ rewind_buf_size = 0
      /\ \A i \in 1..(s.end - start) : body_buffer[start + i] = Pos + i
ChunkAwaited ==
  LET expect == read_state.expect IN
  /\ rewind_buf_size = 0 /\ taken + expect \in Starts
  /\ \A i \in 1..expect : wire[taken + i].kind = "data" <=> i <= expect - 2

ReadsChunks ==
  /\ framing = "chunked"
  /\ Pos \in Nat /\ IsBodyUpTo(delivered, Pos)
  /\ read_state.end # 0 => HeadInBuffer
  /\ read_state.end = 0 /\ read_state.expect = 0 => Pos \in Starts
  /\ read_state.end = 0 /\ read_state.expect # 0 => ChunkAwaited

ReadsPartially ==
  /\ framing = "length" /\ read_state.end = 0 /\ read_state.start = 0
  /\ read_state.read = Pos
  /\ read_state.expect > 0 /\ read_state.read + read_state.expect = Size

ReadsUntilClosed ==
  /\ framing = "closed" /\ read_state.end = 0 /\ read_state.start = 0
  /\ read_state.read = Pos

ReaderInv ==
  /\ rewind_buf_size > 0 =>
       /\ taken = rewind_buf_size /\ delivered = <<>> /\ read_state = Initial(Meant(message))
       /\ \A i \in 1..rewind_buf_size : body_buffer[i] = i
  /\ read_state.read = Len(delivered)
  /\ framing # "chunked" => /\ \A i \in DOMAIN delivered : delivered[i] = i
                            /\ read_state.read <= taken /\ read_state.read <= Size
  /\ read_state.is = "chunked" => ReadsChunks
  /\ read_state.is = "partial" => ReadsPartially
  /\ read_state.is = "http10"  => ReadsUntilClosed
  /\ Finished => PartOfBody(delivered)
  /\ read_state.is = "completed" => Whole /\ WholeBody(delivered)
                                    /\ (framing = "length" => read_state.read = Size)
  /\ read_state.is = "done" => (closes /\ taken = cut /\ ~Whole) \/ LongHeads

-----------------------------------------------------------------------------
(* The invariant of the relay. *)
Slices(ts) == [i \in 1..Len(ts) |-> ts[i].slice]
Waiting(ts) == FlattenSeq(Slices(ts))

(* Only the last task ends the body, or fails. *)
TasksInv ==
  \A i \in 1..Len(tasks) :
    /\ tasks[i].end => i = Len(tasks) /\ tasks[i].is = "body" /\ read_state.is = "completed"
    /\ tasks[i].is = "failed" =>
         i = Len(tasks) /\ read_state.is = "done" /\ tasks[i].slice = <<>>

(* While it is written, the body is written as it is meant, so far as it came. *)
WriterAgrees(w) ==
  /\ w.is \in {w.meant.is, "closed"} /\ (w.meant.is = "chunked" => w.is = "chunked")
  /\ w.is = "length" => w.total = w.meant.n /\ w.written = Len(w.got)
  /\ w.ended <=> w.meant.is = "length" /\ Len(w.got) = w.meant.n
  /\ ~w.stray

(* An empty task of chunks is the last one, unless the reader made it hollow. *)
EmptyTaskEnds ==
  framing = "chunked" /\ ~hollow =>
    \A i \in 1..Len(tasks) : tasks[i].is = "body" => (tasks[i].end <=> tasks[i].slice = <<>>)

WriterInv ==
  WriterAgrees(writer) /\ writer.got \o Waiting(tasks) = delivered /\ EmptyTaskEnds

(* The framing is the one the head means, on both sides. *)
HeadInv ==
  /\ Meant(message) = IF direction = "request" THEN RequestMeant(head.request)
                      ELSE ResponseMeant(head.request, head.response)
  /\ writer.meant = Meant(message)

Good    == ~overlapped /\ ~Misread
Regular == Good /\ ~Unframed /\ ~HollowRequest

GoodInv ==
  /\ ReaderInv
  /\ outcome = "running" => TasksInv
  /\ hollow => framing = "chunked"
  /\ direction = "request" /\ framing = "chunked" => writer.is # "length" /\ outcome # "error"

(* What holds once the writing side is through. *)
Settled ==
  /\ PartOfBody(writer.got) /\ ~writer.stray
  /\ writer.ended \/ outcome = "done" => WholeBody(writer.got)
  /\ outcome = "error" => ~Whole \/ LongHeads

RelayInv ==
  /\ HeadInv
  /\ Good => GoodInv
  /\ Regular /\ outcome = "running" => WriterInv
  /\ Regular /\ outcome # "running" => Settled

-----------------------------------------------------------------------------
(* The types. *)
ReadStateType ==
  [is : {"chunked", "partial", "http10", "completed", "done"},
   read : Nat, start : Nat, end : Nat, expect : Nat]

ReadStateFits(s, length) ==
  /\ s \in ReadStateType /\ s.end <= length
  /\ s.start # 0 => s.start < s.end
  /\ s.start = 0 /\ s.end # 0 => s.expect \in 1..s.end

ReturnType == [is : {"nothing", "some", "none", "error"}, slice : Seq(Nat)]

ReaderType ==
  /\ message \in Messages /\ cut \in 0..Len(wire) /\ closes \in BOOLEAN /\ taken \in 0..cut
  /\ body_buffer \in Seq(Nat) /\ \A i \in 1..Len(body_buffer) : body_buffer[i] <= taken
  /\ rewind_buf_size \in 0..Len(body_buffer)
  /\ ReadStateFits(read_state, Len(body_buffer))
  /\ returned \in ReturnType /\ (returned.is # "some" => returned.slice = <<>>)
  /\ delivered \in Seq(Nat)
  /\ overlapped \in BOOLEAN

(* What a head that is parsed may turn out to be. *)
LEMMA MinIs ==
  ASSUME NEW T, T \subseteq Nat, T # {}
  PROVE  Min(T) \in T /\ \A m \in T : Min(T) <= m
<1>1. \E n \in T : \A m \in T : n <= m
  BY LeastNat
<1> QED BY <1>1 DEF Min

LEMMA ParsedIs ==
  ASSUME message \in Messages,
         NEW b \in Seq(Nat), Len(b) >= 1, \A i \in 1..Len(b) : b[i] <= Len(wire)
  PROVE  LET status == ParseChunkSize(b) IN
         \/ status.is = "error"
         \/ status.is = "partial"
         \/ status.is = "complete" /\ status.payload \in 1..Len(b) /\ status.size \in Nat
<1> DEFINE ends == { i \in 1..Len(b) : Kind(b[i]) = "lf" }
           end  == IF ends = {} THEN Len(b) ELSE Min(ends)
           illegal == \E i \in 1..end : ~MayFollow(IF i = 1 THEN "start" ELSE Kind(b[i - 1]), Kind(b[i]))
<1>1. ParseChunkSize(b) = IF illegal THEN [is |-> "error"]
                          ELSE IF ends = {} THEN [is |-> "partial"]
                          ELSE [is |-> "complete", payload |-> end, size |-> wire[b[1]].n]
  BY DEF ParseChunkSize
<1>2. end \in 1..Len(b)
  <2>1. ends \subseteq Nat
    OBVIOUS
  <2>2. CASE ends = {}
    BY <2>2
  <2>3. CASE ends # {}
    <3>1. Min(ends) \in ends
      BY <2>1, <2>3, MinIs
    <3> QED BY <2>3, <3>1
  <2> QED BY <2>2, <2>3
<1>3. ~illegal => wire[b[1]].n \in Nat
  <2> SUFFICES ASSUME ~illegal PROVE wire[b[1]].n \in Nat
    OBVIOUS
  <2>1. MayFollow("start", Kind(b[1]))
    <3> HIDE DEF end
    <3>1. 1 \in 1..end
      BY <1>2
    <3> QED BY <3>1
  <2>2. Kind(b[1]) = "size"
    BY <2>1 DEF MayFollow
  <2>3. b[1] # 0
    BY <2>2 DEF Kind
  <2>4. b[1] \in 1..Len(wire)
    BY <2>3
  <2>5. wire \in Seq(ByteType)
    BY WireType DEF wire
  <2>6. wire[b[1]] \in ByteType
    <3> DEFINE w == wire
    <3>1. w \in Seq(ByteType) /\ b[1] \in 1..Len(w)
      BY <2>4, <2>5
    <3> HIDE DEF w
    <3>2. w[b[1]] \in ByteType
      BY <3>1
    <3> QED BY <3>2 DEF w
  <2> QED BY <2>6 DEF ByteType
<1> HIDE DEF end, illegal, ends
<1> QED BY <1>1, <1>2, <1>3

-----------------------------------------------------------------------------
(* The reader's steps keep the types. *)
LEMMA SomeIs ==
  ASSUME NEW buffer \in Seq(Nat), NEW start \in Nat, NEW len \in Nat, start + len <= Len(buffer),
         delivered \in Seq(Nat), Some(buffer, start, len)
  PROVE  /\ returned' \in ReturnType /\ returned'.is = "some"
         /\ returned'.slice \in Seq(Nat) /\ Len(returned'.slice) = len
         /\ \A i \in 1..len : returned'.slice[i] = buffer[start + i]
         /\ delivered' = delivered \o returned'.slice /\ delivered' \in Seq(Nat)
<1> DEFINE slice == SubSeq(buffer, start + 1, start + len)
<1>1. returned' = [is |-> "some", slice |-> slice] /\ delivered' = delivered \o slice
  BY DEF Some
<1>2. /\ slice \in Seq(Nat) /\ Len(slice) = len
      /\ \A i \in 1..len : slice[i] = buffer[start + i]
  <2>1. /\ start + 1 \in Nat /\ start + len \in Nat /\ start + 1 >= 1
        /\ start + 1 <= start + len + 1 /\ start + len - (start + 1) + 1 = len
        /\ \A i \in 1..len : start + 1 + i - 1 = start + i
    OBVIOUS
  <2>2. PICK m \in Nat, n \in Nat : m = start + 1 /\ n = start + len
    BY <2>1
  <2>3. /\ SubSeq(buffer, m, n) \in Seq(Nat) /\ Len(SubSeq(buffer, m, n)) = n - m + 1
        /\ \A i \in 1..(n - m + 1) : SubSeq(buffer, m, n)[i] = buffer[m + i - 1]
    <3>1. m >= 1 /\ n <= Len(buffer) /\ m <= n + 1
      BY <2>1, <2>2
    <3>2. Excerpt(Nat, SubSeq(buffer, m, n), buffer, m, n)
      BY <3>1, ExcerptIs
    <3> QED BY <3>2 DEF Excerpt
  <2>4. n - m + 1 = len /\ \A i \in 1..len : m + i - 1 = start + i
    BY <2>1, <2>2
  <2>5. slice = SubSeq(buffer, m, n)
    BY <2>2
  <2> HIDE DEF slice
  <2> QED BY <2>3, <2>4, <2>5
<1> HIDE DEF slice
<1>3. returned'.slice = slice /\ returned'.is = "some" /\ returned' \in ReturnType
  BY <1>1, <1>2 DEF ReturnType
<1>4. delivered' \in Seq(Nat)
  BY <1>1, <1>2
<1> QED BY <1>1, <1>2, <1>3, <1>4

LEMMA NothingIs ==
  ASSUME NEW is \in {"none", "error"}, delivered \in Seq(Nat), Nothing(is)
  PROVE  /\ returned' \in ReturnType /\ returned'.is = is /\ returned'.slice = <<>>
         /\ delivered' = delivered
BY DEF Nothing, ReturnType

LEMMA FilledIs ==
  ASSUME NEW buffer \in Seq(Nat), NEW on \in Nat, NEW n \in Nat, taken \in Nat
  PROVE  /\ Filled(buffer, on, n) \in Seq(Nat) /\ Len(Filled(buffer, on, n)) = Len(buffer)
         /\ \A i \in 1..Len(buffer) :
              Filled(buffer, on, n)[i] = IF i \in (on + 1)..(on + n) THEN taken + i - on ELSE buffer[i]
<1> DEFINE F(i) == IF i \in (on + 1)..(on + n) THEN taken + i - on ELSE buffer[i]
<1>1. \A i \in 1..Len(buffer) : F(i) \in Nat
  OBVIOUS
<1>2. Filled(buffer, on, n) = [i \in 1..Len(buffer) |-> F(i)]
  BY DEF Filled
<1> HIDE DEF F
<1>3. /\ Filled(buffer, on, n) \in Seq(Nat) /\ Len(Filled(buffer, on, n)) = Len(buffer)
      /\ \A i \in 1..Len(buffer) : Filled(buffer, on, n)[i] = F(i)
  BY <1>1, <1>2
<1> QED BY <1>3 DEF F

LEMMA ReceivedIs ==
  ASSUME ReaderType, NEW on \in 0..Len(body_buffer), NEW n \in Received(on)
  PROVE  /\ n \in Nat /\ taken + n <= cut /\ on + n <= Len(body_buffer)
         /\ n = 0 => closes /\ taken = cut
<1>1. taken \in Nat /\ cut \in Nat /\ taken <= cut
  <2>1. Len(wire) \in Nat
    BY WireType DEF ReaderType, wire
  <2> QED BY <2>1 DEF ReaderType
<1>2. Len(body_buffer) \in Nat
  BY DEF ReaderType
<1> QED BY <1>1, <1>2 DEF Received

LEMMA ReadFreshIs ==
  ASSUME ReaderType, NEW n \in Nat, ReadFresh(n)
  PROVE  /\ rewind_buf_size' = 0
         /\ body_buffer' \in Seq(Nat) /\ Len(body_buffer') = Len(body_buffer)
         /\ \A i \in 1..Len(body_buffer) : body_buffer'[i] <= taken'
         /\ taken' \in taken..cut /\ n <= Len(body_buffer) /\ taken' = taken + n - rewind_buf_size
         /\ n = 0 => closes /\ taken = cut /\ rewind_buf_size = 0
         /\ (rewind_buf_size > 0 => \A i \in 1..rewind_buf_size : body_buffer[i] = taken - rewind_buf_size + i)
              => \A i \in 1..n : body_buffer'[i] = taken - rewind_buf_size + i
<1>1. taken \in Nat /\ cut \in Nat /\ taken <= cut /\ rewind_buf_size \in 0..Len(body_buffer)
  <2>1. Len(wire) \in Nat
    BY WireType DEF ReaderType, wire
  <2> QED BY <2>1 DEF ReaderType
<1>2. /\ body_buffer \in Seq(Nat) /\ Len(body_buffer) \in Nat
      /\ \A i \in 1..Len(body_buffer) : body_buffer[i] <= taken /\ body_buffer[i] \in Nat
  BY DEF ReaderType
<1>3. CASE rewind_buf_size > 0
  BY <1>1, <1>2, <1>3 DEF ReadFresh
<1>4. CASE ~(rewind_buf_size > 0)
  <2>1. /\ n \in Received(0) /\ body_buffer' = Filled(body_buffer, 0, n)
        /\ taken' = taken + n /\ rewind_buf_size' = 0
    BY <1>4 DEF ReadFresh
  <2>2. /\ taken + n <= cut /\ 0 + n <= Len(body_buffer) /\ (n = 0 => closes /\ taken = cut)
    <3>1. 0 \in 0..Len(body_buffer)
      BY <1>2
    <3> QED BY <2>1, <3>1, ReceivedIs
  <2>3. /\ body_buffer' \in Seq(Nat) /\ Len(body_buffer') = Len(body_buffer)
        /\ \A i \in 1..Len(body_buffer) :
             body_buffer'[i] = IF i \in (0 + 1)..(0 + n) THEN taken + i - 0 ELSE body_buffer[i]
    <3>1. 0 \in Nat
      OBVIOUS
    <3> QED BY <1>1, <1>2, <2>1, <3>1, FilledIs
  <2>4. rewind_buf_size = 0
    BY <1>1, <1>4
  <2>5. \A i \in 1..Len(body_buffer) : body_buffer'[i] <= taken'
    BY <1>1, <1>2, <2>1, <2>3
  <2>6. \A i \in 1..n : body_buffer'[i] = taken - 0 + i
    BY <1>1, <1>2, <2>2, <2>3
  <2>7. /\ taken' \in taken..cut /\ n <= Len(body_buffer) /\ taken' = taken + n - 0
    BY <1>1, <1>2, <2>1, <2>2
  <2> QED BY <2>1, <2>2, <2>3, <2>4, <2>5, <2>6, <2>7
<1> QED BY <1>3, <1>4

(* What a chunked call leaves is of its type, for the buffer it leaves. *)
CallFits(length) ==
  /\ ReadStateFits(read_state', length)
  /\ returned' \in ReturnType /\ (returned'.is # "some" => returned'.slice = <<>>)
  /\ delivered' \in Seq(Nat)

LEMMA SizedIs ==
  ASSUME NEW is \in {"chunked", "partial", "http10", "completed", "done"},
         NEW read \in Nat, NEW expect \in Nat, NEW length \in Nat
  PROVE  ReadStateFits(Sized(is, read, expect), length)
BY DEF ReadStateFits, Sized, ReadStateType

LEMMA ChunkedIs ==
  ASSUME NEW read \in Nat, NEW start \in Nat, NEW end \in Nat, NEW expect \in Nat, NEW length \in Nat,
         end <= length, start # 0 => start < end, start = 0 /\ end # 0 => expect \in 1..end
  PROVE  ReadStateFits(Chunked(read, start, end, expect), length)
BY DEF ReadStateFits, Chunked, ReadStateType

LEMMA ParseFits ==
  ASSUME message \in Messages, delivered \in Seq(Nat), read_state.read \in Nat,
         NEW buffer \in Seq(Nat), \A i \in 1..Len(buffer) : buffer[i] <= Len(wire),
         NEW start \in Nat, NEW end \in Nat, start < end, end <= Len(buffer),
         ParseChunkedBuf(buffer, start, end)
  PROVE  CallFits(Len(buffer))
<1> DEFINE b      == SubSeq(buffer, start + 1, end)
           status == ParseChunkSize(b)
           read   == read_state.read
           length == Len(buffer)
           l       == Len(b)
           payload == status.payload
           size    == status.size
           actual  == IF payload + size > l THEN l - payload ELSE size
<1>0. read \in Nat /\ length \in Nat
  OBVIOUS
<1>1. /\ b \in Seq(Nat) /\ Len(b) = end - start
      /\ \A i \in 1..(end - start) : b[i] = buffer[start + i]
  <2>1. /\ start + 1 \in Nat /\ start + 1 >= 1 /\ start + 1 <= end + 1
        /\ end - (start + 1) + 1 = end - start
        /\ \A i \in 1..(end - start) : start + 1 + i - 1 = start + i
    OBVIOUS
  <2>2. PICK m \in Nat : m = start + 1
    BY <2>1
  <2>3. /\ SubSeq(buffer, m, end) \in Seq(Nat) /\ Len(SubSeq(buffer, m, end)) = end - m + 1
        /\ \A i \in 1..(end - m + 1) : SubSeq(buffer, m, end)[i] = buffer[m + i - 1]
    <3>1. m >= 1 /\ end <= Len(buffer) /\ m <= end + 1 /\ end \in Nat
      BY <2>1, <2>2
    <3>2. Excerpt(Nat, SubSeq(buffer, m, end), buffer, m, end)
      BY <3>1, ExcerptIs
    <3> QED BY <3>2 DEF Excerpt
  <2>4. end - m + 1 = end - start /\ \A i \in 1..(end - start) : m + i - 1 = start + i
    BY <2>1, <2>2
  <2>5. b = SubSeq(buffer, m, end)
    BY <2>2
  <2> HIDE DEF b
  <2> QED BY <2>3, <2>4, <2>5
<1>2. \/ status.is = "error"
      \/ status.is = "partial"
      \/ status.is = "complete" /\ status.payload \in 1..Len(b) /\ status.size \in Nat
  <2>1. Len(b) >= 1
    BY <1>1
  <2>2. \A i \in 1..Len(b) : b[i] <= Len(wire)
    <3>1. \A i \in 1..(end - start) : start + i \in 1..Len(buffer)
      OBVIOUS
    <3> HIDE DEF b
    <3> QED BY <1>1, <3>1
  <2> HIDE DEF b
  <2> QED BY <1>1, <2>1, <2>2, ParsedIs
<1>3. \/ Interrupted
      \/ /\ read_state' = Chunked(read, 0, end, Len(b)) /\ Some(buffer, 0, 0)
      \/ /\ read_state' = Sized("completed", read, 0) /\ Nothing("none")
      \/ /\ status.is = "complete" /\ status.size > 0
         /\ LET data_end  == status.payload + status.size
                chunk_end == data_end + 2
                given == IF data_end > Len(b) THEN Len(b) - status.payload ELSE status.size
            IN  /\ Some(buffer, start + status.payload, given)
                /\ read_state' =
                     IF chunk_end >= Len(b)
                       THEN Chunked(read + given, 0, 0, chunk_end - Len(b))
                       ELSE Chunked(read + status.size, start + chunk_end, end, 0)
  BY DEF ParseChunkedBuf
<1> HIDE DEF b, status, read, length, l, payload, size, actual
<1>4. CASE Interrupted
  <2>1. read_state' = Sized("done", read, 0) /\ Nothing("error")
    BY <1>4 DEF Interrupted, read
  <2>2. ReadStateFits(read_state', length)
    BY <1>0, <2>1, SizedIs
  <2> QED BY <2>1, <2>2, NothingIs DEF CallFits, length
<1>5. CASE /\ read_state' = Chunked(read, 0, end, Len(b)) /\ Some(buffer, 0, 0)
  <2>1. ReadStateFits(read_state', length)
    <3>1. PICK n \in Nat : n = Len(b) /\ n \in 1..end
      BY <1>1
    <3> QED BY <1>0, <1>5, <3>1, ChunkedIs DEF length
  <2>2. 0 \in Nat /\ 0 + 0 <= Len(buffer)
    BY <1>0 DEF length
  <2> QED BY <1>5, <2>1, <2>2, SomeIs DEF CallFits, length
<1>6. CASE /\ read_state' = Sized("completed", read, 0) /\ Nothing("none")
  <2>1. ReadStateFits(read_state', length)
    BY <1>0, <1>6, SizedIs
  <2> QED BY <1>6, <2>1, NothingIs DEF CallFits, length
<1>7. CASE /\ status.is = "complete" /\ status.size > 0
           /\ LET data_end  == status.payload + status.size
                  chunk_end == data_end + 2
                  given == IF data_end > Len(b) THEN Len(b) - status.payload ELSE status.size
              IN  /\ Some(buffer, start + status.payload, given)
                  /\ read_state' =
                       IF chunk_end >= Len(b)
                         THEN Chunked(read + given, 0, 0, chunk_end - Len(b))
                         ELSE Chunked(read + status.size, start + chunk_end, end, 0)
  <2>0. status.is = "complete"
    BY <1>7
  <2>1. /\ l \in Nat /\ payload \in Nat /\ size \in Nat
        /\ l = end - start /\ payload \in 1..l
    <3>1. status.payload \in 1..Len(b) /\ status.size \in Nat
      BY <1>2, <2>0
    <3>2. l \in Nat /\ l = end - start
      BY <1>1 DEF l
    <3>3. payload \in 1..l /\ size \in Nat
      BY <3>1 DEF l, payload, size
    <3> QED BY <3>2, <3>3
  <2>a. /\ status.payload = payload /\ status.size = size /\ Len(b) = l
        /\ actual = IF payload + size > l THEN l - payload ELSE size
    BY DEF l, payload, size, actual
  <2>b. Some(buffer, start + payload, actual)
    BY <1>7, <2>a
  <2>c. payload + size + 2 >= l =>
          read_state' = Chunked(read + actual, 0, 0, payload + size + 2 - l)
    BY <1>7, <2>1, <2>a
  <2>d. ~(payload + size + 2 >= l) =>
          read_state' = Chunked(read + size, start + (payload + size + 2), end, 0)
    BY <1>7, <2>1, <2>a
  <2>3. /\ Some(buffer, start + payload, actual)
        /\ payload + size + 2 >= l =>
             read_state' = Chunked(read + actual, 0, 0, payload + size + 2 - l)
        /\ ~(payload + size + 2 >= l) =>
             read_state' = Chunked(read + size, start + (payload + size + 2), end, 0)
    BY <2>b, <2>c, <2>d
  <2>2. actual \in Nat /\ start + payload + actual <= end
    BY <2>1 DEF actual
  <2>4. ReadStateFits(read_state', length)
    <3>1. CASE payload + size + 2 >= l
      <4>1. read + actual \in Nat /\ payload + size + 2 - l \in Nat /\ 0 <= length
        BY <1>0, <2>1, <2>2, <3>1
      <4>2. ReadStateFits(Chunked(read + actual, 0, 0, payload + size + 2 - l), length)
        BY <1>0, <4>1, ChunkedIs
      <4> QED BY <2>3, <3>1, <4>2
    <3>2. CASE ~(payload + size + 2 >= l)
      <4>1. /\ read + size \in Nat /\ start + (payload + size + 2) \in Nat
            /\ start + (payload + size + 2) < end /\ start + (payload + size + 2) # 0 /\ end <= length
        BY <1>0, <2>1, <2>2, <3>2 DEF length
      <4>2. ReadStateFits(Chunked(read + size, start + (payload + size + 2), end, 0), length)
        BY <1>0, <4>1, ChunkedIs
      <4> QED BY <2>3, <3>2, <4>2
    <3> QED BY <3>1, <3>2
  <2>5. start + payload \in Nat /\ start + payload + actual <= Len(buffer)
    BY <2>1, <2>2
  <2>6. /\ returned' \in ReturnType /\ returned'.is = "some" /\ delivered' \in Seq(Nat)
    <3>1. PICK begin \in Nat : begin = start + payload
      BY <2>5
    <3> QED BY <2>2, <2>3, <2>5, <3>1, SomeIs
  <2> QED BY <2>4, <2>6 DEF CallFits, length
<1> QED BY <1>3, <1>4, <1>5, <1>6, <1>7

LEMMA TakeFits ==
  ASSUME delivered \in Seq(Nat), read_state.read \in Nat,
         NEW buffer \in Seq(Nat), NEW end \in Nat, NEW expect \in Nat \ {0}, end <= Len(buffer),
         TakePayload(buffer, end, expect)
  PROVE  CallFits(Len(buffer))
<1> DEFINE read    == read_state.read
           payload == IF expect > 2 THEN expect - 2 ELSE 0
           length  == Len(buffer)
<1>0. read \in Nat /\ length \in Nat /\ payload \in Nat /\ payload <= expect
  OBVIOUS
<1>1. CASE expect >= end + 2
  <2>1. Some(buffer, 0, end) /\ read_state' = Chunked(read + end, 0, 0, expect - end)
    BY <1>1 DEF TakePayload
  <2>2. ReadStateFits(read_state', length)
    <3> HIDE DEF read, length
    <3>1. read + end \in Nat /\ expect - end \in Nat /\ 0 <= length
      BY <1>0, <1>1
    <3> QED BY <1>0, <2>1, <3>1, ChunkedIs
  <2>3. 0 \in Nat /\ 0 + end <= Len(buffer)
    OBVIOUS
  <2> QED BY <2>1, <2>2, <2>3, SomeIs DEF CallFits
<1>2. CASE ~(expect >= end + 2)
  <2>1. /\ Some(buffer, 0, payload)
        /\ read_state' = IF expect >= end
                           THEN Chunked(read + payload, 0, 0, expect - end)
                           ELSE Chunked(read + payload, expect, end, 0)
    BY <1>2 DEF TakePayload
  <2>2. 0 + payload <= Len(buffer)
    BY <1>2
  <2>3. end <= length
    OBVIOUS
  <2>4. ReadStateFits(read_state', length)
    <3> HIDE DEF read, length, payload
    <3>1. CASE expect >= end
      <4>1. read + payload \in Nat /\ expect - end \in Nat /\ 0 <= length
        BY <1>0, <3>1
      <4>2. ReadStateFits(Chunked(read + payload, 0, 0, expect - end), length)
        BY <1>0, <4>1, ChunkedIs
      <4> QED BY <2>1, <3>1, <4>2
    <3>2. CASE ~(expect >= end)
      <4>1. read + payload \in Nat /\ expect < end
        BY <1>0, <3>2
      <4>2. ReadStateFits(Chunked(read + payload, expect, end, 0), length)
        BY <1>0, <2>3, <4>1, ChunkedIs
      <4> QED BY <2>1, <3>2, <4>2
    <3> QED BY <3>1, <3>2
  <2>5. /\ returned' \in ReturnType /\ returned'.is = "some" /\ delivered' \in Seq(Nat)
    <3> HIDE DEF payload
    <3> QED BY <1>0, <2>1, <2>2, SomeIs
  <2> QED BY <2>4, <2>5 DEF CallFits
<1> QED BY <1>1, <1>2

LEMMA WireIs ==
  ASSUME ReaderType
  PROVE  /\ wire \in Seq(ByteType) /\ Len(wire) \in Nat /\ message \in Messages
         /\ taken \in Nat /\ cut \in Nat /\ taken <= cut /\ cut <= Len(wire)
<1>1. wire \in Seq(ByteType) /\ message \in Messages
  BY WireType DEF ReaderType, wire
<1>2. Len(wire) \in Nat
  BY <1>1
<1> QED BY <1>1, <1>2 DEF ReaderType

LEMMA MovedHeadIs ==
  ASSUME ReaderType, read_state.start = 0, read_state.end # 0
  PROVE  /\ MovedHead \in Seq(Nat) /\ Len(MovedHead) = Len(body_buffer)
         /\ \A i \in 1..Len(body_buffer) :
              MovedHead[i] = IF i <= read_state.expect
                               THEN body_buffer[read_state.end - read_state.expect + i]
                               ELSE body_buffer[i]
         /\ \A i \in 1..Len(body_buffer) : MovedHead[i] <= taken
<1> DEFINE end    == read_state.end
           expect == read_state.expect
           F(i)   == IF i <= expect THEN body_buffer[end - expect + i] ELSE body_buffer[i]
<1>1. /\ end \in Nat /\ expect \in Nat /\ expect \in 1..end /\ end <= Len(body_buffer)
      /\ body_buffer \in Seq(Nat) /\ Len(body_buffer) \in Nat
      /\ \A i \in 1..Len(body_buffer) : body_buffer[i] \in Nat /\ body_buffer[i] <= taken
  BY DEF ReaderType, ReadStateFits, ReadStateType
<1>2. MovedHead = [i \in 1..Len(body_buffer) |-> F(i)]
  BY <1>1 DEF MovedHead
<1>3. \A i \in 1..Len(body_buffer) : F(i) \in Nat /\ F(i) <= taken
  <2> HIDE DEF end, expect
  <2>1. \A i \in 1..Len(body_buffer) : i <= expect => end - expect + i \in 1..Len(body_buffer)
    BY <1>1
  <2> QED BY <1>1, <2>1
<1> HIDE DEF F
<1>4. /\ MovedHead \in Seq(Nat) /\ Len(MovedHead) = Len(body_buffer)
      /\ \A i \in 1..Len(body_buffer) : MovedHead[i] = F(i)
  BY <1>1, <1>2, <1>3
<1> QED BY <1>3, <1>4 DEF F

LEMMA CallKeepsType ==
  ASSUME ReaderType, UNCHANGED <<message_vars, overlapped>>,
         body_buffer' \in Seq(Nat), Len(body_buffer') = Len(body_buffer),
         \A i \in 1..Len(body_buffer) : body_buffer'[i] <= taken',
         taken' \in taken..cut, rewind_buf_size' \in {0, rewind_buf_size},
         CallFits(Len(body_buffer))
  PROVE  ReaderType'
<1>1. wire' = wire /\ message' = message /\ cut' = cut /\ closes' = closes /\ overlapped' = overlapped
  BY DEF wire, message_vars
<1>2. message \in Messages /\ cut \in 0..Len(wire) /\ closes \in BOOLEAN /\ overlapped \in BOOLEAN
  BY DEF ReaderType
<1>3. taken' \in 0..cut
  BY WireIs
<1>4. rewind_buf_size' \in 0..Len(body_buffer)
  BY DEF ReaderType
<1>5. /\ ReadStateFits(read_state', Len(body_buffer))
      /\ returned' \in ReturnType /\ (returned'.is # "some" => returned'.slice = <<>>)
      /\ delivered' \in Seq(Nat)
  BY DEF CallFits
<1>6. (message \in Messages /\ cut \in 0..Len(wire) /\ closes \in BOOLEAN /\ taken \in 0..cut)'
  BY <1>1, <1>2, <1>3
<1>7. ReadStateFits(read_state, Len(body_buffer))'
  BY <1>5 DEF ReadStateFits
<1> QED BY <1>1, <1>2, <1>4, <1>5, <1>6, <1>7 DEF ReaderType

LEMMA ReadKeepsType ==
  ASSUME ReaderType, ReadBody
  PROVE  ReaderType'
<1> DEFINE s == read_state
<1>1. /\ body_buffer \in Seq(Nat) /\ Len(body_buffer) \in Nat /\ delivered \in Seq(Nat)
      /\ \A i \in 1..Len(body_buffer) : body_buffer[i] <= taken
      /\ s \in ReadStateType /\ s.read \in Nat /\ s.start \in Nat /\ s.end \in Nat /\ s.expect \in Nat
      /\ s.end <= Len(body_buffer) /\ (s.start # 0 => s.start < s.end)
      /\ (s.start = 0 /\ s.end # 0 => s.expect \in 1..s.end)
  BY DEF ReaderType, ReadStateFits, ReadStateType
<1>2. message \in Messages /\ taken \in Nat /\ cut \in Nat /\ taken <= cut /\ cut <= Len(wire)
      /\ Len(wire) \in Nat
  BY WireIs
<1> HIDE DEF s
<1>a. s.read \in Nat /\ s.expect \in Nat
  BY <1>1
<1>3. ASSUME NEW n \in 0..cut, ReadPartially(n) PROVE ReaderType'
  <2>1. ReadFresh(n) /\ UNCHANGED <<message_vars, overlapped>> /\ n \in Nat
    BY <1>2, <1>3 DEF ReadPartially
  <2>2. /\ rewind_buf_size' = 0
        /\ body_buffer' \in Seq(Nat) /\ Len(body_buffer') = Len(body_buffer)
        /\ \A i \in 1..Len(body_buffer) : body_buffer'[i] <= taken'
        /\ taken' \in taken..cut /\ n <= Len(body_buffer)
    BY <2>1, ReadFreshIs
  <2>a. n <= Len(body_buffer') /\ Len(body_buffer') \in Nat
    BY <2>2
  <2>3. CallFits(Len(body_buffer))
    <3>1. \/ /\ Nothing("error") /\ read_state' = Sized("done", s.read, 0)
          \/ /\ n >= s.expect /\ Some(body_buffer', 0, s.expect)
             /\ read_state' = Sized("completed", s.read + s.expect, 0)
          \/ /\ n \in 1..(s.expect - 1) /\ Some(body_buffer', 0, n)
             /\ read_state' = Sized("partial", s.read + n, s.expect - n)
      BY <1>3 DEF ReadPartially, s
    <3>2. CASE Nothing("error") /\ read_state' = Sized("done", s.read, 0)
      BY <1>1, <3>2, NothingIs, SizedIs DEF CallFits
    <3>3. CASE /\ n >= s.expect /\ Some(body_buffer', 0, s.expect)
               /\ read_state' = Sized("completed", s.read + s.expect, 0)
      <4>1. s.read + s.expect \in Nat /\ 0 + s.expect <= Len(body_buffer')
        BY <1>a, <2>1, <2>a, <3>3
      <4>2. ReadStateFits(read_state', Len(body_buffer))
        BY <1>1, <3>3, <4>1, SizedIs
      <4> QED BY <1>1, <2>2, <3>3, <4>1, <4>2, SomeIs DEF CallFits
    <3>4. CASE /\ n \in 1..(s.expect - 1) /\ Some(body_buffer', 0, n)
               /\ read_state' = Sized("partial", s.read + n, s.expect - n)
      <4>1. s.read + n \in Nat /\ s.expect - n \in Nat /\ 0 + n <= Len(body_buffer')
        BY <1>a, <2>1, <2>a, <3>4
      <4>2. ReadStateFits(read_state', Len(body_buffer))
        BY <1>1, <3>4, <4>1, SizedIs
      <4> QED BY <1>1, <2>1, <2>2, <3>4, <4>1, <4>2, SomeIs DEF CallFits
    <3> QED BY <3>1, <3>2, <3>3, <3>4
  <2> QED BY <2>1, <2>2, <2>3, CallKeepsType
<1>4. ASSUME NEW n \in 0..cut, ReadUntilClosed(n) PROVE ReaderType'
  <2>1. ReadFresh(n) /\ UNCHANGED <<message_vars, overlapped>> /\ n \in Nat
    BY <1>2, <1>4 DEF ReadUntilClosed
  <2>2. /\ rewind_buf_size' = 0
        /\ body_buffer' \in Seq(Nat) /\ Len(body_buffer') = Len(body_buffer)
        /\ \A i \in 1..Len(body_buffer) : body_buffer'[i] <= taken'
        /\ taken' \in taken..cut /\ n <= Len(body_buffer)
    BY <2>1, ReadFreshIs
  <2>3. CallFits(Len(body_buffer))
    <3>1. \/ /\ Nothing("none") /\ read_state' = Sized("completed", s.read, 0)
          \/ /\ Some(body_buffer', 0, n)
             /\ read_state' = Sized("http10", s.read + n, 0)
      BY <1>4 DEF ReadUntilClosed, s
    <3>2. CASE Nothing("none") /\ read_state' = Sized("completed", s.read, 0)
      BY <1>1, <3>2, NothingIs, SizedIs DEF CallFits
    <3>3. CASE Some(body_buffer', 0, n) /\ read_state' = Sized("http10", s.read + n, 0)
      <4>0. s.read \in Nat /\ n \in Nat
        BY <1>1, <2>1
      <4>a. n <= Len(body_buffer')
        BY <2>2
      <4>1. s.read + n \in Nat /\ 0 + n <= Len(body_buffer')
        BY <4>0, <4>a
      <4>2. ReadStateFits(read_state', Len(body_buffer))
        BY <1>1, <3>3, <4>1, SizedIs
      <4> QED BY <1>1, <2>1, <2>2, <3>3, <4>1, <4>2, SomeIs DEF CallFits
    <3> QED BY <3>1, <3>2, <3>3
  <2> QED BY <2>1, <2>2, <2>3, CallKeepsType
<1>5. ASSUME NEW n \in 0..cut, ReadNextChunk(n) PROVE ReaderType'
  <2>1. ReadFresh(n) /\ UNCHANGED <<message_vars, overlapped>> /\ n \in Nat
    BY <1>2, <1>5 DEF ReadNextChunk
  <2>2. /\ rewind_buf_size' = 0
        /\ body_buffer' \in Seq(Nat) /\ Len(body_buffer') = Len(body_buffer)
        /\ \A i \in 1..Len(body_buffer) : body_buffer'[i] <= taken'
        /\ taken' \in taken..cut /\ n <= Len(body_buffer)
    BY <2>1, ReadFreshIs
  <2>3. CallFits(Len(body_buffer))
    <3>1. \/ Interrupted
          \/ n > 0 /\ s.expect > 0 /\ TakePayload(body_buffer', n, s.expect)
          \/ n > 0 /\ ParseChunkedBuf(body_buffer', 0, n)
      BY <1>5 DEF ReadNextChunk, s
    <3>2. CASE Interrupted
      BY <1>1, <3>2, NothingIs, SizedIs DEF CallFits, Interrupted, s
    <3>3. CASE s.expect > 0 /\ TakePayload(body_buffer', n, s.expect)
      <4>1. s.expect \in Nat \ {0} /\ s.read \in Nat
        BY <1>1, <3>3
      <4> QED BY <1>1, <2>1, <2>2, <3>3, <4>1, TakeFits DEF s
    <3>4. CASE n > 0 /\ ParseChunkedBuf(body_buffer', 0, n)
      <4>1. \A i \in 1..Len(body_buffer') : body_buffer'[i] <= Len(wire)
        <5>1. taken' \in Nat /\ taken' <= Len(wire)
          BY <1>2, <2>2
        <5>2. \A i \in 1..Len(body_buffer') : body_buffer'[i] \in Nat
          BY <2>2
        <5> QED BY <1>2, <2>2, <5>1, <5>2
      <4>2. 0 \in Nat /\ 0 < n
        BY <3>4
      <4> QED BY <1>1, <1>2, <2>1, <2>2, <3>4, <4>1, <4>2, ParseFits DEF s
    <3> QED BY <3>1, <3>2, <3>3, <3>4
  <2> QED BY <2>1, <2>2, <2>3, CallKeepsType
<1>6. ASSUME NEW n \in 0..cut, ReadPartialHead(n) PROVE ReaderType'
  <2>1. /\ s.start = 0 /\ s.end # 0 /\ n \in Received(s.expect)
        /\ body_buffer' = Filled(MovedHead, s.expect, n) /\ taken' = taken + n
        /\ ParseChunkedBuf(body_buffer', 0, s.expect + n)
        /\ UNCHANGED <<message_vars, rewind_buf_size, overlapped>>
    BY <1>6 DEF ReadPartialHead, s
  <2>2. n \in Nat /\ taken + n <= cut /\ s.expect + n <= Len(body_buffer) /\ s.expect \in 1..s.end
    <3>1. s.expect \in 0..Len(body_buffer) /\ s.expect \in 1..s.end
      BY <1>1, <2>1
    <3> QED BY <2>1, <3>1, ReceivedIs
  <2>3. /\ MovedHead \in Seq(Nat) /\ Len(MovedHead) = Len(body_buffer)
        /\ \A i \in 1..Len(body_buffer) : MovedHead[i] <= taken
    BY <2>1, MovedHeadIs DEF s
  <2>4. /\ body_buffer' \in Seq(Nat) /\ Len(body_buffer') = Len(body_buffer)
        /\ \A i \in 1..Len(body_buffer) :
             body_buffer'[i] = IF i \in (s.expect + 1)..(s.expect + n) THEN taken + i - s.expect
                               ELSE MovedHead[i]
    <3>1. s.expect \in Nat /\ taken \in Nat
      BY <1>a, <1>2
    <3>2. PICK on \in Nat : on = s.expect
      BY <3>1
    <3>3. PICK buffer \in Seq(Nat) : buffer = MovedHead
      BY <2>3
    <3>4. /\ Filled(buffer, on, n) \in Seq(Nat) /\ Len(Filled(buffer, on, n)) = Len(buffer)
          /\ \A i \in 1..Len(buffer) :
               Filled(buffer, on, n)[i] = IF i \in (on + 1)..(on + n) THEN taken + i - on ELSE buffer[i]
      BY <2>2, <3>1, FilledIs
    <3>5. body_buffer' = Filled(buffer, on, n) /\ Len(buffer) = Len(body_buffer)
      BY <2>1, <2>3, <3>2, <3>3
    <3> QED BY <3>2, <3>3, <3>4, <3>5
  <2>5. \A i \in 1..Len(body_buffer) : body_buffer'[i] <= taken' /\ body_buffer'[i] <= Len(wire)
    <3> SUFFICES ASSUME NEW i \in 1..Len(body_buffer)
                 PROVE  body_buffer'[i] <= taken' /\ body_buffer'[i] <= Len(wire)
      OBVIOUS
    <3>1. MovedHead[i] \in Nat /\ MovedHead[i] <= taken
      BY <1>1, <2>3
    <3>2. /\ body_buffer'[i] = IF i \in (s.expect + 1)..(s.expect + n) THEN taken + i - s.expect
                               ELSE MovedHead[i]
          /\ i \in Nat
      BY <2>4
    <3>3. taken' = taken + n /\ taken + n <= cut /\ n \in Nat
      BY <2>1, <2>2
    <3> QED BY <1>a, <1>2, <3>1, <3>2, <3>3
  <2>6. CallFits(Len(body_buffer))
    <3>1. PICK end \in Nat : end = s.expect + n /\ 0 < end /\ end <= Len(body_buffer')
      BY <1>1, <2>2, <2>4
    <3>2. \A i \in 1..Len(body_buffer') : body_buffer'[i] <= Len(wire)
      BY <2>4, <2>5
    <3>3. 0 \in Nat /\ read_state.read \in Nat
      BY <1>1 DEF s
    <3> QED BY <1>1, <1>2, <2>1, <2>4, <3>1, <3>2, <3>3, ParseFits
  <2>7. taken' \in taken..cut /\ rewind_buf_size' \in {0, rewind_buf_size}
        /\ UNCHANGED <<message_vars, overlapped>>
    BY <1>2, <2>1, <2>2
  <2> QED BY <2>4, <2>5, <2>6, <2>7, CallKeepsType
<1>7. ASSUME ReadLeftChunk PROVE ReaderType'
  <2>1. /\ s.start # 0 /\ ParseChunkedBuf(body_buffer, s.start, s.end)
        /\ UNCHANGED <<message_vars, taken, body_buffer, rewind_buf_size, overlapped>>
    BY <1>7 DEF ReadLeftChunk, s
  <2>2. \A i \in 1..Len(body_buffer) : body_buffer[i] <= Len(wire)
    <3>1. \A i \in 1..Len(body_buffer) : body_buffer[i] \in Nat
      BY <1>1
    <3> QED BY <1>1, <1>2, <3>1
  <2>3. CallFits(Len(body_buffer))
    <3>1. read_state.read \in Nat /\ s.start < s.end
      BY <1>1, <2>1 DEF s
    <3> QED BY <1>1, <1>2, <2>1, <2>2, <3>1, ParseFits
  <2>4. /\ body_buffer' \in Seq(Nat) /\ Len(body_buffer') = Len(body_buffer)
        /\ \A i \in 1..Len(body_buffer) : body_buffer'[i] <= taken'
        /\ taken' \in taken..cut /\ rewind_buf_size' \in {0, rewind_buf_size}
        /\ UNCHANGED <<message_vars, overlapped>>
    BY <1>1, <1>2, <2>1
  <2> QED BY <2>3, <2>4, CallKeepsType
<1> QED BY <1>3, <1>4, <1>5, <1>6, <1>7 DEF ReadBody

-----------------------------------------------------------------------------
(* The reader's steps keep its invariant. *)
(* s is of length k, rises, and consists of what of D is up to p. *)
UpTo(D, s, k, p) ==
  /\ DOMAIN s = 1..k /\ \A i, j \in 1..k : i < j => s[i] < s[j]
  /\ Range(s) = { i \in D : i <= p }

(* u is s and the l numbers behind q, which are what D has between p and z. *)
Grows(D, u, s, k, l, p, q, z) ==
  /\ DOMAIN u = 1..(k + l)
  /\ \A i \in 1..k : u[i] = s[i]
  /\ \A i \in 1..l : u[k + i] = q + i
  /\ \A x \in D : x <= z => x <= p \/ x \in (q + 1)..(q + l)
  /\ \A x \in (q + 1)..(q + l) : x \in D
  /\ p <= q /\ q + l <= z

LEMMA ExtendedRange ==
  ASSUME NEW D, D \subseteq Nat, NEW k \in Nat, NEW l \in Nat,
         NEW p \in Nat, NEW q \in Nat, NEW z \in Nat,
         NEW s, NEW u, UpTo(D, s, k, p), Grows(D, u, s, k, l, p, q, z)
  PROVE  UpTo(D, u, k + l, z)
<1>0. PICK r \in Nat : r = q + l
  OBVIOUS
<1>1. /\ DOMAIN u = 1..(k + l) /\ \A i \in 1..k : u[i] = s[i]
      /\ \A i \in 1..l : u[k + i] = q + i
  BY DEF Grows
<1>2. /\ \A x \in D : x <= z => x <= p \/ x \in (q + 1)..r
      /\ \A x \in (q + 1)..r : x \in D
      /\ p <= q /\ q <= r /\ r <= z
  BY <1>0 DEF Grows
<1>3. /\ DOMAIN s = 1..k /\ \A i, j \in 1..k : i < j => s[i] < s[j]
      /\ Range(s) = { i \in D : i <= p }
  BY DEF UpTo
<1>4. \A i \in 1..k : s[i] \in D /\ s[i] <= p /\ s[i] \in Nat
  <2>1. \A i \in 1..k : s[i] \in Range(s)
    BY <1>3 DEF Range
  <2> QED BY <1>3, <2>1
<1>5. \A x \in D : x <= p => \E i \in 1..k : s[i] = x
  <2>1. \A x \in Range(s) : \E i \in 1..k : s[i] = x
    BY <1>3 DEF Range
  <2> QED BY <1>3, <2>1
<1>8. ASSUME NEW i \in 1..(k + l), NEW j \in 1..(k + l), i < j PROVE u[i] < u[j]
  <2>1. CASE j <= k
    <3>1. i \in 1..k /\ j \in 1..k
      BY <1>8, <2>1
    <3> QED BY <1>1, <1>3, <1>8, <3>1
  <2>2. CASE i <= k /\ ~(j <= k)
    <3>1. i \in 1..k /\ j - k \in 1..l /\ k + (j - k) = j
      BY <2>2
    <3>2. u[i] = s[i] /\ u[j] = q + (j - k)
      BY <1>1, <3>1
    <3>3. s[i] \in Nat /\ s[i] <= p
      BY <1>4, <3>1
    <3>4. j - k \in Nat /\ j - k >= 1
      BY <3>1
    <3> QED BY <1>2, <3>2, <3>3, <3>4
  <2>3. CASE ~(i <= k)
    <3>1. i - k \in 1..l /\ k + (i - k) = i /\ j - k \in 1..l /\ k + (j - k) = j /\ i - k < j - k
      BY <1>8, <2>3
    <3>2. u[i] = q + (i - k) /\ u[j] = q + (j - k)
      BY <1>1, <3>1
    <3> QED BY <3>1, <3>2
  <2> QED BY <2>1, <2>2, <2>3
<1>9. ASSUME NEW i \in 1..(k + l) PROVE u[i] \in D /\ u[i] <= z
  <2>1. CASE i <= k
    <3>1. i \in 1..k
      BY <2>1
    <3>2. u[i] = s[i] /\ s[i] \in D /\ s[i] <= p /\ s[i] \in Nat
      BY <1>1, <1>4, <3>1
    <3> QED BY <1>2, <3>2
  <2>2. CASE ~(i <= k)
    <3>1. i - k \in 1..l /\ k + (i - k) = i
      BY <2>2
    <3>2. PICK j \in 1..l : i = k + j
      BY <3>1
    <3>3. u[i] = q + j /\ q + j \in (q + 1)..r
      BY <1>0, <1>1, <3>2
    <3> QED BY <1>2, <3>3
  <2> QED BY <2>1, <2>2
<1>10. ASSUME NEW x \in D, x <= z PROVE \E i \in 1..(k + l) : u[i] = x
  <2>1. CASE x <= p
    <3>1. PICK i \in 1..k : s[i] = x
      BY <1>5, <2>1
    <3>2. i \in 1..(k + l) /\ u[i] = x
      BY <1>1, <3>1
    <3> QED BY <3>2
  <2>2. CASE ~(x <= p)
    <3>1. x \in (q + 1)..r
      BY <1>2, <1>10, <2>2
    <3>2. x - q \in 1..l /\ q + (x - q) = x /\ k + (x - q) \in 1..(k + l)
      BY <1>0, <3>1
    <3>3. u[k + (x - q)] = x
      BY <1>1, <3>2
    <3> QED BY <3>2, <3>3
  <2> QED BY <2>1, <2>2
<1>11. Range(u) = { i \in D : i <= z }
  <2>1. \A x : x \in Range(u) <=> \E i \in 1..(k + l) : x = u[i]
    BY <1>1 DEF Range
  <2>2. ASSUME NEW x \in Range(u) PROVE x \in D /\ x <= z
    BY <1>9, <2>1
  <2>3. ASSUME NEW x \in D, x <= z PROVE x \in Range(u)
    BY <1>10, <2>1, <2>3
  <2> QED BY <2>2, <2>3
<1> QED BY <1>1, <1>8, <1>11 DEF UpTo

(* Of the bytes between p and z the l behind q are data ... *)
DataBehind(p, q, l, z) ==
  /\ p <= q /\ q + l <= z /\ z <= Len(wire)
  /\ \A i \in (p + 1)..q : wire[i].kind # "data"
  /\ \A i \in (q + 1)..(q + l) : wire[i].kind = "data"
  /\ \A i \in (q + l + 1)..z : wire[i].kind # "data"

(* ... and these are t. *)
RunBehind(t, q, l) == t \in Seq(Nat) /\ Len(t) = l /\ \A i \in 1..l : t[i] = q + i

LEMMA Extended ==
  ASSUME ReaderType, NEW s \in Seq(Nat), NEW p \in Nat, IsBodyUpTo(s, p),
         NEW q \in Nat, NEW l \in Nat, NEW z \in Nat, DataBehind(p, q, l, z),
         NEW t, RunBehind(t, q, l)
  PROVE  IsBodyUpTo(s \o t, z)
<1>d. /\ p <= q /\ q + l <= z /\ z <= Len(wire)
      /\ \A i \in (p + 1)..q : wire[i].kind # "data"
      /\ \A i \in (q + 1)..(q + l) : wire[i].kind = "data"
      /\ \A i \in (q + l + 1)..z : wire[i].kind # "data"
  BY DEF DataBehind
<1>t. t \in Seq(Nat) /\ Len(t) = l /\ \A i \in 1..l : t[i] = q + i
  BY DEF RunBehind
<1>0. PICK k \in Nat : k = Len(s)
  OBVIOUS
<1>a. PICK len \in Nat : len = Len(wire)
  BY WireIs
<1> DEFINE u == s \o t
<1>1. /\ u \in Seq(Nat) /\ Len(u) = k + l
      /\ \A i \in 1..k : u[i] = s[i]
      /\ \A i \in 1..l : u[k + i] = t[i]
  <2>1. Len(s) = k /\ k \in Nat
    BY <1>0
  <2>2. Behind(Nat, u, s, t, k, l)
    BY <1>t, <2>1, BehindIs
  <2> QED BY <2>2 DEF Behind
<1> HIDE DEF u
<1>2. Body = { i \in 1..len : wire[i].kind = "data" }
  <2>1. message \in Messages /\ wire = WireOf[message]
    BY WireIs DEF wire
  <2> QED BY <1>a, <2>1 DEF Body, BodyOf
<1>b. DOMAIN s = 1..k /\ DOMAIN u = 1..(k + l)
  BY <1>0, <1>1
<1>3. /\ \A i, j \in 1..k : i < j => s[i] < s[j]
      /\ Range(s) = { i \in Body : i <= p }
  BY <1>b DEF IsBodyUpTo
<1>4. \A i \in 1..l : u[k + i] = q + i
  BY <1>1, <1>t
<1>c. Body \subseteq Nat
  BY <1>2
<1>5. ASSUME NEW x \in Body, x <= z PROVE x <= p \/ x \in (q + 1)..(q + l)
  <2>1. x \in Nat /\ wire[x].kind = "data"
    BY <1>2
  <2> QED BY <1>5, <1>d, <2>1
<1>6. ASSUME NEW x \in (q + 1)..(q + l) PROVE x \in Body
  <2>1. x \in 1..len
    BY <1>a, <1>d
  <2> QED BY <1>2, <1>d, <2>1
<1>7. Grows(Body, u, s, k, l, p, q, z)
  <2>1. \A i \in 1..k : u[i] = s[i]
    BY <1>1
  <2> QED BY <1>4, <1>5, <1>6, <1>b, <1>d, <2>1 DEF Grows
<1>8. UpTo(Body, u, k + l, z)
  <2>1. UpTo(Body, s, k, p)
    BY <1>3, <1>b DEF UpTo
  <2> QED BY <1>0, <1>c, <1>7, <2>1, ExtendedRange
<1>9. IsBodyUpTo(u, z)
  BY <1>b, <1>8 DEF IsBodyUpTo, UpTo
<1> QED BY <1>9 DEF u

(* A body of a length, or until the close, is the first bytes of the message. *)
LEMMA PlainUpTo ==
  ASSUME ReaderType, framing # "chunked", NEW s \in Seq(Nat), NEW k \in Nat, Len(s) = k, k <= Size,
         \A i \in 1..k : s[i] = i, NEW z \in Nat, z = k \/ (k = Size /\ k <= z)
  PROVE  IsBodyUpTo(s, z)
<1>1. Body = 1..Size /\ Size \in Nat
  <2>1. message \in Messages
    BY WireIs
  <2> QED BY <2>1, PlainLayout, MessageIs DEF Body, Size, framing
<1>2. DOMAIN s = 1..k
  OBVIOUS
<1>3. \A x : x \in Range(s) <=> x \in 1..k
  <2>1. \A x : x \in Range(s) <=> \E i \in 1..k : x = s[i]
    BY <1>2 DEF Range
  <2> QED BY <2>1
<1>4. \A x : x \in { i \in Body : i <= z } <=> x \in 1..k
  BY <1>1
<1>5. Range(s) = { i \in Body : i <= z }
  BY <1>3, <1>4
<1> QED BY <1>2, <1>5 DEF IsBodyUpTo

(* What stands behind the start of a chunk. *)
LEMMA StartsIs ==
  ASSUME ReaderType, framing = "chunked", NEW b \in Starts
  PROVE  /\ b \in Nat
         /\ \E size \in Nat :
              /\ HeadAt(wire, message.ext, b, size) /\ b + message.ext + 3 <= Len(wire)
              /\ size # 0 => /\ PayloadAt(wire, b + message.ext + 3, size)
                             /\ b + message.ext + 5 + size \in Starts
                             /\ b + message.ext + 5 + size <= Len(wire)
              /\ size = 0 => /\ \A i \in (b + message.ext + 4)..Len(wire) : wire[i].kind # "data"
                             /\ \A c \in Starts : c <= b
<1> DEFINE ext == message.ext
<1>0. message \in Messages /\ ext \in Nat
  BY WireIs, MessageIs
<1>a. wire = WireOf[message]
  BY DEF wire
<1>b. PICK len \in Nat : len = Len(wire)
  BY WireIs
<1>1. Starts = { c \in 0..(len - 1) : wire[c + 1].kind = "size" }
  BY <1>0, <1>a, <1>b DEF Starts, StartsOf
<1>2. PICK B, last : Layout(wire, ext, B, last)
  BY <1>0, <1>a, ChunkedLayout DEF framing
<1> HIDE DEF ext
<1>3. /\ B \subseteq 0..last /\ 0 \in B /\ last \in B
      /\ \A c \in B \ {last} : \E size \in Nat \ {0} :
           /\ HeadAt(wire, ext, c, size) /\ PayloadAt(wire, c + ext + 3, size)
           /\ c + ext + 5 + size \in B
      /\ HeadAt(wire, ext, last, 0) /\ last + ext + 5 <= len
      /\ \A i \in (last + ext + 4)..len : wire[i].kind \notin {"data", "size"}
      /\ \A i \in 1..len : wire[i].kind = "size" => i - 1 \in B
  <2>1. /\ B \subseteq 0..last /\ 0 \in B /\ last \in B
        /\ \A c \in B \ {last} : \E size \in Nat \ {0} :
             /\ HeadAt(wire, ext, c, size) /\ PayloadAt(wire, c + ext + 3, size)
             /\ c + ext + 5 + size \in B
    BY <1>2 DEF Layout
  <2>2. /\ HeadAt(wire, ext, last, 0) /\ last + ext + 5 <= len
        /\ \A i \in (last + ext + 4)..len : wire[i].kind \notin {"data", "size"}
        /\ \A i \in 1..len : wire[i].kind = "size" => i - 1 \in B
    BY <1>2, <1>b DEF Layout
  <2> QED BY <2>1, <2>2
<1>4. last \in Nat
  BY <1>3
<1>5. B = Starts
  <2>1. ASSUME NEW c \in B PROVE c \in Starts
    <3>1. c \in 0..last
      BY <1>3
    <3>2. wire[c + 1].kind = "size"
      BY <1>3 DEF HeadAt
    <3> QED BY <1>0, <1>1, <1>3, <1>4, <3>1, <3>2
  <2>2. ASSUME NEW c \in Starts PROVE c \in B
    <3>1. c + 1 \in 1..len /\ (c + 1) - 1 = c /\ wire[c + 1].kind = "size"
      BY <1>1
    <3> QED BY <1>3, <3>1
  <2> QED BY <2>1, <2>2
<1>6. b \in Nat /\ b <= last
  BY <1>3, <1>4, <1>5
<1>7. CASE b = last
  <2>1. \A c \in Starts : c <= b
    BY <1>3, <1>4, <1>5, <1>7
  <2>2. \A i \in (b + ext + 4)..len : wire[i].kind # "data"
    BY <1>3, <1>7
  <2>3. HeadAt(wire, ext, b, 0) /\ b + ext + 3 <= len
    BY <1>0, <1>3, <1>4, <1>7
  <2> QED BY <1>b, <1>6, <2>1, <2>2, <2>3 DEF ext
<1>8. CASE b # last
  <2>1. PICK size \in Nat \ {0} : /\ HeadAt(wire, ext, b, size) /\ PayloadAt(wire, b + ext + 3, size)
                                  /\ b + ext + 5 + size \in B
    BY <1>3, <1>5, <1>8
  <2>2. b + ext + 5 + size <= last
    <3>1. \A x \in B : x <= last
      BY <1>3, <1>4
    <3> QED BY <2>1, <3>1
  <2>3. b + ext + 5 + size <= len /\ b + ext + 3 <= len
    BY <1>0, <1>3, <1>4, <1>6, <2>1, <2>2
  <2> QED BY <1>b, <1>5, <1>6, <2>1, <2>3 DEF ext
<1> QED BY <1>7, <1>8

(* A head that has not come whole is not the last thing that is missing. *)
LEMMA NotWhole ==
  ASSUME ReaderType, framing = "chunked", NEW b \in Starts, cut < b + message.ext + 3
  PROVE  ~Whole
<1> DEFINE ext == message.ext
<1>0. ext \in Nat /\ b \in Nat /\ cut \in Nat /\ cut <= Len(wire) /\ Len(wire) \in Nat
  BY WireIs, MessageIs, StartsIs
<1> SUFFICES ASSUME Whole PROVE FALSE
  OBVIOUS
<1>1. PICK i \in 1..cut : wire[i].kind = "size" /\ wire[i].n = 0
                          /\ \E j \in i..cut : wire[j].kind = "lf"
  BY DEF Whole
<1>2. PICK j \in i..cut : wire[j].kind = "lf"
  BY <1>1
<1>3. PICK c \in Nat : c = i - 1 /\ c + 1 = i
  BY <1>0
<1>4. c \in Starts
  <2>1. Starts = { d \in 0..(Len(wire) - 1) : wire[d + 1].kind = "size" }
    <3>1. message \in Messages /\ wire = WireOf[message]
      BY WireIs DEF wire
    <3> QED BY <3>1 DEF Starts, StartsOf
  <2> QED BY <1>0, <1>1, <1>3, <2>1
<1>5. PICK size \in Nat :
        /\ HeadAt(wire, ext, c, size)
        /\ size = 0 => \A d \in Starts : d <= c
  BY <1>4, StartsIs
<1> HIDE DEF ext
<1>6. b <= c
  <2>1. size = 0
    BY <1>1, <1>3, <1>5 DEF HeadAt
  <2> QED BY <1>5, <2>1
<1>7. \A x \in 1..(ext + 3) : wire[c + x].kind = "lf" <=> x = ext + 3
  BY <1>0, <1>5, HeadKinds
<1>8. j - c >= ext + 3
  <2> SUFFICES ASSUME j - c < ext + 3 PROVE FALSE
    BY <1>0, <1>2, <1>3
  <2>1. PICK x \in 1..(ext + 3) : c + x = j /\ x # ext + 3
    <3>1. j - c \in 1..(ext + 3) /\ c + (j - c) = j /\ j - c # ext + 3
      BY <1>0, <1>2, <1>3
    <3> QED BY <3>1
  <2> QED BY <1>2, <1>7, <2>1
<1> QED BY <1>0, <1>2, <1>3, <1>6, <1>8 DEF ext

(* What the parser makes of the bytes from the start of a chunk on. *)
LEMMA ParseAt ==
  ASSUME message \in Messages, NEW ext \in Nat, NEW P \in Nat, NEW size, HeadAt(wire, ext, P, size),
         NEW b \in Seq(Nat), NEW l \in Nat \ {0}, Len(b) = l, \A i \in 1..l : b[i] = P + i
  PROVE  /\ l < ext + 3 => ParseChunkSize(b).is = "partial"
         /\ l >= ext + 3 => /\ ParseChunkSize(b).is = "complete"
                            /\ ParseChunkSize(b).payload = ext + 3 /\ ParseChunkSize(b).size = size
<1> DEFINE ends == { i \in 1..Len(b) : Kind(b[i]) = "lf" }
           end  == IF ends = {} THEN Len(b) ELSE Min(ends)
           before(i) == IF i = 1 THEN "start" ELSE Kind(b[i - 1])
           illegal == \E i \in 1..end : ~MayFollow(before(i), Kind(b[i]))
<1>1. ParseChunkSize(b) = IF illegal THEN [is |-> "error"]
                          ELSE IF ends = {} THEN [is |-> "partial"]
                          ELSE [is |-> "complete", payload |-> end, size |-> wire[b[1]].n]
  BY DEF ParseChunkSize
<1>2. /\ \A i \in 1..(ext + 3) : wire[P + i].kind \in {"size", "ext", "cr", "lf"}
      /\ \A i \in 1..(ext + 3) : wire[P + i].kind = "size" <=> i = 1
      /\ \A i \in 1..(ext + 3) : wire[P + i].kind = "lf" <=> i = ext + 3
      /\ \A i \in 1..(ext + 3) : wire[P + i].kind = "cr" <=> i = ext + 2
      /\ wire[P + 1].n = size
  <2>1. \A i \in 1..(ext + 3) : wire[P + i].kind \in {"size", "ext", "cr", "lf"}
    BY HeadKinds
  <2>2. \A i \in 1..(ext + 3) : wire[P + i].kind = "size" <=> i = 1
    BY HeadKinds
  <2>3. \A i \in 1..(ext + 3) : wire[P + i].kind = "lf" <=> i = ext + 3
    BY HeadKinds
  <2>4. \A i \in 1..(ext + 3) : wire[P + i].kind = "cr" <=> i = ext + 2
    BY HeadKinds
  <2>5. wire[P + 1].n = size
    BY DEF HeadAt
  <2> QED BY <2>1, <2>2, <2>3, <2>4, <2>5
<1>3. \A i \in 1..l : Kind(b[i]) = wire[P + i].kind
  <2>1. \A i \in 1..l : b[i] = P + i /\ P + i # 0
    OBVIOUS
  <2> QED BY <2>1 DEF Kind
<1>4. ASSUME NEW i \in 1..l, i <= ext + 3 PROVE MayFollow(before(i), Kind(b[i]))
  <2>1. i \in 1..(ext + 3)
    BY <1>4
  <2>2. CASE i = 1
    BY <1>2, <1>3, <2>1, <2>2 DEF MayFollow
  <2>3. CASE i # 1
    <3>1. PICK j \in 1..(ext + 3) : j = i - 1 /\ j \in 1..l /\ j # ext + 3
      BY <2>1, <2>3
    <3>2. before(i) = wire[P + j].kind
      BY <1>3, <2>3, <3>1
    <3>3. Kind(b[i]) = wire[P + i].kind
      BY <1>3
    <3>4. wire[P + j].kind \in {"size", "ext", "cr"} /\ (wire[P + j].kind = "cr" <=> i = ext + 3)
      <4>1. wire[P + j].kind \in {"size", "ext", "cr", "lf"} /\ wire[P + j].kind # "lf"
        BY <1>2, <3>1
      <4>2. wire[P + j].kind = "cr" <=> j = ext + 2
        BY <1>2, <3>1
      <4>3. j = ext + 2 <=> i = ext + 3
        BY <2>1, <3>1
      <4> QED BY <4>1, <4>2, <4>3
    <3>5. wire[P + i].kind \in {"ext", "cr", "lf"} /\ (wire[P + i].kind = "lf" <=> i = ext + 3)
      BY <1>2, <2>1, <2>3
    <3> HIDE DEF before
    <3> QED BY <3>2, <3>3, <3>4, <3>5 DEF MayFollow
  <2> QED BY <2>2, <2>3
<1>5. \A i \in 1..l : i <= ext + 3 => (i \in ends <=> i = ext + 3)
  BY <1>2, <1>3
<1>6. ends \subseteq 1..l
  OBVIOUS
<1>7. CASE l < ext + 3
  <2>1. ends = {}
    <3> HIDE DEF ends
    <3> QED BY <1>5, <1>6, <1>7
  <2>2. ~illegal
    <3> HIDE DEF before
    <3> QED BY <1>4, <1>7, <2>1
  <2> HIDE DEF ends, end, illegal
  <2> QED BY <1>1, <1>7, <2>1, <2>2
<1>8. CASE l >= ext + 3
  <2>1. ext + 3 \in ends
    <3> HIDE DEF ends
    <3> QED BY <1>5, <1>8
  <2>2. Min(ends) \in ends /\ \A m \in ends : Min(ends) <= m
    <3> HIDE DEF ends
    <3>1. ends \subseteq Nat
      BY <1>6
    <3> QED BY <2>1, <3>1, MinIs
  <2>3. Min(ends) = ext + 3
    <3> HIDE DEF ends
    <3>1. Min(ends) \in 1..l /\ Min(ends) <= ext + 3
      BY <1>6, <2>1, <2>2
    <3> QED BY <1>5, <2>2, <3>1
  <2>4. end = ext + 3 /\ ends # {}
    BY <2>1, <2>3
  <2>5. ~illegal
    <3> HIDE DEF before, end
    <3> QED BY <1>4, <1>8, <2>4
  <2>6. wire[b[1]].n = size
    <3>1. b[1] = P + 1
      OBVIOUS
    <3> QED BY <1>2, <3>1
  <2> HIDE DEF ends, end, illegal
  <2> QED BY <1>1, <1>8, <2>4, <2>5, <2>6
<1> QED BY <1>7, <1>8

-----------------------------------------------------------------------------
(* The calls keep what the invariant says of a chunked message. *)
LEMMA MessageStays ==
  ASSUME UNCHANGED message_vars
  PROVE  /\ message' = message /\ cut' = cut /\ closes' = closes
         /\ wire' = wire /\ framing' = framing /\ Starts' = Starts /\ Body' = Body /\ Size' = Size
         /\ Whole' = Whole /\ LongHeads' = LongHeads
<1>1. message' = message /\ cut' = cut /\ closes' = closes
  BY DEF message_vars
<1>2. wire' = wire /\ framing' = framing /\ Starts' = Starts /\ Body' = Body /\ Size' = Size
  BY <1>1 DEF wire, framing, Starts, Body, Size
<1>3. LongHeads' = LongHeads
  BY <1>1, <1>2 DEF LongHeads
<1>4. Whole' = Whole
  BY <1>1, <1>2 DEF Whole
<1> QED BY <1>1, <1>2, <1>3, <1>4

LEMMA BodyStays ==
  ASSUME UNCHANGED message_vars
  PROVE  /\ IsBodyUpTo(delivered', Pos') => IsBodyUpTo(delivered, Pos)'
         /\ (\E p \in 0..cut : IsBodyUpTo(delivered', p)) => PartOfBody(delivered)'
         /\ WholeBody(delivered') => WholeBody(delivered)'
<1>1. Body' = Body /\ cut' = cut /\ framing' = framing /\ Len(wire') = Len(wire)
  BY MessageStays
<1>2. IsBodyUpTo(delivered', Pos') => IsBodyUpTo(delivered, Pos)'
  BY <1>1 DEF IsBodyUpTo
<1>3. ASSUME NEW p \in 0..cut, IsBodyUpTo(delivered', p) PROVE PartOfBody(delivered)'
  BY <1>1, <1>3 DEF IsBodyUpTo, PartOfBody
<1>4. WholeBody(delivered') => WholeBody(delivered)'
  BY <1>1 DEF IsBodyUpTo, WholeBody
<1> QED BY <1>2, <1>3, <1>4

(* The invariant of a reader of chunks. *)
ChunkedInv ==
  /\ read_state.read = Len(delivered)
  /\ read_state.is \in {"chunked", "completed", "done"}
  /\ read_state.is = "chunked" => ReadsChunks
  /\ Finished => PartOfBody(delivered)
  /\ read_state.is = "completed" => Whole /\ WholeBody(delivered)
  /\ read_state.is = "done" => (closes /\ taken = cut /\ ~Whole) \/ LongHeads

(* What a call returns, as the relay takes it. *)
CallIs ==
  /\ delivered' = delivered \o returned'.slice
  /\ returned'.is \in {"some", "none", "error"}
  /\ returned'.is = "error" <=> read_state'.is = "done"
  /\ returned'.is = "none" => read_state'.is = "completed"
  /\ framing = "chunked" /\ read_state'.is = "completed" => returned'.is = "none"

(* The buffer holds, from start on, the l bytes behind q. *)
Holds(buffer, start, l, q) ==
  /\ buffer \in Seq(Nat) /\ start + l <= Len(buffer)
  /\ \A i \in 1..l : buffer[start + i] = q + i

LEMMA Returns ==
  ASSUME ReaderType, NEW buffer, NEW start \in Nat, NEW l \in Nat, Some(buffer, start, l),
         NEW p \in Nat, IsBodyUpTo(delivered, p), NEW q \in Nat, NEW z \in Nat,
         DataBehind(p, q, l, z), Holds(buffer, start, l, q)
  PROVE  /\ IsBodyUpTo(delivered', z) /\ Len(delivered') = Len(delivered) + l
         /\ delivered' = delivered \o returned'.slice /\ returned'.is = "some"
<1>h. buffer \in Seq(Nat) /\ start + l <= Len(buffer) /\ \A i \in 1..l : buffer[start + i] = q + i
  BY DEF Holds
<1>1. delivered \in Seq(Nat)
  BY DEF ReaderType
<1>2. /\ returned'.is = "some" /\ returned'.slice \in Seq(Nat) /\ Len(returned'.slice) = l
      /\ \A i \in 1..l : returned'.slice[i] = buffer[start + i]
      /\ delivered' = delivered \o returned'.slice
  BY <1>h, <1>1, SomeIs
<1>3. PICK t \in Seq(Nat) : t = returned'.slice
  BY <1>2
<1>4. Len(t) = l /\ \A i \in 1..l : t[i] = q + i
  BY <1>h, <1>2, <1>3
<1>5. IsBodyUpTo(delivered \o t, z)
  <2>1. RunBehind(t, q, l)
    BY <1>4 DEF RunBehind
  <2> QED BY <1>1, <2>1, Extended
<1>6. Len(delivered \o t) = Len(delivered) + l
  <2>1. PICK k \in Nat : k = Len(delivered)
    BY <1>1
  <2>2. Behind(Nat, delivered \o t, delivered, t, k, l)
    BY <1>1, <1>3, <1>4, <2>1, BehindIs
  <2>3. Len(delivered \o t) = k + l
    BY <2>2 DEF Behind
  <2> QED BY <2>1, <2>3
<1> QED BY <1>2, <1>3, <1>5, <1>6

LEMMA HoldsPart ==
  ASSUME NEW buffer, NEW start \in Nat, NEW l \in Nat, NEW p \in Nat, Holds(buffer, start, l, p),
         NEW k \in Nat, NEW m \in Nat, k + m <= l,
         NEW h, h = start + k, NEW q, q = p + k
  PROVE  Holds(buffer, h, m, q)
<1>1. buffer \in Seq(Nat) /\ start + l <= Len(buffer) /\ \A i \in 1..l : buffer[start + i] = p + i
  BY DEF Holds
<1>2. ASSUME NEW i \in 1..m PROVE buffer[h + i] = q + i
  <2>1. PICK j \in 1..l : j = k + i
    OBVIOUS
  <2>2. start + j = h + i /\ p + j = q + i
    BY <2>1
  <2> QED BY <1>1, <2>2
<1>3. h + m <= Len(buffer)
  <2>1. Len(buffer) \in Nat
    BY <1>1
  <2> QED BY <1>1, <2>1
<1> QED BY <1>1, <1>2, <1>3 DEF Holds

LEMMA ReturnsNothing ==
  ASSUME ReaderType, NEW p \in Nat, IsBodyUpTo(delivered, p), NEW z \in Nat, DataBehind(p, p, 0, z)
  PROVE  IsBodyUpTo(delivered, z)
<1>1. delivered \in Seq(Nat)
  BY DEF ReaderType
<1>2. /\ p <= z /\ z <= Len(wire) /\ \A i \in (p + 1)..z : wire[i].kind # "data"
  <2>1. p + 0 = p
    OBVIOUS
  <2> QED BY <2>1 DEF DataBehind
<1>3. Body = { i \in 1..Len(wire) : wire[i].kind = "data" }
  <2>1. message \in Messages /\ wire = WireOf[message]
    BY WireIs DEF wire
  <2> QED BY <2>1 DEF Body, BodyOf
<1>4. { i \in Body : i <= z } = { i \in Body : i <= p }
  <2>1. Len(wire) \in Nat
    BY WireIs
  <2> QED BY <1>2, <1>3, <2>1
<1> QED BY <1>4 DEF IsBodyUpTo

(* Where the data of a chunk stands. *)
LEMMA ChunkData ==
  ASSUME ReaderType, NEW ext \in Nat, NEW p \in Nat, NEW size \in Nat,
         HeadAt(wire, ext, p, size), NEW q \in Nat, q = p + ext + 3, PayloadAt(wire, q, size),
         NEW z \in Nat, q <= z, z <= q + size + 2, z <= Len(wire),
         NEW l \in Nat, l = IF z > q + size THEN size ELSE z - q
  PROVE  DataBehind(p, q, l, z)
<1>1. ASSUME NEW i \in (p + 1)..q PROVE wire[i].kind # "data"
  <2>1. PICK j \in 1..(ext + 3) : i = p + j
    <3>1. i - p \in 1..(ext + 3) /\ i = p + (i - p)
      OBVIOUS
    <3> QED BY <3>1
  <2>2. \A k \in 1..(ext + 3) : wire[p + k].kind \in {"size", "ext", "cr", "lf"}
    BY HeadKinds
  <2> QED BY <2>1, <2>2
<1>2. ASSUME NEW i \in (q + 1)..(q + l) PROVE wire[i].kind = "data"
  <2>1. i - q \in 1..size /\ q + (i - q) = i
    OBVIOUS
  <2> QED BY <2>1 DEF PayloadAt
<1>3. ASSUME NEW i \in (q + l + 1)..z PROVE wire[i].kind # "data"
  <2>1. i = q + size + 1 \/ i = q + size + 2
    OBVIOUS
  <2> QED BY <2>1 DEF PayloadAt
<1>4. p <= q /\ q + l <= z
  OBVIOUS
<1> QED BY <1>1, <1>2, <1>3, <1>4 DEF DataBehind

(* The buffer was read to the end of a chunk, or to somewhere within it. *)
LEMMA AwaitsChunk ==
  ASSUME ReaderType, framing = "chunked", UNCHANGED message_vars, taken' \in Nat, rewind_buf_size' = 0,
         IsBodyUpTo(delivered', taken'), NEW e \in Nat,
         read_state' = Chunked(Len(delivered'), 0, 0, e), taken' + e \in Starts,
         \A i \in 1..e : wire[taken' + i].kind = "data" <=> i <= e - 2
  PROVE  ChunkedInv'
<1>1. wire' = wire /\ Starts' = Starts /\ framing' = "chunked"
  BY MessageStays
<1>2. /\ read_state'.is = "chunked" /\ read_state'.read = Len(delivered') /\ read_state'.start = 0
      /\ read_state'.end = 0 /\ read_state'.expect = e
  BY DEF Chunked
<1>3. Pos' = taken'
  BY <1>2 DEF Pos
<1>4. IsBodyUpTo(delivered, Pos)' /\ Pos' \in Nat
  BY <1>3, BodyStays
<1>5. e = 0 => Pos' \in Starts'
  BY <1>1, <1>3
<1>6. ChunkAwaited'
  BY <1>1, <1>2 DEF ChunkAwaited
<1>7. ReadsChunks'
  BY <1>1, <1>2, <1>4, <1>5, <1>6 DEF ReadsChunks
<1> QED BY <1>2, <1>7 DEF ChunkedInv, Finished

(* A chunk head begins in the buffer, behind the position p. *)
LEMMA HasHead ==
  ASSUME ReaderType, framing = "chunked", UNCHANGED message_vars, rewind_buf_size' = 0,
         NEW p \in Starts, p \in Nat, IsBodyUpTo(delivered', p),
         NEW start \in Nat, NEW end \in Nat \ {0}, NEW e \in Nat,
         read_state' = Chunked(Len(delivered'), start, end, e),
         NEW h \in Nat, h = IF start # 0 THEN start ELSE end - e,
         NEW m \in Nat, m = end - h, taken' = p + m, Holds(body_buffer', h, m, p)
  PROVE  ChunkedInv'
<1>1. Starts' = Starts /\ framing' = "chunked"
  BY MessageStays
<1>2. /\ read_state'.is = "chunked" /\ read_state'.read = Len(delivered') /\ read_state'.start = start
      /\ read_state'.end = end /\ read_state'.expect = e
  BY DEF Chunked
<1>3. Pos' = p
  <2>1. Pos' = IF start # 0 THEN taken' - end + start ELSE taken' - e
    BY <1>2 DEF Pos
  <2> QED BY <2>1
<1>4. IsBodyUpTo(delivered, Pos)' /\ Pos' \in Nat
  BY <1>3, BodyStays
<1>5. HeadInBuffer'
  <2>1. \A i \in 1..(end - h) : body_buffer'[h + i] = p + i
    BY DEF Holds
  <2> QED BY <1>1, <1>2, <1>3, <2>1 DEF HeadInBuffer
<1>6. ReadsChunks'
  BY <1>1, <1>2, <1>4, <1>5 DEF ReadsChunks
<1> QED BY <1>2, <1>6 DEF ChunkedInv, Finished

LEMMA GivesUp ==
  ASSUME ReaderType, UNCHANGED message_vars, read_state.read = Len(delivered),
         NEW p \in 0..cut, IsBodyUpTo(delivered, p), Interrupted,
         (closes /\ taken' = cut /\ ~Whole) \/ LongHeads
  PROVE  ChunkedInv' /\ CallIs
<1>1. /\ read_state' = Sized("done", read_state.read, 0) /\ delivered' = delivered
      /\ returned' = [is |-> "error", slice |-> <<>>] /\ delivered \in Seq(Nat)
  BY DEF Interrupted, Nothing, ReaderType
<1>2. read_state'.is = "done" /\ read_state'.read = Len(delivered')
  BY <1>1 DEF Sized
<1>3. PartOfBody(delivered)'
  BY <1>1, BodyStays
<1>4. (closes' /\ taken' = cut' /\ ~Whole') \/ LongHeads'
  BY MessageStays
<1>5. CallIs
  <2>1. returned'.is = "error" /\ returned'.slice = <<>> /\ delivered' = delivered \o <<>>
    BY <1>1
  <2> QED BY <1>2, <2>1 DEF CallIs
<1> QED BY <1>2, <1>3, <1>4, <1>5 DEF ChunkedInv

LEMMA Completes ==
  ASSUME ReaderType, UNCHANGED message_vars, read_state.read = Len(delivered),
         NEW p \in 0..cut, IsBodyUpTo(delivered, p), Nothing("none"),
         read_state' = Sized("completed", read_state.read, 0), Whole, WholeBody(delivered)
  PROVE  ChunkedInv' /\ CallIs
<1>1. /\ delivered' = delivered
      /\ returned' = [is |-> "none", slice |-> <<>>] /\ delivered \in Seq(Nat)
  BY DEF Nothing, ReaderType
<1>2. read_state'.is = "completed" /\ read_state'.read = Len(delivered')
  BY <1>1 DEF Sized
<1>3. PartOfBody(delivered)' /\ WholeBody(delivered)'
  BY <1>1, BodyStays
<1>4. Whole'
  BY MessageStays
<1>5. CallIs
  <2>1. returned'.is = "none" /\ returned'.slice = <<>> /\ delivered' = delivered \o <<>>
    BY <1>1
  <2> QED BY <1>2, <2>1 DEF CallIs
<1> QED BY <1>2, <1>3, <1>4, <1>5 DEF ChunkedInv

(* A call that returns a slice, and reads on. *)
LEMMA ReturnsSome ==
  ASSUME delivered' = delivered \o returned'.slice, returned'.is = "some", read_state'.is = "chunked"
  PROVE  CallIs
BY DEF CallIs

(* The bytes from start on, l of them, begin with a chunk head, and nothing has
   been read behind them. *)
HeadRead(p, start, l) ==
  /\ framing = "chunked" /\ UNCHANGED message_vars
  /\ p \in Starts /\ IsBodyUpTo(delivered, p) /\ read_state.read = Len(delivered)
  /\ Holds(body_buffer', start, l, p)
  /\ taken' = p + l /\ taken' <= cut /\ rewind_buf_size' = 0

(* parse_chunked_buf, once its parser has found a head of a size that is not 0. *)
LEMMA ChunkReturned ==
  ASSUME ReaderType, NEW p \in Nat, NEW start \in Nat, NEW l \in Nat \ {0}, HeadRead(p, start, l),
         NEW ext \in Nat, NEW size \in Nat \ {0}, HeadAt(wire, ext, p, size),
         PayloadAt(wire, p + ext + 3, size), p + ext + 5 + size \in Starts,
         NEW payload \in Nat, payload = ext + 3, payload <= l,
         NEW actual \in Nat, actual = IF payload + size > l THEN l - payload ELSE size,
         Some(body_buffer', start + payload, actual),
         read_state' = IF payload + size + 2 >= l
                         THEN Chunked(read_state.read + actual, 0, 0, payload + size + 2 - l)
                         ELSE Chunked(read_state.read + size, start + (payload + size + 2), start + l, 0)
  PROVE  ChunkedInv' /\ CallIs
<1>1. /\ framing = "chunked" /\ UNCHANGED message_vars
      /\ IsBodyUpTo(delivered, p) /\ read_state.read = Len(delivered)
      /\ taken' = p + l /\ taken' <= cut /\ rewind_buf_size' = 0
      /\ Holds(body_buffer', start, l, p)
  BY DEF HeadRead
<1>2. cut \in Nat /\ Len(wire) \in Nat /\ cut <= Len(wire)
  BY WireIs
<1>3. PICK q \in Nat : q = p + ext + 3 /\ q = p + payload
  OBVIOUS
<1>4. PICK begin \in Nat : begin = start + payload
  OBVIOUS
<1>5. Holds(body_buffer', begin, actual, q)
  <2>1. payload + actual <= l /\ begin = start + payload /\ q = p + payload
    BY <1>3, <1>4
  <2> QED BY <1>1, <2>1, HoldsPart
<1>6. CASE payload + size + 2 >= l
  <2>1. PICK z \in Nat : z = p + l
    OBVIOUS
  <2>2. DataBehind(p, q, actual, z)
    <3>1. q <= z /\ z <= q + size + 2 /\ z <= Len(wire)
      BY <1>1, <1>2, <1>3, <1>6, <2>1
    <3>2. actual = IF z > q + size THEN size ELSE z - q
      BY <1>3, <2>1
    <3>3. PayloadAt(wire, q, size)
      BY <1>3
    <3> QED BY <1>3, <3>1, <3>2, <3>3, ChunkData
  <2>3. /\ IsBodyUpTo(delivered', z) /\ Len(delivered') = Len(delivered) + actual
        /\ delivered' = delivered \o returned'.slice /\ returned'.is = "some"
    BY <1>1, <1>4, <1>5, <2>2, Returns
  <2>4. PICK e \in Nat : e = payload + size + 2 - l
    BY <1>6
  <2>5. read_state' = Chunked(Len(delivered'), 0, 0, e)
    BY <1>1, <1>6, <2>3, <2>4
  <2>6. z + e \in Starts
    <3>1. z + e = p + ext + 5 + size
      BY <2>1, <2>4
    <3> QED BY <3>1
  <2>7. ASSUME NEW i \in 1..e PROVE wire[z + i].kind = "data" <=> i <= e - 2
    <3>1. PICK j \in 1..(size + 2) : z + i = q + j /\ (i <= e - 2 <=> j <= size)
      <4>1. z + i - q \in 1..(size + 2) /\ z + i = q + (z + i - q)
            /\ (i <= e - 2 <=> z + i - q <= size)
        BY <1>3, <2>1, <2>4
      <4> QED BY <4>1
    <3>2. PayloadAt(wire, q, size)
      BY <1>3
    <3>3. wire[q + j].kind = "data" <=> j <= size
      <4>1. j \in 1..size \/ j = size + 1 \/ j = size + 2
        OBVIOUS
      <4> QED BY <3>2, <4>1 DEF PayloadAt
    <3> QED BY <3>1, <3>3
  <2>8. ChunkedInv'
    <3>1. taken' = z
      BY <1>1, <2>1
    <3> QED BY <1>1, <2>3, <2>5, <2>6, <2>7, <3>1, AwaitsChunk
  <2>9. read_state'.is = "chunked"
    BY <2>5 DEF Chunked
  <2> QED BY <2>3, <2>8, <2>9, ReturnsSome
<1>7. CASE ~(payload + size + 2 >= l)
  <2>1. PICK z \in Nat : z = p + ext + 5 + size
    OBVIOUS
  <2>2. actual = size
    BY <1>7
  <2>3. DataBehind(p, q, actual, z)
    <3>1. q <= z /\ z <= q + size + 2 /\ z <= Len(wire)
      BY <1>1, <1>2, <1>3, <1>7, <2>1
    <3>2. actual = IF z > q + size THEN size ELSE z - q
      BY <1>3, <2>1, <2>2
    <3>3. PayloadAt(wire, q, size)
      BY <1>3
    <3> QED BY <1>3, <3>1, <3>2, <3>3, ChunkData
  <2>4. /\ IsBodyUpTo(delivered', z) /\ Len(delivered') = Len(delivered) + actual
        /\ delivered' = delivered \o returned'.slice /\ returned'.is = "some"
    BY <1>1, <1>4, <1>5, <2>3, Returns
  <2>5. PICK h \in Nat, end \in Nat \ {0} : h = start + (payload + size + 2) /\ end = start + l
    OBVIOUS
  <2>6. read_state' = Chunked(Len(delivered'), h, end, 0)
    BY <1>1, <1>7, <2>2, <2>4, <2>5
  <2>7. h # 0 /\ z \in Starts /\ taken' = z + (end - h)
    BY <1>1, <1>7, <2>1, <2>5
  <2>m. PICK m \in Nat : m = end - h
    BY <1>7, <2>5
  <2>8. Holds(body_buffer', h, m, z)
    <3>1. PICK k \in Nat : k = payload + size + 2
      OBVIOUS
    <3>2. k + m <= l /\ h = start + k /\ z = p + k
      BY <2>1, <2>5, <2>m, <3>1
    <3> QED BY <1>1, <3>2, HoldsPart
  <2>9. ChunkedInv'
    <3>1. h = IF h # 0 THEN h ELSE end - 0
      BY <2>7
    <3>2. 0 \in Nat
      OBVIOUS
    <3> QED BY <1>1, <2>4, <2>6, <2>7, <2>8, <2>m, <3>1, <3>2, HasHead
  <2>10. read_state'.is = "chunked"
    BY <2>6 DEF Chunked
  <2> QED BY <2>4, <2>9, <2>10, ReturnsSome
<1> QED BY <1>6, <1>7

(* parse_chunked_buf keeps the invariant, wherever its buffer ends. *)
LEMMA ParseFaithful ==
  ASSUME ReaderType, NEW start \in Nat, NEW l \in Nat \ {0}, NEW p, HeadRead(p, start, l),
         ParseChunkedBuf(body_buffer', start, start + l)
  PROVE  ChunkedInv' /\ CallIs
<1> DEFINE buffer == body_buffer'
           ext    == message.ext
           b      == SubSeq(buffer, start + 1, start + l)
           status == ParseChunkSize(b)
           read   == read_state.read
<1>1. /\ framing = "chunked" /\ UNCHANGED message_vars
      /\ p \in Starts /\ IsBodyUpTo(delivered, p) /\ read = Len(delivered)
      /\ taken' = p + l /\ taken' <= cut /\ rewind_buf_size' = 0
      /\ Holds(buffer, start, l, p)
  BY DEF HeadRead
<1>2. /\ buffer \in Seq(Nat) /\ start + l <= Len(buffer) /\ \A i \in 1..l : buffer[start + i] = p + i
  BY <1>1 DEF Holds
<1>3. message \in Messages /\ ext \in Nat /\ p \in Nat
  BY <1>1, WireIs, MessageIs, StartsIs
<1>4. cut \in Nat /\ Len(wire) \in Nat /\ cut <= Len(wire)
  BY WireIs
<1>5. b \in Seq(Nat) /\ Len(b) = l /\ \A i \in 1..l : b[i] = p + i
  <2>1. /\ start + 1 \in Nat /\ start + 1 >= 1 /\ start + l \in Nat /\ start + 1 <= start + l + 1
        /\ start + l - (start + 1) + 1 = l
        /\ \A i \in 1..l : start + 1 + i - 1 = start + i
    OBVIOUS
  <2>2. PICK m \in Nat, n \in Nat : m = start + 1 /\ n = start + l
    BY <2>1
  <2> HIDE DEF buffer
  <2>3. /\ SubSeq(buffer, m, n) \in Seq(Nat) /\ Len(SubSeq(buffer, m, n)) = n - m + 1
        /\ \A i \in 1..(n - m + 1) : SubSeq(buffer, m, n)[i] = buffer[m + i - 1]
    BY <1>2, <2>1, <2>2, SubSeqIs
  <2>4. n - m + 1 = l /\ \A i \in 1..l : m + i - 1 = start + i
    BY <2>1, <2>2
  <2> QED BY <1>2, <2>2, <2>3, <2>4
<1>6. PICK size \in Nat :
        /\ HeadAt(wire, ext, p, size) /\ p + ext + 3 <= Len(wire)
        /\ size # 0 => PayloadAt(wire, p + ext + 3, size) /\ p + ext + 5 + size \in Starts
        /\ size = 0 => \A i \in (p + ext + 4)..Len(wire) : wire[i].kind # "data"
  BY <1>1, StartsIs
<1> HIDE DEF b, ext, buffer
<1>7. /\ l < ext + 3 => status.is = "partial"
      /\ l >= ext + 3 => status.is = "complete" /\ status.payload = ext + 3 /\ status.size = size
  BY <1>3, <1>5, <1>6, ParseAt
<1>8. \/ status.is = "error" /\ Interrupted
      \/ status.is = "partial" /\ Len(b) > HeadLimit /\ Interrupted
      \/ /\ status.is = "partial" /\ Len(b) <= HeadLimit
         /\ read_state' = Chunked(read, 0, start + l, Len(b))
         /\ Some(buffer, 0, 0)
      \/ /\ status.is = "complete" /\ status.size = 0
         /\ read_state' = Sized("completed", read, 0)
         /\ Nothing("none")
      \/ /\ status.is = "complete" /\ status.size > 0
         /\ LET data_end  == status.payload + status.size
                chunk_end == data_end + 2
                actual == IF data_end > Len(b) THEN Len(b) - status.payload ELSE status.size
            IN  /\ Some(buffer, start + status.payload, actual)
                /\ read_state' =
                     IF chunk_end >= Len(b)
                       THEN Chunked(read + actual, 0, 0, chunk_end - Len(b))
                       ELSE Chunked(read + status.size, start + chunk_end, start + l, 0)
  BY DEF ParseChunkedBuf, b, buffer
<1> HIDE DEF status
<1>9. p \in 0..cut
  BY <1>1, <1>3, <1>4
<1>10. CASE l < ext + 3 /\ l > HeadLimit
  <2>0. HeadLimit \in Nat
    BY ReaderAssumption
  <2>1. Interrupted
    BY <1>5, <1>7, <1>8, <1>10, <2>0
  <2>2. LongHeads
    <3>1. ext + 2 > HeadLimit
      BY <1>3, <1>10, <2>0
    <3> QED BY <1>1, <3>1 DEF LongHeads, ext
  <2> QED BY <1>1, <1>9, <2>1, <2>2, GivesUp
<1>11. CASE l < ext + 3 /\ ~(l > HeadLimit)
  <2>1. read_state' = Chunked(read, 0, start + l, l) /\ Some(buffer, 0, 0)
    BY <1>5, <1>7, <1>8, <1>11
  <2>2. DataBehind(p, p, 0, p)
    <3>1. p + 0 = p /\ p <= Len(wire)
      BY <1>3, <1>4, <1>9
    <3> QED BY <1>3, <3>1 DEF DataBehind
  <2>3. Holds(buffer, 0, 0, p)
    <3>1. 0 + 0 <= Len(buffer)
      BY <1>2
    <3> QED BY <1>2, <3>1 DEF Holds
  <2>4. /\ IsBodyUpTo(delivered', p) /\ Len(delivered') = Len(delivered) + 0
        /\ delivered' = delivered \o returned'.slice /\ returned'.is = "some"
    <3>1. 0 \in Nat
      OBVIOUS
    <3> QED BY <1>1, <1>3, <2>1, <2>2, <2>3, <3>1, Returns
  <2>5. PICK end \in Nat \ {0} : end = start + l
    OBVIOUS
  <2>6. Len(delivered') = read
    <3>1. Len(delivered) \in Nat
      BY DEF ReaderType
    <3> QED BY <1>1, <2>4, <3>1
  <2>7. read_state' = Chunked(Len(delivered'), 0, end, l)
    BY <2>1, <2>5, <2>6
  <2>8. ChunkedInv'
    <3>1. start = (IF 0 # 0 THEN 0 ELSE end - l) /\ l = end - start /\ 0 \in Nat
      BY <2>5
    <3>2. Holds(body_buffer', start, l, p)
      BY <1>1 DEF buffer
    <3> QED BY <1>1, <1>3, <2>4, <2>7, <3>1, <3>2, HasHead
  <2>9. read_state'.is = "chunked"
    BY <2>1 DEF Chunked
  <2> QED BY <2>4, <2>8, <2>9, ReturnsSome
<1>12. CASE l >= ext + 3 /\ size = 0
  <2>1. read_state' = Sized("completed", read, 0) /\ Nothing("none")
    BY <1>7, <1>8, <1>12
  <2>2. PICK z \in Nat : z = Len(wire)
    BY <1>4
  <2>3. DataBehind(p, p, 0, z)
    <3>1. ASSUME NEW i \in (p + 1)..z PROVE wire[i].kind # "data"
      <4>1. CASE i \in (p + ext + 4)..z
        BY <1>6, <1>12, <2>2, <4>1
      <4>2. CASE i \notin (p + ext + 4)..z
        <5>1. i - p \in 1..(ext + 3) /\ p + (i - p) = i
          BY <1>3, <4>2
        <5>2. \A k \in 1..(ext + 3) : wire[p + k].kind \in {"size", "ext", "cr", "lf"}
          BY <1>3, <1>6, HeadKinds
        <5> QED BY <5>1, <5>2
      <4> QED BY <4>1, <4>2
    <3>2. p + 0 = p /\ p <= z
      BY <1>3, <1>4, <1>9, <2>2
    <3> QED BY <1>3, <2>2, <3>1, <3>2 DEF DataBehind
  <2>4. WholeBody(delivered)
    <3>1. IsBodyUpTo(delivered, z)
      BY <1>1, <1>3, <2>3, ReturnsNothing
    <3> QED BY <1>1, <2>2, <3>1 DEF WholeBody
  <2>5. Whole
    <3>1. PICK i \in 1..cut, j \in 1..cut : i = p + 1 /\ j = p + ext + 3
      BY <1>1, <1>3, <1>4, <1>12
    <3>2. wire[i].kind = "size" /\ wire[i].n = 0 /\ wire[j].kind = "lf"
      BY <1>6, <1>12, <3>1 DEF HeadAt
    <3>3. j \in i..cut
      BY <1>3, <3>1
    <3> QED BY <1>1, <3>2, <3>3 DEF Whole
  <2> QED BY <1>1, <1>9, <2>1, <2>4, <2>5, Completes
<1>13. CASE l >= ext + 3 /\ size # 0
  <2>1. status.is = "complete" /\ status.payload = ext + 3 /\ status.size = size
    BY <1>7, <1>13
  <2>2. PICK payload \in Nat : payload = ext + 3
    BY <1>3
  <2>3. PICK actual \in Nat : actual = IF payload + size > l THEN l - payload ELSE size
    <3>1. (IF payload + size > l THEN l - payload ELSE size) \in Nat
      BY <1>13, <2>2
    <3> QED BY <3>1
  <2>4. /\ Some(buffer, start + payload, actual)
        /\ read_state' =
             IF payload + size + 2 >= l
               THEN Chunked(read + actual, 0, 0, payload + size + 2 - l)
               ELSE Chunked(read + size, start + (payload + size + 2), start + l, 0)
    BY <1>5, <1>8, <1>13, <2>1, <2>2, <2>3
  <2>5. size \in Nat \ {0} /\ payload <= l
    BY <1>13, <2>2
  <2>6. PayloadAt(wire, p + ext + 3, size) /\ p + ext + 5 + size \in Starts
    BY <1>6, <1>13
  <2> QED BY <1>3, <1>6, <2>2, <2>3, <2>4, <2>5, <2>6, ChunkReturned DEF buffer
<1> QED BY <1>3, <1>10, <1>11, <1>12, <1>13

(* The rest of a chunk, e bytes of it, begins behind p; two of them are no data. *)
RestBehind(p, e) ==
  p + e \in Starts /\ \A i \in 1..e : wire[p + i].kind = "data" <=> i <= e - 2

(* The bytes of that rest are taken from the buffer, as far as they came. *)
LEMMA TakeFaithful ==
  ASSUME ReaderType, framing = "chunked", UNCHANGED message_vars, read_state.read = Len(delivered),
         NEW p \in Nat, p = taken, IsBodyUpTo(delivered, p),
         NEW e \in Nat \ {0}, RestBehind(p, e),
         NEW n \in Nat \ {0}, Holds(body_buffer', 0, n, p), taken' = p + n, taken' <= cut,
         rewind_buf_size' = 0, TakePayload(body_buffer', n, e)
  PROVE  ChunkedInv' /\ CallIs
<1> DEFINE read == read_state.read
<1>1. cut \in Nat /\ Len(wire) \in Nat /\ cut <= Len(wire)
  BY WireIs
<1>2. PICK payload \in Nat : payload = IF e > 2 THEN e - 2 ELSE 0
  OBVIOUS
<1>3. /\ p + e \in Starts
      /\ \A i \in 1..e : wire[p + i].kind = "data" <=> i <= e - 2
  BY DEF RestBehind
<1>4. PICK t \in Nat : t = p + n /\ t <= Len(wire)
  BY <1>1
<1>5. ASSUME e >= n
      PROVE  RestBehind(t, e - n)
  <2>1. PICK d \in Nat : d = e - n
    BY <1>5
  <2>2. t + d \in Starts
    <3>1. t + d = p + e
      BY <1>4, <2>1
    <3> QED BY <1>3, <3>1
  <2>3. ASSUME NEW i \in 1..d PROVE wire[t + i].kind = "data" <=> i <= d - 2
    <3>1. PICK j \in 1..e : j = n + i
      BY <2>1
    <3>2. t + i = p + j /\ (j <= e - 2 <=> i <= d - 2)
      BY <1>4, <2>1, <3>1
    <3> QED BY <1>3, <3>2
  <2> QED BY <2>1, <2>2, <2>3 DEF RestBehind
<1>6. ASSUME NEW l \in Nat, l <= n, Some(body_buffer', 0, l),
             NEW z \in Nat, DataBehind(p, p, l, z)
      PROVE  /\ IsBodyUpTo(delivered', z) /\ Len(delivered') = read + l
             /\ delivered' = delivered \o returned'.slice /\ returned'.is = "some"
  <2>1. Holds(body_buffer', 0, l, p)
    <3>1. 0 + l <= n /\ 0 \in Nat /\ 0 = 0 + 0 /\ p = p + 0
      BY <1>6
    <3> QED BY <3>1, HoldsPart
  <2>2. 0 \in Nat
    OBVIOUS
  <2> QED BY <1>6, <2>1, <2>2, Returns
<1>7. ASSUME e >= n, IsBodyUpTo(delivered', t), read_state' = Chunked(Len(delivered'), 0, 0, e - n)
      PROVE  ChunkedInv' /\ read_state'.is = "chunked"
  <2>1. PICK d \in Nat : d = e - n
    BY <1>7
  <2>2. t + d \in Starts /\ \A i \in 1..d : wire[t + i].kind = "data" <=> i <= d - 2
    BY <1>5, <1>7, <2>1 DEF RestBehind
  <2>3. taken' = t
    BY <1>4
  <2>4. ChunkedInv'
    BY <1>7, <2>1, <2>2, <2>3, AwaitsChunk
  <2> QED BY <1>7, <2>4 DEF Chunked
<1>8. CASE e >= n + 2
  <2>1. Some(body_buffer', 0, n) /\ read_state' = Chunked(read + n, 0, 0, e - n)
    BY <1>8 DEF TakePayload
  <2>2. DataBehind(p, p, n, t)
    <3>1. ASSUME NEW i \in (p + 1)..(p + n) PROVE wire[i].kind = "data"
      <4>1. PICK j \in 1..e : i = p + j /\ j <= e - 2
        <5>1. i - p \in 1..e /\ i = p + (i - p) /\ i - p <= e - 2
          BY <1>8
        <5> QED BY <5>1
      <4> QED BY <1>3, <4>1
    <3>2. p + n = t
      BY <1>4
    <3> QED BY <1>4, <3>1, <3>2 DEF DataBehind
  <2>3. /\ IsBodyUpTo(delivered', t) /\ Len(delivered') = read + n
        /\ delivered' = delivered \o returned'.slice /\ returned'.is = "some"
    <3>1. n <= n
      OBVIOUS
    <3> QED BY <1>6, <2>1, <2>2, <3>1
  <2>4. ChunkedInv' /\ read_state'.is = "chunked"
    <3>1. e >= n
      BY <1>8
    <3> QED BY <1>7, <2>1, <2>3, <3>1
  <2> QED BY <2>3, <2>4, ReturnsSome
<1>9. CASE e < n + 2 /\ e >= n
  <2>1. Some(body_buffer', 0, payload) /\ read_state' = Chunked(read + payload, 0, 0, e - n)
    BY <1>2, <1>9 DEF TakePayload
  <2>2. payload <= n
    BY <1>2, <1>9
  <2>3. DataBehind(p, p, payload, t)
    <3>1. ASSUME NEW i \in (p + 1)..(p + payload) PROVE wire[i].kind = "data"
      <4>1. PICK j \in 1..e : i = p + j /\ j <= e - 2
        <5>1. i - p \in 1..e /\ i = p + (i - p) /\ i - p <= e - 2
          BY <1>2
        <5> QED BY <5>1
      <4> QED BY <1>3, <4>1
    <3>2. ASSUME NEW i \in (p + payload + 1)..t PROVE wire[i].kind # "data"
      <4>1. PICK j \in 1..e : i = p + j /\ ~(j <= e - 2)
        <5>1. i - p \in 1..e /\ i = p + (i - p) /\ ~(i - p <= e - 2)
          BY <1>2, <1>4, <1>9
        <5> QED BY <5>1
      <4> QED BY <1>3, <4>1
    <3>3. p + payload <= t
      BY <1>4, <2>2
    <3> QED BY <1>4, <3>1, <3>2, <3>3 DEF DataBehind
  <2>4. /\ IsBodyUpTo(delivered', t) /\ Len(delivered') = read + payload
        /\ delivered' = delivered \o returned'.slice /\ returned'.is = "some"
    BY <1>6, <2>1, <2>2, <2>3
  <2>5. ChunkedInv' /\ read_state'.is = "chunked"
    BY <1>7, <1>9, <2>1, <2>4
  <2> QED BY <2>4, <2>5, ReturnsSome
<1>10. CASE e < n
  <2>1. Some(body_buffer', 0, payload) /\ read_state' = Chunked(read + payload, e, n, 0)
    BY <1>2, <1>10 DEF TakePayload
  <2>2. payload <= n
    BY <1>2, <1>10
  <2>3. PICK z \in Nat : z = p + e
    OBVIOUS
  <2>4. DataBehind(p, p, payload, z)
    <3>1. ASSUME NEW i \in (p + 1)..(p + payload) PROVE wire[i].kind = "data"
      <4>1. PICK j \in 1..e : i = p + j /\ j <= e - 2
        <5>1. i - p \in 1..e /\ i = p + (i - p) /\ i - p <= e - 2
          BY <1>2
        <5> QED BY <5>1
      <4> QED BY <1>3, <4>1
    <3>2. ASSUME NEW i \in (p + payload + 1)..z PROVE wire[i].kind # "data"
      <4>1. PICK j \in 1..e : i = p + j /\ ~(j <= e - 2)
        <5>1. i - p \in 1..e /\ i = p + (i - p) /\ ~(i - p <= e - 2)
          BY <1>2, <2>3
        <5> QED BY <5>1
      <4> QED BY <1>3, <4>1
    <3>3. p + payload <= z /\ z <= Len(wire)
      BY <1>1, <1>2, <1>4, <1>10, <2>3
    <3> QED BY <3>1, <3>2, <3>3 DEF DataBehind
  <2>5. /\ IsBodyUpTo(delivered', z) /\ Len(delivered') = read + payload
        /\ delivered' = delivered \o returned'.slice /\ returned'.is = "some"
    BY <1>6, <2>1, <2>2, <2>4
  <2>6. ChunkedInv'
    <3>1. PICK m \in Nat : m = n - e
      BY <1>10
    <3>2. Holds(body_buffer', e, m, z)
      <4>1. e + m <= n /\ e = 0 + e /\ 0 \in Nat
        BY <3>1
      <4> QED BY <2>3, <4>1, HoldsPart
    <3>3. taken' = z + m /\ e = (IF e # 0 THEN e ELSE n - 0) /\ 0 \in Nat /\ z \in Starts
      BY <1>3, <1>10, <2>3, <3>1
    <3>4. read_state' = Chunked(Len(delivered'), e, n, 0)
      BY <2>1, <2>5
    <3> QED BY <2>5, <3>1, <3>2, <3>3, <3>4, HasHead
  <2>7. read_state'.is = "chunked"
    BY <2>1 DEF Chunked
  <2> QED BY <2>5, <2>6, <2>7, ReturnsSome
<1> QED BY <1>8, <1>9, <1>10

LEMMA FromChunked ==
  ASSUME framing = "chunked", UNCHANGED message_vars, rewind_buf_size' = 0, ChunkedInv'
  PROVE  ReaderInv'
<1>1. framing' = "chunked"
  BY MessageStays
<1>2. /\ read_state'.read = Len(delivered')
      /\ read_state'.is \in {"chunked", "completed", "done"}
      /\ read_state'.is = "chunked" => ReadsChunks'
      /\ Finished' => PartOfBody(delivered)'
      /\ read_state'.is = "completed" => Whole' /\ WholeBody(delivered)'
      /\ read_state'.is = "done" => (closes' /\ taken' = cut' /\ ~Whole') \/ LongHeads'
  BY DEF ChunkedInv
<1> QED BY <1>1, <1>2 DEF ReaderInv

(* Where the reader of chunks stands. *)
LEMMA ReadsChunksIs ==
  ASSUME ReaderType, ReaderInv, framing = "chunked", read_state.is = "chunked"
  PROVE  /\ ReadsChunks /\ read_state.read = Len(delivered) /\ Pos \in 0..cut
         /\ IsBodyUpTo(delivered, Pos)
<1>1. ReadsChunks /\ read_state.read = Len(delivered)
  BY DEF ReaderInv
<1>2. Pos \in Nat /\ IsBodyUpTo(delivered, Pos)
  BY <1>1 DEF ReadsChunks
<1>3. Pos <= taken
  <2>1. /\ read_state.start \in Nat /\ read_state.end \in Nat /\ read_state.expect \in Nat
        /\ (read_state.start # 0 => read_state.start < read_state.end)
        /\ rewind_buf_size \in Nat /\ taken \in Nat
    BY DEF ReaderType, ReadStateFits, ReadStateType
  <2> QED BY <2>1 DEF Pos
<1> QED BY <1>1, <1>2, <1>3, WireIs

LEMMA LeftChunkKeeps ==
  ASSUME ReaderType, ReaderInv, framing = "chunked", ReadLeftChunk
  PROVE  ReaderInv' /\ CallIs
<1> DEFINE s == read_state
<1>1. /\ s.is = "chunked" /\ s.start # 0 /\ ParseChunkedBuf(body_buffer, s.start, s.end)
      /\ UNCHANGED <<message_vars, taken, body_buffer, rewind_buf_size, overlapped>>
  BY DEF ReadLeftChunk
<1>2. /\ body_buffer \in Seq(Nat) /\ s.start \in Nat /\ s.end \in Nat
      /\ s.start < s.end /\ s.end <= Len(body_buffer)
  BY <1>1 DEF ReaderType, ReadStateFits, ReadStateType
<1>3. ReadsChunks /\ s.read = Len(delivered) /\ IsBodyUpTo(delivered, Pos) /\ Pos \in Nat
  BY <1>1, ReadsChunksIs
<1>4. HeadInBuffer
  BY <1>2, <1>3 DEF ReadsChunks
<1> DEFINE p == Pos
<1>5. /\ p \in Starts /\ rewind_buf_size = 0
      /\ \A i \in 1..(s.end - s.start) : body_buffer[s.start + i] = p + i
  BY <1>1, <1>4 DEF HeadInBuffer
<1>6. p = taken - s.end + s.start
  BY <1>1 DEF Pos
<1> HIDE DEF s, p
<1>7. PICK start \in Nat, l \in Nat \ {0} : start = s.start /\ l = s.end - s.start /\ s.end = start + l
  BY <1>2
<1>8. HeadRead(p, start, l)
  <2>1. taken \in Nat /\ taken <= cut
    BY WireIs
  <2>2. taken = p + l
    BY <1>2, <1>6, <1>7, <2>1
  <2>3. Holds(body_buffer', start, l, p)
    BY <1>1, <1>2, <1>5, <1>7 DEF Holds
  <2>4. IsBodyUpTo(delivered, p) /\ read_state.read = Len(delivered)
    BY <1>3 DEF p, s
  <2> QED BY <1>1, <1>5, <2>1, <2>2, <2>3, <2>4 DEF HeadRead
<1>9. ParseChunkedBuf(body_buffer', start, start + l)
  BY <1>1, <1>7
<1>10. ChunkedInv' /\ CallIs
  BY <1>8, <1>9, ParseFaithful
<1> QED BY <1>1, <1>5, <1>10, FromChunked

LEMMA NextChunkKeeps ==
  ASSUME ReaderType, ReaderInv, framing = "chunked", NEW n \in Nat, ReadNextChunk(n)
  PROVE  ReaderInv' /\ CallIs
<1> DEFINE s == read_state
<1>1. /\ s.is = "chunked" /\ s.start = 0 /\ s.end = 0 /\ ReadFresh(n) /\ UNCHANGED message_vars
      /\ \/ n = 0 /\ Interrupted
         \/ n > 0 /\ s.expect > 0 /\ TakePayload(body_buffer', n, s.expect)
         \/ n > 0 /\ s.expect = 0 /\ ParseChunkedBuf(body_buffer', 0, n)
  BY DEF ReadNextChunk
<1>n. n \in Nat /\ cut \in Nat /\ taken \in Nat /\ taken <= cut /\ rewind_buf_size \in Nat
  BY WireIs DEF ReaderType
<1>2. n \in Nat /\ cut \in Nat /\ taken \in Nat /\ taken <= cut /\ s.expect \in Nat
      /\ rewind_buf_size \in Nat
  BY <1>n DEF ReaderType, ReadStateFits, ReadStateType
<1>3. ReadsChunks /\ s.read = Len(delivered) /\ IsBodyUpTo(delivered, Pos) /\ Pos \in 0..cut
  BY <1>1, ReadsChunksIs
<1>4. Pos = taken - rewind_buf_size
  BY <1>1 DEF Pos
<1>5. rewind_buf_size > 0 => \A i \in 1..rewind_buf_size : body_buffer[i] = taken - rewind_buf_size + i
  <2> SUFFICES ASSUME rewind_buf_size > 0, NEW i \in 1..rewind_buf_size
               PROVE  body_buffer[i] = taken - rewind_buf_size + i
    OBVIOUS
  <2>1. taken = rewind_buf_size /\ body_buffer[i] = i
    BY DEF ReaderInv
  <2> QED BY <1>2, <2>1
<1>6. /\ rewind_buf_size' = 0
      /\ body_buffer' \in Seq(Nat) /\ Len(body_buffer') = Len(body_buffer)
      /\ taken' \in taken..cut /\ n <= Len(body_buffer) /\ taken' = taken + n - rewind_buf_size
      /\ n = 0 => closes /\ taken = cut /\ rewind_buf_size = 0
      /\ \A i \in 1..n : body_buffer'[i] = taken - rewind_buf_size + i
  BY <1>1, <1>2, <1>5, ReadFreshIs
<1>u. n = 0 => closes /\ taken = cut /\ rewind_buf_size = 0
  BY <1>6
<1>t. taken' \in Nat /\ taken' <= cut /\ taken' = taken + n - rewind_buf_size
  <2>1. taken' \in taken..cut
    BY <1>6
  <2>2. taken' \in Nat /\ taken' <= cut
    BY <1>n, <2>1
  <2>3. taken' = taken + n - rewind_buf_size
    BY <1>6
  <2> QED BY <2>2, <2>3
<1>7. s.expect = 0 => Pos \in Starts
  BY <1>1, <1>3 DEF ReadsChunks
<1>8. s.expect # 0 => rewind_buf_size = 0 /\ RestBehind(taken, s.expect)
  BY <1>1, <1>3 DEF ReadsChunks, ChunkAwaited, RestBehind
<1> DEFINE p == Pos
<1>9. p \in Nat /\ p \in 0..cut /\ p = taken - rewind_buf_size
  BY <1>2, <1>3, <1>4
<1>a. IsBodyUpTo(delivered, p) /\ read_state.read = Len(delivered)
  BY <1>3
<1>b. s.expect = 0 => p \in Starts
  BY <1>7
<1> HIDE DEF s, p
<1>10. Holds(body_buffer', 0, n, p) /\ taken' = p + n /\ taken' <= cut
  <2>1. 0 + n <= Len(body_buffer')
    BY <1>2, <1>6
  <2>2. \A i \in 1..n : 0 + i = i
    OBVIOUS
  <2>3. taken' = p + n /\ taken' <= cut
    <3>1. taken - rewind_buf_size + n = taken + n - rewind_buf_size
      BY <1>n
    <3> QED BY <1>9, <1>t, <3>1
  <2> QED BY <1>6, <1>9, <2>1, <2>2, <2>3 DEF Holds
<1>11. CASE n = 0 /\ Interrupted
  <2>1. closes /\ taken = cut /\ rewind_buf_size = 0 /\ taken' = cut
    <3>1. closes /\ taken = cut /\ rewind_buf_size = 0 /\ n = 0
      BY <1>11, <1>u
    <3>2. taken + n - rewind_buf_size = cut
      BY <1>n, <3>1
    <3> QED BY <1>t, <3>1, <3>2
  <2>2. message.ext \in Nat
    BY WireIs, MessageIs
  <2>3. PICK b \in Starts : cut < b + message.ext + 3
    <3>1. CASE s.expect = 0
      <4>1. p \in Starts /\ cut < p + message.ext + 3
        BY <1>2, <1>9, <1>b, <2>1, <2>2, <3>1
      <4> QED BY <4>1
    <3>2. CASE s.expect # 0
      <4>1. taken + s.expect \in Starts
        BY <1>8, <3>2 DEF RestBehind
      <4>2. cut < (taken + s.expect) + message.ext + 3
        BY <1>2, <2>1, <2>2
      <4> QED BY <4>1, <4>2
    <3> QED BY <3>1, <3>2
  <2>4. ~Whole
    BY <2>3, NotWhole
  <2>5. ChunkedInv' /\ CallIs
    BY <1>1, <1>9, <1>a, <1>11, <2>1, <2>4, GivesUp
  <2> QED BY <1>1, <1>6, <2>5, FromChunked
<1>12. CASE n > 0 /\ s.expect > 0 /\ TakePayload(body_buffer', n, s.expect)
  <2>1. n \in Nat \ {0}
    BY <1>2, <1>12
  <2>2. PICK e \in Nat \ {0} : e = s.expect
    BY <1>2, <1>12
  <2>3. p = taken /\ RestBehind(p, e)
    BY <1>2, <1>8, <1>9, <2>2
  <2>4. ChunkedInv' /\ CallIs
    BY <1>1, <1>6, <1>9, <1>a, <1>10, <1>12, <2>1, <2>2, <2>3, TakeFaithful
  <2> QED BY <1>1, <1>6, <2>4, FromChunked
<1>13. CASE n > 0 /\ s.expect = 0 /\ ParseChunkedBuf(body_buffer', 0, n)
  <2>1. n \in Nat \ {0} /\ 0 \in Nat /\ 0 + n = n
    BY <1>2, <1>13
  <2>2. HeadRead(p, 0, n)
    BY <1>1, <1>6, <1>a, <1>b, <1>10, <1>13 DEF HeadRead
  <2>3. ParseChunkedBuf(body_buffer', 0, 0 + n)
    BY <1>13, <2>1
  <2>4. ChunkedInv' /\ CallIs
    BY <2>1, <2>2, <2>3, ParseFaithful
  <2> QED BY <1>1, <1>6, <2>4, FromChunked
<1> QED BY <1>1, <1>11, <1>12, <1>13 DEF s

LEMMA PartialHeadKeeps ==
  ASSUME ReaderType, ReaderInv, framing = "chunked", NEW n \in 0..cut, ReadPartialHead(n)
  PROVE  ReaderInv' /\ CallIs
<1> DEFINE s == read_state
           p == Pos
<1>1. /\ s.is = "chunked" /\ s.start = 0 /\ s.end # 0 /\ n \in Received(s.expect)
      /\ body_buffer' = Filled(MovedHead, s.expect, n) /\ taken' = taken + n
      /\ ParseChunkedBuf(body_buffer', 0, s.expect + n)
      /\ UNCHANGED <<message_vars, rewind_buf_size, overlapped>>
  BY DEF ReadPartialHead
<1>2. /\ n \in Nat /\ cut \in Nat /\ taken \in Nat /\ taken <= cut /\ Len(body_buffer) \in Nat
      /\ s.end \in Nat /\ s.expect \in Nat /\ s.expect \in 1..s.end /\ s.end <= Len(body_buffer)
  BY <1>1, WireIs DEF ReaderType, ReadStateFits, ReadStateType
<1>3. ReadsChunks /\ s.read = Len(delivered) /\ IsBodyUpTo(delivered, p) /\ p \in 0..cut
  BY <1>1, ReadsChunksIs
<1>4. /\ p \in Starts /\ rewind_buf_size = 0
      /\ \A i \in 1..(s.end - (s.end - s.expect)) : body_buffer[s.end - s.expect + i] = p + i
  <2>1. HeadInBuffer
    BY <1>1, <1>3 DEF ReadsChunks
  <2> QED BY <1>1, <2>1 DEF HeadInBuffer
<1>5. p = taken - s.expect /\ p \in Nat
  BY <1>1, <1>3 DEF Pos
<1>6. taken + n <= cut /\ s.expect + n <= Len(body_buffer)
  <2>1. s.expect \in 0..Len(body_buffer)
    BY <1>2
  <2> QED BY <1>1, <2>1, ReceivedIs
<1>7. /\ MovedHead \in Seq(Nat) /\ Len(MovedHead) = Len(body_buffer)
      /\ \A i \in 1..Len(body_buffer) :
           MovedHead[i] = IF i <= s.expect THEN body_buffer[s.end - s.expect + i] ELSE body_buffer[i]
  BY <1>1, MovedHeadIs
<1>a. read_state.read = Len(delivered)
  BY <1>3
<1> HIDE DEF s, p
<1>8. PICK e \in Nat, l \in Nat \ {0} : e = s.expect /\ l = e + n
  BY <1>2
<1>9. /\ body_buffer' \in Seq(Nat) /\ Len(body_buffer') = Len(body_buffer)
      /\ \A i \in 1..Len(body_buffer) :
           body_buffer'[i] = IF i \in (e + 1)..(e + n) THEN taken + i - e ELSE MovedHead[i]
  <2>1. PICK buffer \in Seq(Nat) : buffer = MovedHead
    BY <1>7
  <2>2. /\ Filled(buffer, e, n) \in Seq(Nat) /\ Len(Filled(buffer, e, n)) = Len(buffer)
        /\ \A i \in 1..Len(buffer) :
             Filled(buffer, e, n)[i] = IF i \in (e + 1)..(e + n) THEN taken + i - e ELSE buffer[i]
    BY <1>2, <2>1, FilledIs
  <2>3. body_buffer' = Filled(buffer, e, n) /\ Len(buffer) = Len(body_buffer)
    BY <1>1, <1>7, <1>8, <2>1
  <2> QED BY <2>1, <2>2, <2>3
<1>10. Holds(body_buffer', 0, l, p)
  <2>1. ASSUME NEW i \in 1..l PROVE body_buffer'[0 + i] = p + i
    <3>1. i \in 1..Len(body_buffer) /\ 0 + i = i
      BY <1>2, <1>6, <1>8
    <3>2. CASE i <= e
      <4>1. body_buffer'[i] = body_buffer[s.end - e + i]
        BY <1>7, <1>8, <1>9, <3>1, <3>2
      <4>2. i \in 1..(s.end - (s.end - e))
        BY <1>2, <1>8, <3>2
      <4> QED BY <1>4, <1>8, <3>1, <4>1, <4>2
    <3>3. CASE ~(i <= e)
      <4>1. i \in (e + 1)..(e + n)
        BY <1>8, <3>3
      <4>2. body_buffer'[i] = taken + i - e
        BY <1>9, <3>1, <4>1
      <4> QED BY <1>2, <1>5, <1>8, <3>1, <4>2
    <3> QED BY <3>2, <3>3
  <2>2. 0 + l <= Len(body_buffer')
    BY <1>6, <1>8, <1>9
  <2> QED BY <1>9, <2>1, <2>2 DEF Holds
<1>11. HeadRead(p, 0, l)
  <2>1. taken' = p + l /\ taken' <= cut
    BY <1>1, <1>2, <1>5, <1>6, <1>8
  <2> QED BY <1>1, <1>3, <1>4, <1>10, <1>a, <2>1 DEF HeadRead
<1>12. ParseChunkedBuf(body_buffer', 0, 0 + l)
  <2>1. 0 + l = s.expect + n
    BY <1>8
  <2> QED BY <1>1, <2>1
<1>13. ChunkedInv' /\ CallIs
  <2>1. 0 \in Nat
    OBVIOUS
  <2> QED BY <1>8, <1>11, <1>12, <2>1, ParseFaithful
<1> QED BY <1>1, <1>4, <1>13, FromChunked

-----------------------------------------------------------------------------
(* The calls keep what the invariant says of a message without chunks. *)
LEMMA PlainIs ==
  ASSUME ReaderType, framing # "chunked"
  PROVE  /\ Size \in Nat /\ Size <= Len(wire) /\ Body = 1..Size
         /\ framing = "closed" => Len(wire) = Size
<1>1. message \in Messages /\ wire = WireOf[message]
  BY WireIs DEF wire
<1>2. message.beyond \in Nat /\ Size \in Nat /\ (framing = "closed" => message.beyond = 0)
  BY <1>1, MessageIs DEF Size, framing
<1>3. Len(wire) = Size + message.beyond /\ Body = 1..Size
  BY <1>1, PlainLayout DEF Size, framing, Body
<1> QED BY <1>2, <1>3

(* What was returned is the first bytes of the message. *)
FirstBytes(s, k) == s \in Seq(Nat) /\ Len(s) = k /\ \A i \in 1..k : s[i] = i

LEMMA PlainReturns ==
  ASSUME ReaderType, NEW k \in Nat, FirstBytes(delivered, k), NEW l \in Nat,
         Holds(body_buffer', 0, l, k), Some(body_buffer', 0, l)
  PROVE  /\ FirstBytes(delivered', k + l) /\ returned'.is = "some"
         /\ delivered' = delivered \o returned'.slice
<1>h. /\ body_buffer' \in Seq(Nat) /\ 0 + l <= Len(body_buffer')
      /\ \A i \in 1..l : body_buffer'[0 + i] = k + i
  BY DEF Holds
<1>1. delivered \in Seq(Nat) /\ Len(delivered) = k /\ \A i \in 1..k : delivered[i] = i
  BY DEF FirstBytes
<1>2. /\ returned'.is = "some" /\ returned'.slice \in Seq(Nat) /\ Len(returned'.slice) = l
      /\ \A i \in 1..l : returned'.slice[i] = body_buffer'[0 + i]
      /\ delivered' = delivered \o returned'.slice
  <2>1. 0 \in Nat
    OBVIOUS
  <2> QED BY <1>h, <1>1, <2>1, SomeIs
<1>3. PICK t \in Seq(Nat) : t = returned'.slice
  BY <1>2
<1>4. Behind(Nat, delivered \o t, delivered, t, k, l)
  BY <1>1, <1>2, <1>3, BehindIs
<1> DEFINE u == delivered \o t
<1>5. u \in Seq(Nat) /\ Len(u) = k + l /\ (\A i \in 1..k : u[i] = delivered[i])
      /\ \A i \in 1..l : u[k + i] = t[i]
  BY <1>4 DEF Behind
<1> HIDE DEF u
<1>6. ASSUME NEW i \in 1..(k + l) PROVE u[i] = i
  <2>1. CASE i <= k
    BY <1>1, <1>5, <2>1
  <2>2. CASE ~(i <= k)
    <3>1. PICK j \in 1..l : i = k + j
      <4>1. i - k \in 1..l /\ i = k + (i - k)
        BY <2>2
      <4> QED BY <4>1
    <3>2. u[k + j] = t[j] /\ t[j] = k + j
      BY <1>h, <1>2, <1>3, <1>5, <3>1
    <3> QED BY <3>1, <3>2
  <2> QED BY <2>1, <2>2
<1>7. FirstBytes(u, k + l)
  BY <1>5, <1>6 DEF FirstBytes
<1> QED BY <1>2, <1>3, <1>7 DEF u

LEMMA FirstBytesAre ==
  ASSUME ReaderType, framing # "chunked", NEW s, NEW k \in Nat, FirstBytes(s, k), k <= Size,
         NEW z \in Nat, z = k \/ (k = Size /\ k <= z)
  PROVE  IsBodyUpTo(s, z)
<1>1. s \in Seq(Nat) /\ Len(s) = k /\ \A i \in 1..k : s[i] = i
  BY DEF FirstBytes
<1> QED BY <1>1, PlainUpTo

(* The invariant of a reader of a length, or until the close. *)
PlainInv ==
  /\ read_state.read = Len(delivered)
  /\ FirstBytes(delivered, Len(delivered)) /\ read_state.read <= taken /\ read_state.read <= Size
  /\ read_state.is # "chunked"
  /\ read_state.is = "partial" => ReadsPartially
  /\ read_state.is = "http10"  => ReadsUntilClosed
  /\ Finished => PartOfBody(delivered)
  /\ read_state.is = "completed" => Whole /\ WholeBody(delivered)
                                    /\ (framing = "length" => read_state.read = Size)
  /\ read_state.is = "done" => (closes /\ taken = cut /\ ~Whole) \/ LongHeads

LEMMA FromPlain ==
  ASSUME framing # "chunked", UNCHANGED message_vars, rewind_buf_size' = 0, PlainInv'
  PROVE  ReaderInv'
<1>1. framing' # "chunked"
  BY MessageStays
<1>2. /\ read_state'.read = Len(delivered')
      /\ FirstBytes(delivered', Len(delivered'))
      /\ read_state'.read <= taken' /\ read_state'.read <= Size'
      /\ read_state'.is # "chunked"
      /\ read_state'.is = "partial" => ReadsPartially'
      /\ read_state'.is = "http10"  => ReadsUntilClosed'
      /\ Finished' => PartOfBody(delivered)'
      /\ read_state'.is = "completed" => Whole' /\ WholeBody(delivered)'
                                         /\ (framing' = "length" => read_state'.read = Size')
      /\ read_state'.is = "done" => (closes' /\ taken' = cut' /\ ~Whole') \/ LongHeads'
  BY DEF PlainInv
<1>3. \A i \in DOMAIN delivered' : delivered'[i] = i
  BY <1>2 DEF FirstBytes
<1> QED BY <1>1, <1>2, <1>3 DEF ReaderInv

LEMMA PlainFresh ==
  ASSUME ReaderType, ReaderInv, framing # "chunked", NEW n \in Nat, ReadFresh(n),
         ReadsPartially \/ ReadsUntilClosed
  PROVE  /\ read_state.read \in Nat /\ read_state.read = Len(delivered) /\ read_state.read <= Size
         /\ FirstBytes(delivered, read_state.read) /\ read_state.read <= cut
         /\ rewind_buf_size' = 0 /\ taken' = read_state.read + n /\ taken' <= cut
         /\ Holds(body_buffer', 0, n, read_state.read)
         /\ n = 0 => closes /\ taken = cut /\ read_state.read = cut
<1> DEFINE read == read_state.read
<1>1. read \in Nat /\ delivered \in Seq(Nat)
  BY DEF ReaderType, ReadStateFits, ReadStateType
<1>2. taken \in Nat /\ cut \in Nat /\ taken <= cut /\ rewind_buf_size \in Nat
  BY WireIs DEF ReaderType
<1>3. /\ read = Len(delivered) /\ read <= Size /\ \A i \in DOMAIN delivered : delivered[i] = i
      /\ rewind_buf_size > 0 => taken = rewind_buf_size /\ \A i \in 1..rewind_buf_size : body_buffer[i] = i
  BY DEF ReaderInv
<1>4. read = taken - rewind_buf_size
  BY DEF ReadsPartially, ReadsUntilClosed, Pos
<1>5. FirstBytes(delivered, read)
  BY <1>1, <1>3 DEF FirstBytes
<1>6. rewind_buf_size > 0 => \A i \in 1..rewind_buf_size : body_buffer[i] = taken - rewind_buf_size + i
  BY <1>2, <1>3
<1> HIDE DEF read
<1>7. /\ rewind_buf_size' = 0
      /\ body_buffer' \in Seq(Nat) /\ Len(body_buffer') = Len(body_buffer)
      /\ taken' \in taken..cut /\ n <= Len(body_buffer) /\ taken' = taken + n - rewind_buf_size
      /\ n = 0 => closes /\ taken = cut /\ rewind_buf_size = 0
      /\ \A i \in 1..n : body_buffer'[i] = taken - rewind_buf_size + i
  BY <1>6, ReadFreshIs
<1>8. taken' <= cut
  BY <1>2, <1>7
<1>9. taken' = read + n
  <2>1. taken' = taken + n - rewind_buf_size
    BY <1>7
  <2>2. taken + n - rewind_buf_size = read + n
    BY <1>2, <1>4
  <2> QED BY <2>1, <2>2
<1>10. Holds(body_buffer', 0, n, read)
  <2>1. Len(body_buffer') \in Nat /\ n <= Len(body_buffer') /\ body_buffer' \in Seq(Nat)
    BY <1>7
  <2>2. ASSUME NEW i \in 1..n PROVE body_buffer'[0 + i] = read + i
    <3>1. 0 + i = i /\ taken - rewind_buf_size + i = read + i
      BY <1>4
    <3> QED BY <1>7, <3>1
  <2>3. 0 + n <= Len(body_buffer')
    BY <2>1
  <2> QED BY <2>1, <2>2, <2>3 DEF Holds
<1>11. n = 0 => closes /\ taken = cut /\ read = cut
  <2>1. n = 0 => closes /\ taken = cut /\ rewind_buf_size = 0
    BY <1>7
  <2> QED BY <1>2, <1>4, <2>1
<1>12. read <= cut
  BY <1>2, <1>4
<1> QED BY <1>1, <1>3, <1>5, <1>7, <1>8, <1>9, <1>10, <1>11, <1>12 DEF read

LEMMA PartiallyKeeps ==
  ASSUME ReaderType, ReaderInv, NEW n \in Nat, ReadPartially(n)
  PROVE  ReaderInv' /\ CallIs
<1> DEFINE s == read_state
<1>1. /\ s.is = "partial" /\ ReadFresh(n) /\ UNCHANGED message_vars
      /\ \/ /\ n = 0 /\ Nothing("error")
            /\ read_state' = Sized("done", s.read, 0)
         \/ /\ n >= s.expect /\ Some(body_buffer', 0, s.expect)
            /\ read_state' = Sized("completed", s.read + s.expect, 0)
         \/ /\ n \in 1..(s.expect - 1) /\ Some(body_buffer', 0, n)
            /\ read_state' = Sized("partial", s.read + n, s.expect - n)
  BY DEF ReadPartially
<1>2. ReadsPartially
  BY <1>1 DEF ReaderInv
<1>3. framing = "length" /\ s.expect > 0 /\ s.read + s.expect = Size
  BY <1>2 DEF ReadsPartially
<1>4. /\ s.read \in Nat /\ s.read = Len(delivered) /\ s.read <= Size
      /\ FirstBytes(delivered, s.read) /\ s.read <= cut
      /\ rewind_buf_size' = 0 /\ taken' = s.read + n /\ taken' <= cut
      /\ Holds(body_buffer', 0, n, s.read)
      /\ n = 0 => closes /\ taken = cut /\ s.read = cut
  BY <1>1, <1>2, <1>3, PlainFresh
<1>5. s.expect \in Nat /\ cut \in Nat /\ cut <= Len(wire) /\ Len(wire) \in Nat
  BY WireIs DEF ReaderType, ReadStateFits, ReadStateType
<1>6. Size \in Nat /\ Size <= Len(wire) /\ Body = 1..Size
  BY <1>3, PlainIs
<1>m. framing' = "length" /\ Size' = Size /\ closes' = closes /\ cut' = cut /\ Whole' = Whole
  BY <1>1, <1>3, MessageStays
<1>c. framing # "chunked"
  BY <1>3
<1> HIDE DEF s
<1>a. s.read \in Nat /\ s.expect \in Nat /\ s.expect > 0 /\ s.read + s.expect = Size
  BY <1>3, <1>4, <1>5
<1>7. CASE n = 0 /\ Nothing("error") /\ read_state' = Sized("done", s.read, 0)
  <2>1. /\ delivered' = delivered /\ returned' = [is |-> "error", slice |-> <<>>]
        /\ delivered \in Seq(Nat) /\ Len(delivered) = s.read
    BY <1>4, <1>7 DEF Nothing, ReaderType
  <2>2. read_state'.is = "done" /\ read_state'.read = s.read
    BY <1>7 DEF Sized
  <2>3. closes /\ s.read = cut /\ taken' = cut
    BY <1>4, <1>7
  <2>4. ~Whole
    <3>1. Size \in Body /\ ~(Size <= cut)
      BY <1>5, <1>6, <1>a, <2>3
    <3> QED BY <1>3, <3>1 DEF Whole
  <2>5. PartOfBody(delivered)'
    <3>1. IsBodyUpTo(delivered, s.read)
      BY <1>c, <1>4, FirstBytesAre
    <3>2. s.read \in 0..cut
      BY <1>4, <1>5
    <3>3. IsBodyUpTo(delivered', s.read)
      BY <2>1, <3>1
    <3> QED BY <1>1, <3>2, <3>3, BodyStays
  <2>6. PlainInv'
    <3>1. FirstBytes(delivered', Len(delivered')) /\ read_state'.read = Len(delivered')
      BY <1>4, <2>1, <2>2
    <3>2. read_state'.read <= taken' /\ read_state'.read <= Size'
      BY <1>4, <1>5, <1>m, <2>2, <2>3
    <3> QED BY <1>m, <2>2, <2>3, <2>4, <2>5, <3>1, <3>2 DEF PlainInv
  <2>7. CallIs
    <3>1. returned'.is = "error" /\ returned'.slice = <<>> /\ delivered' = delivered \o <<>>
      BY <2>1
    <3> QED BY <2>2, <3>1 DEF CallIs
  <2> QED BY <1>c, <1>1, <1>4, <2>6, <2>7, FromPlain
<1>8. ASSUME NEW l \in Nat, l <= n, l <= s.expect, Some(body_buffer', 0, l)
      PROVE  /\ FirstBytes(delivered', s.read + l) /\ Len(delivered') = s.read + l
             /\ returned'.is = "some" /\ delivered' = delivered \o returned'.slice
             /\ s.read + l \in Nat /\ s.read + l <= taken' /\ s.read + l <= Size
  <2>1. Holds(body_buffer', 0, l, s.read)
    <3>1. 0 + l <= n /\ 0 \in Nat /\ 0 = 0 + 0 /\ s.read = s.read + 0
      BY <1>4, <1>8
    <3> QED BY <1>4, <3>1, HoldsPart
  <2>2. /\ FirstBytes(delivered', s.read + l) /\ returned'.is = "some"
        /\ delivered' = delivered \o returned'.slice
    BY <1>4, <1>8, <2>1, PlainReturns
  <2>3. s.read + l \in Nat /\ s.read + l <= s.read + n /\ s.read + l <= Size
    BY <1>a, <1>8
  <2>4. s.read + l <= taken'
    BY <1>4, <2>3
  <2> QED BY <2>2, <2>3, <2>4 DEF FirstBytes
<1>9. CASE n >= s.expect /\ Some(body_buffer', 0, s.expect)
           /\ read_state' = Sized("completed", s.read + s.expect, 0)
  <2>1. /\ FirstBytes(delivered', Size) /\ Len(delivered') = Size
        /\ returned'.is = "some" /\ delivered' = delivered \o returned'.slice
        /\ Size <= taken'
    <3>1. s.expect <= s.expect /\ s.expect <= n
      BY <1>a, <1>9
    <3> QED BY <1>a, <1>8, <1>9, <3>1
  <2>2. read_state'.is = "completed" /\ read_state'.read = Size
    BY <1>a, <1>9 DEF Sized
  <2>3. Size <= cut
    <3>1. s.read + n <= cut /\ Size <= s.read + n
      BY <1>4, <1>a, <1>9
    <3> QED BY <1>a, <1>5, <1>6, <3>1
  <2>4. Whole
    <3>1. \A i \in Body : i <= cut
      BY <1>5, <1>6, <2>3
    <3> QED BY <1>3, <3>1 DEF Whole
  <2>5. WholeBody(delivered)'
    <3>1. IsBodyUpTo(delivered', Len(wire))
      <4>1. Size <= Size
        BY <1>6
      <4> QED BY <1>c, <1>5, <1>6, <2>1, <4>1, FirstBytesAre
    <3>2. WholeBody(delivered')
      BY <1>3, <3>1 DEF WholeBody
    <3> QED BY <1>1, <3>2, BodyStays
  <2>6. PartOfBody(delivered)'
    <3>1. IsBodyUpTo(delivered', Size)
      <4>1. Size <= Size
        BY <1>6
      <4> QED BY <1>c, <1>6, <2>1, <4>1, FirstBytesAre
    <3>2. Size \in 0..cut
      BY <1>5, <1>6, <2>3
    <3> QED BY <1>1, <3>1, <3>2, BodyStays
  <2>7. PlainInv'
    <3>1. Size' <= Size' /\ Size <= taken'
      BY <1>6, <1>m, <2>1
    <3> QED BY <1>m, <2>1, <2>2, <2>4, <2>5, <2>6, <3>1 DEF PlainInv
  <2>8. CallIs
    BY <1>c, <2>1, <2>2 DEF CallIs
  <2> QED BY <1>c, <1>1, <1>4, <2>7, <2>8, FromPlain
<1>10. CASE n \in 1..(s.expect - 1) /\ Some(body_buffer', 0, n)
            /\ read_state' = Sized("partial", s.read + n, s.expect - n)
  <2>1. /\ FirstBytes(delivered', s.read + n) /\ Len(delivered') = s.read + n
        /\ returned'.is = "some" /\ delivered' = delivered \o returned'.slice
        /\ s.read + n \in Nat /\ s.read + n <= taken' /\ s.read + n <= Size
    <3>1. n <= n /\ n <= s.expect
      BY <1>a, <1>10
    <3> QED BY <1>8, <1>10, <3>1
  <2>2. /\ read_state'.is = "partial" /\ read_state'.read = s.read + n /\ read_state'.start = 0
        /\ read_state'.end = 0 /\ read_state'.expect = s.expect - n
    BY <1>10 DEF Sized
  <2>3. s.expect - n > 0 /\ s.read + n + (s.expect - n) = Size /\ s.read + n - 0 = s.read + n
    BY <1>a, <1>10
  <2>4. Pos' = s.read + n
    <3>1. Pos' = taken' - rewind_buf_size'
      BY <2>2 DEF Pos
    <3> QED BY <1>4, <2>3, <3>1
  <2>5. ReadsPartially'
    BY <1>m, <2>2, <2>3, <2>4 DEF ReadsPartially
  <2>6. PlainInv'
    BY <1>m, <2>1, <2>2, <2>5 DEF PlainInv, Finished
  <2>7. CallIs
    BY <1>c, <2>1, <2>2 DEF CallIs
  <2> QED BY <1>c, <1>1, <1>4, <2>6, <2>7, FromPlain
<1> QED BY <1>1, <1>7, <1>9, <1>10 DEF s

LEMMA UntilClosedKeeps ==
  ASSUME ReaderType, ReaderInv, NEW n \in Nat, ReadUntilClosed(n)
  PROVE  ReaderInv' /\ CallIs
<1> DEFINE s == read_state
<1>1. /\ s.is = "http10" /\ ReadFresh(n) /\ UNCHANGED message_vars
      /\ \/ /\ n = 0 /\ Nothing("none")
            /\ read_state' = Sized("completed", s.read, 0)
         \/ /\ n > 0 /\ Some(body_buffer', 0, n)
            /\ read_state' = Sized("http10", s.read + n, 0)
  BY DEF ReadUntilClosed
<1>2. ReadsUntilClosed
  BY <1>1 DEF ReaderInv
<1>3. framing = "closed"
  BY <1>2 DEF ReadsUntilClosed
<1>4. /\ s.read \in Nat /\ s.read = Len(delivered) /\ s.read <= Size
      /\ FirstBytes(delivered, s.read) /\ s.read <= cut
      /\ rewind_buf_size' = 0 /\ taken' = s.read + n /\ taken' <= cut
      /\ Holds(body_buffer', 0, n, s.read)
      /\ n = 0 => closes /\ taken = cut /\ s.read = cut
  BY <1>1, <1>2, <1>3, PlainFresh
<1>5. cut \in Nat /\ cut <= Len(wire) /\ Len(wire) \in Nat
  BY WireIs
<1>6. Size \in Nat /\ Size = Len(wire)
  BY <1>3, PlainIs
<1>m. framing' = "closed" /\ Size' = Size /\ closes' = closes /\ cut' = cut /\ Whole' = Whole
  BY <1>1, <1>3, MessageStays
<1>c. framing # "chunked"
  BY <1>3
<1> HIDE DEF s
<1>7. CASE n = 0 /\ Nothing("none") /\ read_state' = Sized("completed", s.read, 0)
  <2>1. /\ delivered' = delivered /\ returned' = [is |-> "none", slice |-> <<>>]
        /\ delivered \in Seq(Nat) /\ Len(delivered) = s.read
    BY <1>4, <1>7 DEF Nothing, ReaderType
  <2>2. read_state'.is = "completed" /\ read_state'.read = s.read
    BY <1>7 DEF Sized
  <2>3. closes /\ s.read = cut
    BY <1>4, <1>7
  <2>4. Whole
    BY <1>3, <2>3 DEF Whole
  <2>5. PartOfBody(delivered)' /\ WholeBody(delivered)'
    <3>1. IsBodyUpTo(delivered, cut)
      BY <1>c, <1>4, <1>5, <2>3, FirstBytesAre
    <3>2. cut \in 0..cut
      BY <1>5
    <3>3. IsBodyUpTo(delivered', cut)
      BY <2>1, <3>1
    <3>4. WholeBody(delivered')
      BY <1>3, <3>3 DEF WholeBody
    <3> QED BY <1>1, <3>2, <3>3, <3>4, BodyStays
  <2>6. PlainInv'
    <3>1. FirstBytes(delivered', Len(delivered')) /\ read_state'.read = Len(delivered')
      BY <1>4, <2>1, <2>2
    <3>2. s.read <= s.read + n
      BY <1>4
    <3>3. read_state'.read <= taken' /\ read_state'.read <= Size'
      BY <1>4, <1>m, <2>2, <3>2
    <3> QED BY <1>m, <2>2, <2>4, <2>5, <3>1, <3>3 DEF PlainInv
  <2>7. CallIs
    <3>1. returned'.is = "none" /\ returned'.slice = <<>> /\ delivered' = delivered \o <<>>
      BY <2>1
    <3> QED BY <2>2, <3>1 DEF CallIs
  <2> QED BY <1>c, <1>1, <1>4, <2>6, <2>7, FromPlain
<1>8. CASE n > 0 /\ Some(body_buffer', 0, n) /\ read_state' = Sized("http10", s.read + n, 0)
  <2>1. /\ FirstBytes(delivered', s.read + n) /\ returned'.is = "some"
        /\ delivered' = delivered \o returned'.slice
    BY <1>4, <1>8, PlainReturns
  <2>2. /\ read_state'.is = "http10" /\ read_state'.read = s.read + n /\ read_state'.start = 0
        /\ read_state'.end = 0 /\ read_state'.expect = 0
    BY <1>8 DEF Sized
  <2>3. s.read + n \in Nat /\ s.read + n - 0 = s.read + n /\ s.read + n <= s.read + n
    BY <1>4
  <2>4. Pos' = s.read + n
    <3>1. Pos' = taken' - rewind_buf_size'
      BY <2>2 DEF Pos
    <3> QED BY <1>4, <2>3, <3>1
  <2>5. ReadsUntilClosed'
    BY <1>m, <2>2, <2>4 DEF ReadsUntilClosed
  <2>6. s.read + n <= Size
    <3>1. s.read + n <= cut
      BY <1>4
    <3> QED BY <1>5, <1>6, <2>3, <3>1
  <2>7. Len(delivered') = s.read + n
    BY <2>1 DEF FirstBytes
  <2>8. read_state'.read <= taken'
    BY <1>4, <2>2, <2>3
  <2>9. PlainInv'
    BY <1>m, <2>1, <2>2, <2>5, <2>6, <2>7, <2>8 DEF PlainInv, Finished
  <2>10. CallIs
    BY <1>c, <2>1, <2>2 DEF CallIs
  <2> QED BY <1>c, <1>1, <1>4, <2>9, <2>10, FromPlain
<1> QED BY <1>1, <1>7, <1>8 DEF s

(* Every call of read_body. *)
LEMMA ReadKeeps ==
  ASSUME ReaderType, ReaderInv, ReadBody
  PROVE  ReaderInv' /\ CallIs
<1>1. 0..cut \subseteq Nat
  BY WireIs
<1>2. read_state.is = "chunked" => framing = "chunked"
  BY DEF ReaderInv, ReadsChunks
<1>3. ASSUME NEW n \in 0..cut, ReadPartially(n) PROVE ReaderInv' /\ CallIs
  BY <1>1, <1>3, PartiallyKeeps
<1>4. ASSUME NEW n \in 0..cut, ReadUntilClosed(n) PROVE ReaderInv' /\ CallIs
  BY <1>1, <1>4, UntilClosedKeeps
<1>5. ASSUME NEW n \in 0..cut, ReadNextChunk(n) PROVE ReaderInv' /\ CallIs
  <2>1. framing = "chunked"
    BY <1>2, <1>5 DEF ReadNextChunk
  <2> QED BY <1>1, <1>5, <2>1, NextChunkKeeps
<1>6. ASSUME NEW n \in 0..cut, ReadPartialHead(n) PROVE ReaderInv' /\ CallIs
  <2>1. framing = "chunked"
    BY <1>2, <1>6 DEF ReadPartialHead
  <2> QED BY <1>6, <2>1, PartialHeadKeeps
<1>7. ASSUME ReadLeftChunk PROVE ReaderInv' /\ CallIs
  <2>1. framing = "chunked"
    BY <1>2, <1>7 DEF ReadLeftChunk
  <2> QED BY <1>7, <2>1, LeftChunkKeeps
<1> QED BY <1>3, <1>4, <1>5, <1>6, <1>7 DEF ReadBody

-----------------------------------------------------------------------------
(* A cancelled call keeps them, unless it moved the head onto itself. *)
LEMMA CancelKeepsType ==
  ASSUME ReaderType, CancelPartialHead
  PROVE  ReaderType'
<1>1. /\ read_state.start = 0 /\ read_state.end # 0 /\ body_buffer' = MovedHead
      /\ UNCHANGED <<message_vars, taken, read_state, rewind_buf_size, returned, delivered>>
      /\ overlapped' \in BOOLEAN
  BY DEF CancelPartialHead, ReaderType
<1>2. /\ MovedHead \in Seq(Nat) /\ Len(MovedHead) = Len(body_buffer)
      /\ \A i \in 1..Len(body_buffer) : MovedHead[i] <= taken
  BY <1>1, MovedHeadIs
<1>3. /\ body_buffer' \in Seq(Nat) /\ Len(body_buffer') = Len(body_buffer)
      /\ \A i \in 1..Len(body_buffer') : body_buffer'[i] <= taken'
  BY <1>1, <1>2
<1>4. wire' = wire /\ message' = message /\ cut' = cut /\ closes' = closes
  BY <1>1, MessageStays
<1>5. ReadStateFits(read_state, Len(body_buffer))'
  <2>1. ReadStateFits(read_state, Len(body_buffer))
    BY DEF ReaderType
  <2> QED BY <1>1, <1>3, <2>1 DEF ReadStateFits
<1> QED BY <1>1, <1>3, <1>4, <1>5 DEF ReaderType

LEMMA CancelKeeps ==
  ASSUME ReaderType, ReaderInv, CancelPartialHead, ~overlapped'
  PROVE  ReaderInv'
<1> DEFINE s == read_state
           p == Pos
<1>1. /\ s.is = "chunked" /\ s.start = 0 /\ s.end # 0 /\ body_buffer' = MovedHead
      /\ UNCHANGED <<message_vars, taken, read_state, rewind_buf_size, returned, delivered>>
      /\ ~(s.end - s.expect \in 1..(s.expect - 1))
  BY DEF CancelPartialHead
<1>2. framing = "chunked"
  BY <1>1 DEF ReaderInv, ReadsChunks
<1>3. ReadsChunks /\ s.read = Len(delivered) /\ IsBodyUpTo(delivered, p) /\ p \in 0..cut
  BY <1>1, <1>2, ReadsChunksIs
<1>4. /\ p \in Starts /\ rewind_buf_size = 0
      /\ \A i \in 1..(s.end - (s.end - s.expect)) : body_buffer[s.end - s.expect + i] = p + i
  <2>1. HeadInBuffer
    BY <1>1, <1>3 DEF ReadsChunks
  <2> QED BY <1>1, <2>1 DEF HeadInBuffer
<1>5. p = taken - s.expect
  BY <1>1 DEF Pos
<1>6. /\ cut \in Nat /\ taken \in Nat /\ s.end \in Nat /\ s.expect \in Nat /\ s.expect \in 1..s.end
      /\ s.end <= Len(body_buffer) /\ Len(body_buffer) \in Nat /\ s.start \in Nat
  BY <1>1, WireIs DEF ReaderType, ReadStateFits, ReadStateType
<1>7. s = Chunked(s.read, 0, s.end, s.expect)
  <2>1. s \in ReadStateType
    BY DEF ReaderType, ReadStateFits
  <2> QED BY <1>1, <2>1 DEF ReadStateType, Chunked
<1>8. /\ MovedHead \in Seq(Nat) /\ Len(MovedHead) = Len(body_buffer)
      /\ \A i \in 1..Len(body_buffer) :
           MovedHead[i] = IF i <= s.expect THEN body_buffer[s.end - s.expect + i] ELSE body_buffer[i]
  BY <1>1, MovedHeadIs
<1>a. IsBodyUpTo(delivered', p) /\ read_state' = Chunked(Len(delivered'), 0, s.end, s.expect)
  BY <1>1, <1>3, <1>7
<1> HIDE DEF s, p
<1>9. PICK end \in Nat \ {0}, e \in Nat, h \in Nat : end = s.end /\ e = s.expect /\ h = end - e
  BY <1>1, <1>6
<1>10. Holds(body_buffer', h, e, p)
  <2>1. ASSUME NEW i \in 1..e PROVE body_buffer'[h + i] = p + i
    <3>1. body_buffer[h + i] = p + i
      <4>1. i \in 1..(s.end - (s.end - s.expect)) /\ s.end - s.expect + i = h + i
        BY <1>6, <1>9
      <4> QED BY <1>4, <4>1
    <3>2. h = 0 \/ h >= e
      BY <1>1, <1>6, <1>9
    <3>3. h + i \in 1..Len(body_buffer)
      BY <1>6, <1>9
    <3>4. CASE h = 0
      <4>1. h + i <= e /\ s.end - s.expect + (h + i) = h + i
        BY <1>6, <1>9, <3>4
      <4> QED BY <1>1, <1>8, <1>9, <3>1, <3>3, <4>1
    <3>5. CASE h >= e
      <4>1. ~(h + i <= e)
        BY <1>9, <3>5
      <4> QED BY <1>1, <1>8, <1>9, <3>1, <3>3, <4>1
    <3> QED BY <3>2, <3>4, <3>5
  <2>2. h + e <= Len(body_buffer')
    <3>1. h + e <= Len(body_buffer)
      BY <1>6, <1>9
    <3> QED BY <1>1, <1>8, <3>1
  <2> QED BY <1>1, <1>8, <2>1, <2>2 DEF Holds
<1>11. ChunkedInv'
  <2>1. e = end - h /\ h = (IF 0 # 0 THEN 0 ELSE end - e) /\ 0 \in Nat
    BY <1>6, <1>9
  <2>2. taken' = p + e
    <3>1. taken = p + e
      BY <1>5, <1>6, <1>9
    <3> QED BY <1>1, <3>1
  <2>3. p \in Starts /\ p \in Nat /\ rewind_buf_size' = 0
    BY <1>1, <1>3, <1>4, <1>6
  <2>4. read_state' = Chunked(Len(delivered'), 0, end, e)
    BY <1>9, <1>a
  <2> QED BY <1>1, <1>2, <1>9, <1>10, <1>a, <2>1, <2>2, <2>3, <2>4, HasHead
<1> QED BY <1>1, <1>2, <1>4, <1>11, FromChunked

-----------------------------------------------------------------------------
(* How the reader begins. *)
ModeType == {ChunkedEncoding, UntilClosed} \cup { ContentLength(n) : n \in Nat }

LEMMA ReaderInitIs ==
  ASSUME NEW mode, ReaderInit(mode)
  PROVE  /\ message \in Messages /\ Len(wire) \in Nat /\ wire \in Seq(ByteType)
         /\ cut \in Nat /\ cut \in 0..Len(wire) /\ closes \in BOOLEAN
         /\ rewind_buf_size \in 0..cut /\ rewind_buf_size \in Nat /\ taken = rewind_buf_size
         /\ body_buffer \in Seq(Nat) /\ rewind_buf_size <= Len(body_buffer)
         /\ \A i \in 1..Len(body_buffer) : body_buffer[i] = IF i <= rewind_buf_size THEN i ELSE 0
         /\ returned = [is |-> "nothing", slice |-> <<>>] /\ delivered = <<>> /\ overlapped = FALSE
         /\ read_state = Initial(mode)
<1>1. /\ message \in Messages /\ cut \in 0..Len(wire) /\ closes \in BOOLEAN
      /\ returned = [is |-> "nothing", slice |-> <<>>] /\ delivered = <<>> /\ overlapped = FALSE
      /\ read_state = Initial(mode)
  BY DEF ReaderInit
<1>2. wire \in Seq(ByteType) /\ Len(wire) \in Nat
  <2>1. wire \in Seq(ByteType)
    BY <1>1, WireType DEF wire
  <2> QED BY <2>1
<1>3. PICK rewound \in 0..cut :
        /\ taken = rewound /\ rewind_buf_size = rewound
        /\ body_buffer = RewoundBuffer(rewound)
  BY DEF ReaderInit
<1>4. cut \in Nat /\ rewound \in Nat
  BY <1>1, <1>2
<1> DEFINE length == IF rewound > BodySize THEN rewound ELSE BodySize
           F(i) == IF i <= rewound THEN i ELSE 0
<1>5. length \in Nat /\ rewound <= length
  <2>1. BodySize \in Nat
    BY ReaderAssumption
  <2> QED BY <1>4, <2>1
<1>6. body_buffer = [i \in 1..length |-> F(i)] /\ \A i \in 1..length : F(i) \in Nat
  BY <1>3, <1>4 DEF RewoundBuffer
<1> HIDE DEF length, F
<1>7. body_buffer \in Seq(Nat) /\ Len(body_buffer) = length /\ \A i \in 1..length : body_buffer[i] = F(i)
  BY <1>5, <1>6
<1>8. \A i \in 1..Len(body_buffer) : body_buffer[i] = IF i <= rewind_buf_size THEN i ELSE 0
  BY <1>3, <1>7 DEF F
<1>9. rewind_buf_size \in 0..cut /\ rewind_buf_size \in Nat /\ taken = rewind_buf_size
      /\ rewind_buf_size <= Len(body_buffer)
  BY <1>3, <1>4, <1>5, <1>7
<1> QED BY <1>1, <1>2, <1>4, <1>7, <1>8, <1>9

LEMMA ReaderInitType ==
  ASSUME NEW mode \in ModeType, ReaderInit(mode)
  PROVE  ReaderType
<1>1. /\ message \in Messages /\ Len(wire) \in Nat
      /\ cut \in Nat /\ cut \in 0..Len(wire) /\ closes \in BOOLEAN
      /\ rewind_buf_size \in 0..cut /\ rewind_buf_size \in Nat /\ taken = rewind_buf_size
      /\ body_buffer \in Seq(Nat) /\ rewind_buf_size <= Len(body_buffer)
      /\ \A i \in 1..Len(body_buffer) : body_buffer[i] = IF i <= rewind_buf_size THEN i ELSE 0
      /\ returned = [is |-> "nothing", slice |-> <<>>] /\ delivered = <<>> /\ overlapped = FALSE
      /\ read_state = Initial(mode)
  BY ReaderInitIs
<1>2. ReadStateFits(Initial(mode), Len(body_buffer))
  <2>1. PICK length \in Nat : length = Len(body_buffer)
    BY <1>1
  <2>2. mode \in {ChunkedEncoding, UntilClosed} \/ \E n \in Nat : mode = ContentLength(n)
    BY DEF ModeType
  <2>3. CASE mode = ChunkedEncoding
    <3>1. 0 \in Nat /\ 0 <= length /\ (0 # 0 => 0 < 0)
      OBVIOUS
    <3>2. ReadStateFits(Chunked(0, 0, 0, 0), length)
      BY <3>1, ChunkedIs
    <3> QED BY <2>1, <2>3, <3>2 DEF Initial
  <2>4. CASE mode # ChunkedEncoding
    <3>1. mode.n \in Nat
      BY <2>2 DEF ContentLength, UntilClosed, ChunkedEncoding
    <3>2. 0 \in Nat
      OBVIOUS
    <3>3. /\ ReadStateFits(Sized("http10", 0, 0), length) /\ ReadStateFits(Sized("completed", 0, 0), length)
          /\ ReadStateFits(Sized("partial", 0, mode.n), length)
      BY <3>1, <3>2, SizedIs
    <3> QED BY <2>1, <2>4, <3>3 DEF Initial
  <2> QED BY <2>3, <2>4
<1>3. \A i \in 1..Len(body_buffer) : body_buffer[i] <= taken
  BY <1>1
<1>4. returned \in ReturnType /\ (returned.is # "some" => returned.slice = <<>>) /\ delivered \in Seq(Nat)
  BY <1>1 DEF ReturnType
<1>5. rewind_buf_size \in 0..Len(body_buffer) /\ taken \in 0..cut
  BY <1>1
<1> QED BY <1>1, <1>2, <1>3, <1>4, <1>5 DEF ReaderType

LEMMA FirstChunk ==
  ASSUME message \in Messages, framing = "chunked"
  PROVE  0 \in Starts
<1>1. WireOf[message] \in Seq(ByteType) /\ \E B, last : Layout(WireOf[message], message.ext, B, last)
  BY ChunkedLayout DEF framing
<1>2. PICK B, last : Layout(wire, message.ext, B, last)
  BY <1>1 DEF wire
<1>3. /\ B \subseteq 0..last /\ 0 \in B
      /\ \A b \in B \ {last} : \E size \in Nat \ {0} : HeadAt(wire, message.ext, b, size)
      /\ HeadAt(wire, message.ext, last, 0) /\ last + message.ext + 5 <= Len(wire)
  BY <1>2 DEF Layout
<1>4. \E size : HeadAt(wire, message.ext, 0, size)
  <2>1. CASE last = 0
    BY <1>3, <2>1
  <2>2. CASE last # 0
    BY <1>3, <2>2
  <2> QED BY <2>1, <2>2
<1>5. wire[0 + 1].kind = "size"
  BY <1>4 DEF HeadAt
<1>6. 0 \in 0..(Len(wire) - 1)
  <2>1. message.ext \in Nat /\ 0 \in 0..last /\ Len(wire) \in Nat
    BY <1>1, <1>3, MessageIs DEF wire
  <2>2. last \in Nat
    <3>1. last \in Int
      <4>1. last \in B
        BY <1>2 DEF Layout
      <4> QED BY <1>3, <4>1
    <3> QED BY <2>1, <3>1
  <2> QED BY <1>3, <2>1, <2>2
<1> QED BY <1>5, <1>6 DEF Starts, StartsOf, wire

LEMMA NothingYet ==
  ASSUME ReaderType
  PROVE  IsBodyUpTo(<<>>, 0)
<1>1. Body \subseteq Nat \ {0}
  <2>1. message \in Messages
    BY WireIs
  <2> QED BY <2>1 DEF Body, BodyOf
<1>2. { i \in Body : i <= 0 } = {}
  <2>1. \A i \in Body : ~(i <= 0)
    <3>1. \A i \in Nat \ {0} : ~(i <= 0)
      OBVIOUS
    <3> QED BY <1>1, <3>1
  <2> QED BY <2>1
<1>3. DOMAIN <<>> = {} /\ Range(<<>>) = {}
  BY DEF Range
<1> QED BY <1>2, <1>3 DEF IsBodyUpTo

LEMMA ReaderInitInv ==
  ASSUME ReaderType, ReaderInit(Meant(message))
  PROVE  ReaderInv
<1>1. /\ message \in Messages /\ cut \in Nat
      /\ rewind_buf_size \in Nat /\ taken = rewind_buf_size
      /\ body_buffer \in Seq(Nat) /\ rewind_buf_size <= Len(body_buffer)
      /\ \A i \in 1..Len(body_buffer) : body_buffer[i] = IF i <= rewind_buf_size THEN i ELSE 0
      /\ delivered = <<>> /\ read_state = Initial(Meant(message))
  BY ReaderInitIs
<1>2. \A i \in 1..rewind_buf_size : body_buffer[i] = i
  <2>1. Len(body_buffer) \in Nat
    BY <1>1
  <2> QED BY <1>1, <2>1
<1>3. taken - rewind_buf_size = 0 /\ 0 <= taken
  BY <1>1
<1>4. IsBodyUpTo(delivered, 0) /\ Len(delivered) = 0 /\ DOMAIN delivered = {}
  BY <1>1, NothingYet
<1>5. PartOfBody(delivered)
  BY <1>1, <1>4 DEF PartOfBody
<1>6. /\ framing \in {"chunked", "length", "closed"}
      /\ framing = "length" => Meant(message) = ContentLength(Size)
      /\ framing = "chunked" => Meant(message) = ChunkedEncoding
      /\ framing = "closed" => Meant(message) = UntilClosed
  BY <1>1, MessageIs DEF Meant, framing, Size
<1>7. CASE framing = "chunked"
  <2>1. read_state = Chunked(0, 0, 0, 0)
    BY <1>1, <1>6, <1>7 DEF Initial
  <2>2. /\ read_state.is = "chunked" /\ read_state.read = 0 /\ read_state.start = 0
        /\ read_state.end = 0 /\ read_state.expect = 0
    BY <2>1 DEF Chunked
  <2>3. Pos = 0
    BY <1>3, <2>2 DEF Pos
  <2>4. ReadsChunks
    <3>1. 0 \in Nat
      OBVIOUS
    <3> QED BY <1>1, <1>4, <1>7, <2>2, <2>3, <3>1, FirstChunk DEF ReadsChunks
  <2> QED BY <1>1, <1>2, <1>4, <1>7, <2>2, <2>4 DEF ReaderInv, Finished
<1>8. CASE framing = "closed"
  <2>1. read_state = Sized("http10", 0, 0)
    BY <1>1, <1>6, <1>8 DEF Initial, ChunkedEncoding, UntilClosed
  <2>2. /\ read_state.is = "http10" /\ read_state.read = 0 /\ read_state.start = 0
        /\ read_state.end = 0 /\ read_state.expect = 0
    BY <2>1 DEF Sized
  <2>3. Pos = 0
    BY <1>3, <2>2 DEF Pos
  <2>4. ReadsUntilClosed
    BY <1>8, <2>2, <2>3 DEF ReadsUntilClosed
  <2>5. 0 <= Size
    BY <1>8, PlainIs
  <2> QED BY <1>1, <1>2, <1>3, <1>4, <1>8, <2>2, <2>4, <2>5 DEF ReaderInv, Finished
<1>9. CASE framing = "length"
  <2>0. Size \in Nat /\ Body = 1..Size /\ Len(wire) \in Nat /\ 0 <= Size
    <3>1. Size \in Nat /\ Body = 1..Size
      BY <1>9, PlainIs
    <3> QED BY <3>1, WireIs
  <2>1. Meant(message) # ChunkedEncoding /\ Meant(message) # UntilClosed /\ Meant(message).n = Size
    BY <1>6, <1>9, ModesDiffer DEF ContentLength
  <2>2. CASE Size = 0
    <3>1. read_state = Sized("completed", 0, 0)
      BY <1>1, <2>1, <2>2 DEF Initial
    <3>2. read_state.is = "completed" /\ read_state.read = 0
      BY <3>1 DEF Sized
    <3>3. Whole
      <4>1. \A i \in Body : i <= cut
        BY <2>0, <2>2
      <4> QED BY <1>9, <4>1 DEF Whole
    <3>4. WholeBody(delivered)
      <4>1. FirstBytes(delivered, 0)
        BY <1>1 DEF FirstBytes
      <4>2. IsBodyUpTo(delivered, Len(wire))
        <5>1. framing # "chunked" /\ 0 \in Nat /\ 0 <= Len(wire)
          BY <1>9, <2>0
        <5> QED BY <2>0, <2>2, <4>1, <5>1, FirstBytesAre
      <4> QED BY <1>9, <4>2 DEF WholeBody
    <3> QED BY <1>1, <1>2, <1>3, <1>4, <1>5, <1>9, <2>2, <3>2, <3>3, <3>4 DEF ReaderInv
  <2>3. CASE Size # 0
    <3>1. read_state = Sized("partial", 0, Size)
      BY <1>1, <2>1, <2>3 DEF Initial
    <3>2. /\ read_state.is = "partial" /\ read_state.read = 0 /\ read_state.start = 0
          /\ read_state.end = 0 /\ read_state.expect = Size
      BY <3>1 DEF Sized
    <3>3. Pos = 0
      BY <1>3, <3>2 DEF Pos
    <3>4. ReadsPartially
      <4>1. Size > 0 /\ 0 + Size = Size
        BY <2>0, <2>3
      <4> QED BY <1>9, <3>2, <3>3, <4>1 DEF ReadsPartially
    <3> QED BY <1>1, <1>2, <1>3, <1>4, <1>9, <2>0, <3>2, <3>4 DEF ReaderInv, Finished
  <2> QED BY <2>2, <2>3
<1> QED BY <1>6, <1>7, <1>8, <1>9

-----------------------------------------------------------------------------
(* The types of the relay. *)
TaskType == [is : {"body", "failed"}, slice : Seq(Nat), end : BOOLEAN]

WriterType ==
  [is : {"length", "chunked", "closed", "completed"}, total : Nat, written : Nat,
   meant : [is : {"length", "chunked", "closed"}, n : Nat], got : Seq(Nat),
   ended : BOOLEAN, stray : BOOLEAN]

RelayType ==
  /\ head \in Heads
  /\ tasks \in Seq(TaskType) /\ Len(tasks) <= ChannelSize
  /\ writer \in WriterType
  /\ outcome \in {"running", "done", "error", "panic"}
  /\ hollow \in BOOLEAN

LEMMA ArrivesType ==
  ASSUME NEW w \in WriterType, NEW slice \in Seq(Nat)
  PROVE  ChunkArrives(w, slice) \in WriterType /\ BytesArrive(w, slice) \in WriterType
<1>1. w.got \o slice \in Seq(Nat)
  BY DEF WriterType
<1>2. (slice = <<>>) \in BOOLEAN
  OBVIOUS
<1>3. (w.meant.is = "length" /\ Len(w.got \o slice) = w.meant.n) \in BOOLEAN
  OBVIOUS
<1>4. [w EXCEPT !.stray = TRUE] \in WriterType
  BY DEF WriterType
<1>5. ChunkArrives(w, slice) \in WriterType
  <2>1. PICK got \in Seq(Nat), ended \in BOOLEAN : got = w.got \o slice /\ ended = (slice = <<>>)
    BY <1>1, <1>2
  <2>2. [w EXCEPT !.got = got, !.ended = ended] \in WriterType
    BY <2>1 DEF WriterType
  <2> QED BY <1>4, <2>1, <2>2 DEF ChunkArrives
<1>6. BytesArrive(w, slice) \in WriterType
  <2>1. PICK got \in Seq(Nat), ended \in BOOLEAN :
          got = w.got \o slice /\ ended = (w.meant.is = "length" /\ Len(w.got \o slice) = w.meant.n)
    BY <1>1, <1>3
  <2>2. [w EXCEPT !.got = got, !.ended = ended] \in WriterType
    BY <2>1 DEF WriterType
  <2> QED BY <1>4, <2>1, <2>2 DEF BytesArrive
<1> QED BY <1>5, <1>6

LEMMA WrittenType ==
  ASSUME NEW w \in WriterType, NEW n \in Nat
  PROVE  Written(w, n) \in WriterType
<1>1. w.written + n \in Nat
  BY DEF WriterType
<1> QED BY <1>1 DEF Written, WriterType

LEMMA WriteBodyType ==
  ASSUME NEW w \in WriterType, NEW slice \in Seq(Nat)
  PROVE  WriteBody(w, slice) \in WriterType
<1>0. Len(slice) \in Nat /\ w.total \in Nat /\ w.written \in Nat
  BY DEF WriterType
<1>1. CASE WriterFinished(w)
  BY <1>1 DEF WriteBody
<1>2. CASE ~WriterFinished(w) /\ w.is = "length"
  <2> DEFINE to_write == IF w.total - w.written < Len(slice) THEN w.total - w.written ELSE Len(slice)
  <2>1. to_write \in Nat /\ to_write <= Len(slice)
    BY <1>0, <1>2 DEF WriterFinished
  <2> HIDE DEF to_write
  <2>2. SubSeq(slice, 1, to_write) \in Seq(Nat)
    <3>1. 1 \in Nat /\ 1 >= 1 /\ 1 <= to_write + 1
      BY <2>1
    <3> QED BY <2>1, <3>1, SubSeqIs
  <2>3. WriteByContentLength(w, slice) = Written(BytesArrive(w, SubSeq(slice, 1, to_write)), to_write)
    BY DEF WriteByContentLength, to_write
  <2>4. BytesArrive(w, SubSeq(slice, 1, to_write)) \in WriterType
    BY <2>2, ArrivesType
  <2> QED BY <1>2, <2>1, <2>3, <2>4, WrittenType DEF WriteBody
<1>3. CASE ~WriterFinished(w) /\ w.is = "chunked"
  BY <1>0, <1>3, ArrivesType, WrittenType DEF WriteBody
<1>4. CASE ~WriterFinished(w) /\ w.is # "length" /\ w.is # "chunked"
  BY <1>0, <1>4, ArrivesType, WrittenType DEF WriteBody
<1> QED BY <1>1, <1>2, <1>3, <1>4

LEMMA FinishType ==
  ASSUME NEW w \in WriterType
  PROVE  Finish(w) \in WriterType
<1>1. ChunkArrives(w, <<>>) \in WriterType
  <2>1. <<>> \in Seq(Nat)
    OBVIOUS
  <2> QED BY <2>1, ArrivesType
<1>2. ASSUME NEW v \in WriterType PROVE [v EXCEPT !.is = "completed"] \in WriterType
  BY DEF WriterType
<1> QED BY <1>1, <1>2 DEF Finish

LEMMA EndsType ==
  ASSUME NEW w \in WriterType, NEW end \in BOOLEAN, Ends(w, end)
  PROVE  writer' \in WriterType /\ outcome' \in {"running", "done", "error", "panic"}
BY FinishType DEF Ends

(* What the tasks that wait hold. *)
LEMMA SlicesIs ==
  ASSUME NEW ts \in Seq(TaskType)
  PROVE  /\ Slices(ts) \in Seq(Seq(Nat)) /\ Len(Slices(ts)) = Len(ts)
         /\ \A i \in 1..Len(ts) : Slices(ts)[i] = ts[i].slice
         /\ Waiting(ts) \in Seq(Nat)
<1>1. \A i \in 1..Len(ts) : ts[i] \in TaskType
  OBVIOUS
<1>2. \A i \in 1..Len(ts) : ts[i].slice \in Seq(Nat)
  BY <1>1 DEF TaskType
<1> DEFINE F(i) == ts[i].slice
<1>3. Slices(ts) = [i \in 1..Len(ts) |-> F(i)] /\ \A i \in 1..Len(ts) : F(i) \in Seq(Nat)
  BY <1>2 DEF Slices
<1> HIDE DEF F
<1>4. /\ Slices(ts) \in Seq(Seq(Nat)) /\ Len(Slices(ts)) = Len(ts)
      /\ \A i \in 1..Len(ts) : Slices(ts)[i] = F(i)
  <2>1. Len(ts) \in Nat
    OBVIOUS
  <2> QED BY <1>3, <2>1
<1>5. Waiting(ts) \in Seq(Nat)
  BY <1>4, FlattenType DEF Waiting
<1> QED BY <1>4, <1>5 DEF F

LEMMA ModesAre ==
  /\ \A q \in RequestHeads : /\ RequestReader(q) \in ModeType /\ RequestWriter(q) \in ModeType
                             /\ RequestMeant(q) \in ModeType
  /\ \A q \in RequestHeads, r \in ResponseHeads :
       /\ ResponseReader(q, r) \in ModeType /\ ResponseWriter(q, r) \in ModeType
       /\ ResponseMeant(q, r) \in ModeType
<1>1. /\ ChunkedEncoding \in ModeType /\ UntilClosed \in ModeType
      /\ \A n \in Nat : ContentLength(n) \in ModeType /\ ContentLength(0) \in ModeType
  BY DEF ModeType
<1>2. ContentLength(0) \in ModeType
  BY <1>1
<1>3. ASSUME NEW h, h.length \in Nat \cup {None}, NEW otherwise \in ModeType
      PROVE  Declared(h, otherwise) \in ModeType /\ Framed(h, otherwise) \in ModeType
  BY <1>1, <1>3 DEF Declared, Framed
<1>4. \A q \in RequestHeads : q.length \in Nat \cup {None}
  BY DEF RequestHeads
<1>5. \A r \in ResponseHeads : r.length \in Nat \cup {None}
  BY DEF ResponseHeads
<1>6. ASSUME NEW q \in RequestHeads
      PROVE  /\ RequestReader(q) \in ModeType /\ RequestWriter(q) \in ModeType
             /\ RequestMeant(q) \in ModeType
  BY <1>1, <1>2, <1>3, <1>4 DEF RequestReader, RequestWriter, RequestMeant
<1>7. ASSUME NEW q \in RequestHeads, NEW r \in ResponseHeads
      PROVE  /\ ResponseReader(q, r) \in ModeType /\ ResponseWriter(q, r) \in ModeType
             /\ ResponseMeant(q, r) \in ModeType
  BY <1>1, <1>2, <1>3, <1>5 DEF ResponseReader, ResponseWriter, ResponseMeant
<1> QED BY <1>6, <1>7

LEMMA MeantIs ==
  ASSUME NEW m \in Messages
  PROVE  Meant(m) \in ModeType
<1>1. m.framing # "chunked" => m.sizes[1] \in Nat
  BY MessageIs
<1> QED BY <1>1, MessageIs DEF Meant, ModeType

LEMMA ModeFields ==
  ASSUME NEW mode \in ModeType
  PROVE  /\ mode.is \in {"length", "chunked", "closed"} /\ mode.n \in Nat
         /\ mode \in [is : {"length", "chunked", "closed"}, n : Nat]
         /\ mode.is = "chunked" <=> mode = ChunkedEncoding
         /\ mode.is = "closed" <=> mode = UntilClosed
         /\ mode.is = "length" <=> mode = ContentLength(mode.n)
<1>1. mode = ChunkedEncoding \/ mode = UntilClosed \/ \E n \in Nat : mode = ContentLength(n)
  BY DEF ModeType
<1> QED BY <1>1 DEF ChunkedEncoding, UntilClosed, ContentLength

LEMMA NewWriterType ==
  ASSUME NEW mode \in ModeType, NEW meant \in ModeType
  PROVE  NewWriter(mode, meant) \in WriterType
<1>1. /\ mode.is \in {"length", "chunked", "closed"} /\ mode.n \in Nat
      /\ meant \in [is : {"length", "chunked", "closed"}, n : Nat]
  BY ModeFields
<1>2. <<>> \in Seq(Nat)
  OBVIOUS
<1> QED BY <1>1, <1>2 DEF NewWriter, WriterType

LEMMA HeadType ==
  ASSUME head \in Heads
  PROVE  /\ head.request \in RequestHeads
         /\ direction \in {"request", "response"}
         /\ direction = "response" => head.response \in ResponseHeads
BY RelayAssumption DEF direction

(* The invariant of the types holds in every state. *)
RelayTypes == ReaderType /\ RelayType

LEMMA InitTypes ==
  ASSUME Init PROVE RelayTypes
<1>1. head \in Heads /\ outcome = "running" /\ hollow = FALSE
  BY DEF Init
<1>2. /\ head.request \in RequestHeads /\ direction \in {"request", "response"}
      /\ direction = "response" => head.response \in ResponseHeads
  BY <1>1, HeadType
<1>3. ReaderType /\ writer \in WriterType
  <2>1. CASE direction = "request"
    <3>1. /\ ReaderInit(RequestReader(head.request))
          /\ writer = NewWriter(RequestWriter(head.request), Meant(message))
      BY <2>1 DEF Init
    <3>2. RequestReader(head.request) \in ModeType /\ RequestWriter(head.request) \in ModeType
      BY <1>2, ModesAre
    <3>3. ReaderType
      BY <3>1, <3>2, ReaderInitType
    <3>4. Meant(message) \in ModeType
      BY <3>3, MeantIs DEF ReaderType
    <3> QED BY <3>1, <3>2, <3>3, <3>4, NewWriterType
  <2>2. CASE direction # "request"
    <3>1. /\ ReaderInit(ResponseReader(head.request, head.response))
          /\ writer = NewWriter(ResponseWriter(head.request, head.response), Meant(message))
      BY <2>2 DEF Init
    <3>2. /\ ResponseReader(head.request, head.response) \in ModeType
          /\ ResponseWriter(head.request, head.response) \in ModeType
      BY <1>2, <2>2, ModesAre
    <3>3. ReaderType
      BY <3>1, <3>2, ReaderInitType
    <3>4. Meant(message) \in ModeType
      BY <3>3, MeantIs DEF ReaderType
    <3> QED BY <3>1, <3>2, <3>3, <3>4, NewWriterType
  <2> QED BY <2>1, <2>2
<1>4. tasks \in Seq(TaskType) /\ Len(tasks) <= ChannelSize
  <2>1. ChannelSize \in Nat \ {0}
    BY RelayAssumption
  <2>2. CASE tasks = <<>>
    <3>1. Len(<<>>) <= ChannelSize
      BY <2>1
    <3> QED BY <2>2, <3>1
  <2>3. CASE tasks = <<Task("body", <<>>, TRUE)>>
    <3>1. Task("body", <<>>, TRUE) \in TaskType
      BY DEF Task, TaskType
    <3>2. PICK t \in TaskType : t = Task("body", <<>>, TRUE)
      BY <3>1
    <3>3. <<t>> \in Seq(TaskType) /\ Len(<<t>>) = 1 /\ 1 <= ChannelSize
      BY <2>1
    <3> QED BY <2>3, <3>2, <3>3
  <2> QED BY <2>2, <2>3 DEF Init
<1> QED BY <1>1, <1>3, <1>4 DEF RelayTypes, RelayType

LEMMA ReaderTypeStays ==
  ASSUME ReaderType, UNCHANGED reader_vars
  PROVE  ReaderType'
<1>1. /\ UNCHANGED <<taken, read_state, body_buffer, rewind_buf_size, returned, delivered, overlapped>>
      /\ UNCHANGED message_vars
  BY DEF reader_vars
<1>2. message' = message /\ cut' = cut /\ closes' = closes /\ wire' = wire
  BY <1>1, MessageStays
<1>3. ReadStateFits(read_state, Len(body_buffer))'
  BY <1>1 DEF ReaderType, ReadStateFits
<1> QED BY <1>1, <1>2, <1>3 DEF ReaderType

LEMMA RelayStays ==
  ASSUME RelayType, UNCHANGED relay_vars
  PROVE  RelayType'
BY DEF RelayType, relay_vars

LEMMA ReadTypes ==
  ASSUME RelayTypes, Read
  PROVE  RelayTypes'
<1>1. /\ ReaderType /\ head \in Heads /\ tasks \in Seq(TaskType) /\ writer \in WriterType
      /\ outcome \in {"running", "done", "error", "panic"} /\ hollow \in BOOLEAN
  BY DEF RelayTypes, RelayType
<1>2. /\ ReadBody /\ Len(tasks) < ChannelSize /\ UNCHANGED <<head, writer, outcome>>
      /\ \/ tasks' = tasks
         \/ tasks' = Append(tasks, Task(IF returned'.is = "error" THEN "failed" ELSE "body",
                                        returned'.slice, ~(returned'.is = "error") /\ Finished'))
      /\ hollow' = (hollow \/ (read_state.is = "chunked" /\ returned'.is = "some"
                                 /\ returned'.slice = <<>>))
  BY DEF Read, ReadTask
<1>3. ReaderType'
  BY <1>1, <1>2, ReadKeepsType
<1>4. CASE tasks' = tasks
  <2>1. Len(tasks) \in Nat /\ ChannelSize \in Nat
    BY <1>1, RelayAssumption
  <2>2. Len(tasks') <= ChannelSize
    BY <1>2, <1>4, <2>1
  <2>3. hollow' \in BOOLEAN
    BY <1>1, <1>2
  <2> QED BY <1>1, <1>2, <1>3, <1>4, <2>2, <2>3 DEF RelayTypes, RelayType
<1>5. ASSUME tasks' # tasks
      PROVE  \E t \in TaskType : tasks' = Append(tasks, t)
  <2> DEFINE end == ~(returned'.is = "error") /\ Finished'
             is  == IF returned'.is = "error" THEN "failed" ELSE "body"
  <2>1. returned'.slice \in Seq(Nat)
    <3>1. returned' \in ReturnType
      BY <1>3 DEF ReaderType, ReturnType
    <3> QED BY <3>1 DEF ReturnType
  <2>2. end \in BOOLEAN /\ is \in {"body", "failed"}
    OBVIOUS
  <2>3. tasks' = Append(tasks, Task(is, returned'.slice, end))
    BY <1>2, <1>5
  <2> HIDE DEF end, is
  <2>4. Task(is, returned'.slice, end) \in TaskType
    BY <2>1, <2>2 DEF Task, TaskType
  <2> QED BY <2>3, <2>4
<1>6. ASSUME tasks' # tasks
      PROVE  tasks' \in Seq(TaskType) /\ Len(tasks') <= ChannelSize
  <2> PICK t \in TaskType : tasks' = Append(tasks, t)
    BY <1>5, <1>6
  <2>1. Append(tasks, t) \in Seq(TaskType) /\ Len(Append(tasks, t)) = Len(tasks) + 1
    BY <1>1
  <2>2. Len(tasks) \in Nat /\ ChannelSize \in Nat
    BY <1>1, RelayAssumption
  <2>3. Len(tasks) + 1 <= ChannelSize
    BY <1>2, <2>2
  <2> QED BY <2>1, <2>3
<1>7. hollow' \in BOOLEAN
  BY <1>1, <1>2
<1> QED BY <1>1, <1>2, <1>3, <1>4, <1>6, <1>7 DEF RelayTypes, RelayType

LEMMA WriteTypes ==
  ASSUME RelayTypes, Write
  PROVE  RelayTypes'
<1>1. /\ ReaderType /\ head \in Heads /\ tasks \in Seq(TaskType) /\ Len(tasks) <= ChannelSize
      /\ writer \in WriterType /\ hollow \in BOOLEAN
  BY DEF RelayTypes, RelayType
<1>2. /\ tasks # <<>> /\ UNCHANGED <<reader_vars, head, hollow>>
  BY DEF Write, WriteRequest, WriteResponse
<1>3. ReaderType'
  BY <1>1, <1>2, ReaderTypeStays
<1>4. ASSUME NEW w \in WriterType, NEW is \in {"panic", "error"}, Failed(w, is)
      PROVE  writer' \in WriterType /\ outcome' \in {"running", "done", "error", "panic"}
  BY <1>4 DEF Failed
<1>5. CASE WriteRequest
  <2>1. Head(tasks) \in TaskType /\ Tail(tasks) \in Seq(TaskType) /\ Len(Tail(tasks)) = Len(tasks) - 1
    BY <1>1, <1>2
  <2>2. writer' \in WriterType /\ outcome' \in {"running", "done", "error", "panic"}
    <3>1. CASE Failed(writer, "panic")
      BY <1>1, <1>4, <3>1
    <3>2. CASE \E w \in {writer, WriteBody(writer, Head(tasks).slice)} : Ends(w, Head(tasks).end)
      <4>1. Head(tasks).slice \in Seq(Nat) /\ Head(tasks).end \in BOOLEAN
        BY <2>1 DEF TaskType
      <4>2. {writer, WriteBody(writer, Head(tasks).slice)} \subseteq WriterType
        BY <1>1, <4>1, WriteBodyType
      <4> QED BY <3>2, <4>1, <4>2, EndsType
    <3> QED BY <1>5, <3>1, <3>2 DEF WriteRequest
  <2>3. tasks' \in Seq(TaskType) /\ Len(tasks') <= ChannelSize
    <3>1. tasks' = Tail(tasks) /\ Len(tasks) \in Nat /\ ChannelSize \in Nat
      BY <1>1, <1>5, RelayAssumption DEF WriteRequest
    <3> QED BY <1>1, <2>1, <3>1
  <2> QED BY <1>1, <1>2, <1>3, <2>2, <2>3 DEF RelayTypes, RelayType
<1>6. CASE WriteResponse
  <2> DEFINE last == tasks[Len(tasks)]
             w    == IF Waiting(tasks) = <<>> THEN writer ELSE WriteBody(writer, Waiting(tasks))
  <2>1. last \in TaskType
    BY <1>1, <1>2
  <2>2. w \in WriterType
    <3>1. Waiting(tasks) \in Seq(Nat)
      BY <1>1, SlicesIs
    <3> QED BY <1>1, <3>1, WriteBodyType
  <2>3. /\ (last.is = "failed" /\ Failed(w, "error")) \/ (last.is = "body" /\ Ends(w, last.end))
        /\ tasks' = <<>>
    BY <1>6 DEF WriteResponse, Waiting, Slices
  <2>4. last.end \in BOOLEAN
    BY <2>1 DEF TaskType
  <2> HIDE DEF last, w
  <2>5. writer' \in WriterType /\ outcome' \in {"running", "done", "error", "panic"}
    BY <1>4, <2>2, <2>3, <2>4, EndsType
  <2>6. tasks' \in Seq(TaskType) /\ Len(tasks') <= ChannelSize
    <3>1. <<>> \in Seq(TaskType) /\ Len(<<>>) = 0 /\ ChannelSize \in Nat
      BY RelayAssumption
    <3>2. 0 <= ChannelSize
      BY <3>1
    <3> QED BY <2>3, <3>1, <3>2
  <2> QED BY <1>1, <1>2, <1>3, <2>5, <2>6 DEF RelayTypes, RelayType
<1> QED BY <1>5, <1>6 DEF Write

LEMMA TypesKept ==
  ASSUME RelayTypes, [Next]_vars
  PROVE  RelayTypes'
<1>1. CASE Read
  BY <1>1, ReadTypes
<1>2. CASE Cancel
  <2>1. ReaderType'
    BY <1>2, CancelKeepsType DEF RelayTypes, Cancel
  <2>2. RelayType'
    BY <1>2, RelayStays DEF RelayTypes, Cancel
  <2> QED BY <2>1, <2>2 DEF RelayTypes
<1>3. CASE Write
  BY <1>3, WriteTypes
<1>4. CASE UNCHANGED vars
  <2>1. ReaderType'
    BY <1>4, ReaderTypeStays DEF RelayTypes, vars
  <2>2. RelayType'
    BY <1>4, RelayStays DEF RelayTypes, vars
  <2> QED BY <2>1, <2>2 DEF RelayTypes
<1> QED BY <1>1, <1>2, <1>3, <1>4 DEF Next

LEMMA RelayTyped == Spec => []RelayTypes
<1>1. Init => RelayTypes
  BY InitTypes
<1>2. RelayTypes /\ [Next]_vars => RelayTypes'
  BY TypesKept
<1> QED BY <1>1, <1>2, PTL DEF Spec

(* The type invariant: the fields of ReadState (session/reader.rs) stay within
   the buffer, whatever read_body returns and select! cancels, and the channel
   of the duplex (BUFFER_SIZE) within its size. *)
THEOREM RelayTypeCorrect == Spec => []TypeOK
<1>1. RelayTypes => TypeOK
  <2> SUFFICES ASSUME RelayTypes PROVE TypeOK
    OBVIOUS
  <2>1. \A i \in 1..Len(body_buffer) : body_buffer[i] \in 0..taken
    <3>1. /\ body_buffer \in Seq(Nat) /\ \A i \in 1..Len(body_buffer) : body_buffer[i] <= taken
          /\ taken \in Nat
      BY WireIs DEF RelayTypes, ReaderType
    <3> QED BY <3>1
  <2>2. DOMAIN body_buffer = 1..Len(body_buffer)
    BY DEF RelayTypes, ReaderType
  <2>3. /\ read_state.is \in {"chunked", "partial", "http10", "completed", "done"}
        /\ {read_state.read, read_state.start, read_state.end, read_state.expect} \subseteq Nat
        /\ read_state.end <= Len(body_buffer)
    BY DEF RelayTypes, ReaderType, ReadStateFits, ReadStateType
  <2>4. returned.is \in {"nothing", "some", "none", "error"}
    BY DEF RelayTypes, ReaderType, ReturnType
  <2> QED BY <2>1, <2>2, <2>3, <2>4 DEF RelayTypes, ReaderType, RelayType, TypeOK
<1> QED BY <1>1, RelayTyped, PTL

-----------------------------------------------------------------------------
(* The reader of a message that is read as it is meant. *)
ReadInv == HeadInv /\ (Good => ReaderInv)

LEMMA ReadBodyStays ==
  ASSUME ReadBody
  PROVE  UNCHANGED message_vars /\ overlapped' = overlapped
<1>1. ASSUME NEW n \in 0..cut,
             ReadPartially(n) \/ ReadUntilClosed(n) \/ ReadNextChunk(n) \/ ReadPartialHead(n)
      PROVE  UNCHANGED message_vars /\ overlapped' = overlapped
  BY <1>1 DEF ReadPartially, ReadUntilClosed, ReadNextChunk, ReadPartialHead
<1>2. ASSUME ReadLeftChunk PROVE UNCHANGED message_vars /\ overlapped' = overlapped
  BY <1>2 DEF ReadLeftChunk
<1> QED BY <1>1, <1>2 DEF ReadBody

(* What a step leaves: the message, the head, and that a head was moved onto
   itself. *)
LEMMA HeadStays ==
  ASSUME RelayTypes, [Next]_vars
  PROVE  /\ UNCHANGED message_vars /\ head' = head /\ (overlapped => overlapped')
         /\ direction' = direction /\ Misread' = Misread /\ Unframed' = Unframed
         /\ Meant(message)' = Meant(message)
         /\ Good' => Good
<1>1. UNCHANGED message_vars /\ head' = head /\ (overlapped => overlapped')
  <2>1. CASE Read
    BY <2>1, ReadBodyStays DEF Read, ReadTask
  <2>2. CASE Cancel
    BY <2>2 DEF Cancel, CancelPartialHead, relay_vars
  <2>3. CASE Write
    BY <2>3 DEF Write, WriteRequest, WriteResponse, reader_vars
  <2>4. CASE UNCHANGED vars
    BY <2>4 DEF vars, reader_vars, relay_vars
  <2> QED BY <2>1, <2>2, <2>3, <2>4 DEF Next
<1>2. direction' = direction
  BY <1>1 DEF direction
<1>3. Misread' = Misread /\ Unframed' = Unframed
  BY <1>1, <1>2 DEF Misread, Unframed
<1>4. message' = message
  BY <1>1, MessageStays
<1>5. Meant(message)' = Meant(message)
  BY <1>4 DEF Meant
<1> QED BY <1>1, <1>2, <1>3, <1>5 DEF Good

(* What a write leaves of the writer. *)
LEMMA WriteMeant ==
  ASSUME NEW w \in WriterType, NEW slice \in Seq(Nat)
  PROVE  /\ WriteBody(w, slice).meant = w.meant /\ WriteBody(w, slice).is = w.is
         /\ Finish(w).meant = w.meant /\ Finish(w).is = "completed"
<1>1. ASSUME NEW v \in WriterType, NEW s
      PROVE  /\ ChunkArrives(v, s).meant = v.meant /\ BytesArrive(v, s).meant = v.meant
             /\ ChunkArrives(v, s).is = v.is /\ BytesArrive(v, s).is = v.is
  BY DEF ChunkArrives, BytesArrive, WriterType
<1>2. ASSUME NEW v \in WriterType, NEW n
      PROVE  Written(v, n).meant = v.meant /\ Written(v, n).is = v.is
  BY DEF Written, WriterType
<1>3. Finish(w).meant = w.meant /\ Finish(w).is = "completed"
  <2>1. <<>> \in Seq(Nat)
    OBVIOUS
  <2>2. ChunkArrives(w, <<>>) \in WriterType
    BY <2>1, ArrivesType
  <2>3. ASSUME NEW v \in WriterType 
        PROVE  LET u == [v EXCEPT !.is = "completed"] IN u.meant = v.meant /\ u.is = "completed"
    BY DEF WriterType
  <2> QED BY <1>1, <2>2, <2>3 DEF Finish
<1>4. WriteBody(w, slice).meant = w.meant /\ WriteBody(w, slice).is = w.is
  <2>1. CASE WriterFinished(w)
    BY <2>1 DEF WriteBody
  <2>2. CASE ~WriterFinished(w) /\ w.is = "length"
    <3> DEFINE to_write == IF w.total - w.written < Len(slice) THEN w.total - w.written ELSE Len(slice)
    <3>1. to_write \in Nat /\ to_write <= Len(slice)
      BY <2>2 DEF WriterFinished, WriterType
    <3>2. SubSeq(slice, 1, to_write) \in Seq(Nat)
      <4> HIDE DEF to_write
      <4>1. 1 \in Nat /\ 1 >= 1 /\ 1 <= to_write + 1
        BY <3>1
      <4> QED BY <3>1, <4>1, SubSeqIs
    <3>3. BytesArrive(w, SubSeq(slice, 1, to_write)) \in WriterType
      BY <3>2, ArrivesType
    <3>4. WriteBody(w, slice) = Written(BytesArrive(w, SubSeq(slice, 1, to_write)), to_write)
      BY <2>2 DEF WriteBody, WriteByContentLength
    <3> HIDE DEF to_write
    <3> QED BY <1>1, <1>2, <3>3, <3>4
  <2>3. CASE ~WriterFinished(w) /\ w.is # "length"
    <3>1. ChunkArrives(w, slice) \in WriterType /\ BytesArrive(w, slice) \in WriterType
      BY ArrivesType
    <3> QED BY <1>1, <1>2, <2>3, <3>1 DEF WriteBody
  <2> QED BY <2>1, <2>2, <2>3
<1> QED BY <1>3, <1>4

LEMMA HeadKept ==
  ASSUME RelayTypes, HeadInv, [Next]_vars
  PROVE  HeadInv'
<1>1. /\ message' = message /\ head' = head /\ direction' = direction
      /\ Meant(message)' = Meant(message)
  BY HeadStays, MessageStays
<1>2. writer'.meant = writer.meant
  <2>1. writer \in WriterType /\ tasks \in Seq(TaskType)
    BY DEF RelayTypes, RelayType
  <2>2. CASE Write
    <3>1. tasks # <<>>
      BY <2>2 DEF Write, WriteRequest, WriteResponse
    <3>2. ASSUME NEW w \in WriterType, w.meant = writer.meant,
                 \/ \E end \in BOOLEAN : Ends(w, end)
                 \/ \E is \in {"panic", "error"} : Failed(w, is)
          PROVE  writer'.meant = writer.meant
      <4>1. <<>> \in Seq(Nat)
        OBVIOUS
      <4>2. Finish(w).meant = w.meant
        BY <4>1, WriteMeant
      <4> QED BY <3>2, <4>2 DEF Ends, Failed
    <3>3. CASE WriteRequest
      <4>1. Head(tasks) \in TaskType
        BY <2>1, <3>1
      <4>2. Head(tasks).slice \in Seq(Nat) /\ Head(tasks).end \in BOOLEAN
        BY <4>1 DEF TaskType
      <4>3. \A w \in {writer, WriteBody(writer, Head(tasks).slice)} :
              w \in WriterType /\ w.meant = writer.meant
        BY <2>1, <4>2, WriteMeant, WriteBodyType
      <4>4. \E w \in {writer, WriteBody(writer, Head(tasks).slice)} :
              Ends(w, Head(tasks).end) \/ Failed(w, "panic")
        BY <3>3 DEF WriteRequest
      <4> QED BY <3>2, <4>2, <4>3, <4>4
    <3>4. CASE WriteResponse
      <4> DEFINE last == tasks[Len(tasks)]
                 w    == IF Waiting(tasks) = <<>> THEN writer ELSE WriteBody(writer, Waiting(tasks))
      <4>1. last \in TaskType
        BY <2>1, <3>1
      <4>2. w \in WriterType /\ w.meant = writer.meant
        <5>1. Waiting(tasks) \in Seq(Nat)
          BY <2>1, SlicesIs
        <5> QED BY <2>1, <5>1, WriteMeant, WriteBodyType
      <4>3. (last.is = "failed" /\ Failed(w, "error")) \/ (last.is = "body" /\ Ends(w, last.end))
        BY <3>4 DEF WriteResponse, Waiting, Slices
      <4>4. last.end \in BOOLEAN
        BY <4>1 DEF TaskType
      <4> HIDE DEF last, w
      <4> QED BY <3>2, <4>2, <4>3, <4>4
    <3> QED BY <2>2, <3>3, <3>4 DEF Write
  <2>3. CASE ~Write
    BY <2>3 DEF Next, Read, ReadTask, Cancel, vars, relay_vars
  <2> QED BY <2>2, <2>3
<1>3. RequestMeant(head.request)' = RequestMeant(head.request)
      /\ ResponseMeant(head.request, head.response)' = ResponseMeant(head.request, head.response)
  BY <1>1 DEF RequestMeant, ResponseMeant, Framed, Declared, Bodiless, IsRequestUpgrade
<1> QED BY <1>1, <1>2, <1>3 DEF HeadInv

LEMMA ReaderInvStays ==
  ASSUME ReaderInv, UNCHANGED reader_vars
  PROVE  ReaderInv'
<1>1. UNCHANGED <<taken, read_state, body_buffer, rewind_buf_size, delivered>>
      /\ UNCHANGED message_vars
  BY DEF reader_vars
<1>2. /\ message' = message /\ cut' = cut /\ closes' = closes /\ wire' = wire /\ framing' = framing
      /\ Starts' = Starts /\ Size' = Size /\ Whole' = Whole /\ LongHeads' = LongHeads
  BY <1>1, MessageStays
<1>3. Pos' = Pos /\ Finished' = Finished
  BY <1>1 DEF Pos, Finished
<1>4. /\ IsBodyUpTo(delivered, Pos) => IsBodyUpTo(delivered, Pos)'
      /\ PartOfBody(delivered) => PartOfBody(delivered)'
      /\ WholeBody(delivered) => WholeBody(delivered)'
  <2>1. WholeBody(delivered) => WholeBody(delivered')
    BY <1>1
  <2>2. PartOfBody(delivered) => \E p \in 0..cut : IsBodyUpTo(delivered', p)
    BY <1>1 DEF PartOfBody
  <2>3. IsBodyUpTo(delivered, Pos) => IsBodyUpTo(delivered', Pos')
    BY <1>1, <1>3
  <2> QED BY <1>1, <2>1, <2>2, <2>3, BodyStays
<1>5. Initial(Meant(message))' = Initial(Meant(message))
  BY <1>2 DEF Initial, Meant
<1>6. (HeadInBuffer => HeadInBuffer') /\ (ChunkAwaited => ChunkAwaited')
  BY <1>1, <1>2, <1>3 DEF HeadInBuffer, ChunkAwaited
<1>7. (ReadsChunks => ReadsChunks') /\ (ReadsPartially => ReadsPartially')
      /\ (ReadsUntilClosed => ReadsUntilClosed')
  BY <1>1, <1>2, <1>3, <1>4, <1>6 DEF ReadsChunks, ReadsPartially, ReadsUntilClosed
<1> QED BY <1>1, <1>2, <1>3, <1>4, <1>5, <1>7 DEF ReaderInv

LEMMA InitReads ==
  ASSUME Init, RelayTypes
  PROVE  ReadInv
<1>1. /\ head.request \in RequestHeads /\ direction \in {"request", "response"}
      /\ direction = "response" => head.response \in ResponseHeads
  BY HeadType DEF Init
<1>2. \A mode, meant : NewWriter(mode, meant).meant = meant
  BY DEF NewWriter
<1>3. CASE direction = "request"
  <2>1. /\ ReaderInit(RequestReader(head.request))
        /\ Meant(message) = RequestMeant(head.request)
        /\ writer = NewWriter(RequestWriter(head.request), Meant(message))
    BY <1>3 DEF Init
  <2>2. HeadInv
    BY <1>2, <1>3, <2>1 DEF HeadInv
  <2>3. ASSUME Good PROVE ReaderInv
    <3>1. ~Listed(head.request) /\ ~ReadOn(head.request)
      BY <1>3, <2>3 DEF Good, Misread
    <3>2. RequestReader(head.request) = Meant(message)
      BY <1>1, <2>1, <3>1, RequestsAreReadAsMeant
    <3>3. ReaderInit(Meant(message))
      BY <2>1, <3>2 DEF ReaderInit
    <3> QED BY <3>3, ReaderInitInv DEF RelayTypes
  <2> QED BY <2>2, <2>3 DEF ReadInv
<1>4. CASE direction = "response"
  <2>1. /\ ReaderInit(ResponseReader(head.request, head.response))
        /\ Meant(message) = ResponseMeant(head.request, head.response)
        /\ writer = NewWriter(ResponseWriter(head.request, head.response), Meant(message))
    BY <1>4 DEF Init
  <2>2. HeadInv
    BY <1>2, <1>4, <2>1 DEF HeadInv
  <2>3. ASSUME Good PROVE ReaderInv
    <3>1. ~ListedResponse(head.request, head.response)
      BY <1>4, <2>3 DEF Good, Misread
    <3>2. ResponseReader(head.request, head.response) = Meant(message)
      BY <1>1, <1>4, <2>1, <3>1, ResponsesAgree
    <3>3. ReaderInit(Meant(message))
      BY <2>1, <3>2 DEF ReaderInit
    <3> QED BY <3>3, ReaderInitInv DEF RelayTypes
  <2> QED BY <2>2, <2>3 DEF ReadInv
<1> QED BY <1>1, <1>3, <1>4

LEMMA ReadInvKept ==
  ASSUME RelayTypes, ReadInv, [Next]_vars
  PROVE  ReadInv'
<1>1. HeadInv'
  BY HeadKept DEF ReadInv
<1>2. ASSUME Good' PROVE ReaderInv'
  <2>1. Good /\ ReaderInv /\ ReaderType /\ ~overlapped'
    BY <1>2, HeadStays DEF ReadInv, RelayTypes, Good
  <2>2. CASE Read
    BY <2>1, <2>2, ReadKeeps DEF Read, ReadTask
  <2>3. CASE Cancel
    BY <2>1, <2>3, CancelKeeps DEF Cancel
  <2>4. CASE Write \/ UNCHANGED vars
    <3>1. UNCHANGED reader_vars
      BY <2>4 DEF Write, WriteRequest, WriteResponse, vars
    <3> QED BY <2>1, <3>1, ReaderInvStays
  <2> QED BY <2>2, <2>3, <2>4 DEF Next
<1> QED BY <1>1, <1>2 DEF ReadInv

(* What was returned so far is some of the body. *)
LEMMA DeliversPart ==
  ASSUME ReaderType, ReaderInv
  PROVE  PartOfBody(delivered)
<1>1. CASE Finished
  BY <1>1 DEF ReaderInv
<1>2. CASE ~Finished /\ framing = "chunked"
  <2>1. read_state.is = "chunked"
    BY <1>2 DEF ReaderType, ReadStateFits, ReadStateType, Finished, ReaderInv, ReadsPartially,
                ReadsUntilClosed
  <2> QED BY <1>2, <2>1, ReadsChunksIs DEF PartOfBody
<1>3. CASE framing # "chunked"
  <2>1. PICK k \in Nat : k = Len(delivered)
    BY DEF ReaderType
  <2>2. FirstBytes(delivered, k) /\ k <= taken /\ k <= Size
    <3>1. delivered \in Seq(Nat)
      BY DEF ReaderType
    <3> QED BY <1>3, <2>1, <3>1 DEF ReaderInv, FirstBytes
  <2>3. IsBodyUpTo(delivered, k)
    BY <1>3, <2>2, FirstBytesAre
  <2>4. k \in 0..cut
    BY <2>2, WireIs
  <2> QED BY <2>3, <2>4 DEF PartOfBody
<1> QED BY <1>1, <1>2, <1>3

LEMMA ReadsKept == Spec => [](RelayTypes /\ ReadInv)
<1>1. Init => RelayTypes /\ ReadInv
  BY InitTypes, InitReads
<1>2. RelayTypes /\ ReadInv /\ [Next]_vars => (RelayTypes /\ ReadInv)'
  BY TypesKept, ReadInvKept
<1> QED BY <1>1, <1>2, PTL DEF Spec

(* read_body (session/reader.rs) returns the body, each byte once and in order,
   however the stream's reads cut it, and completes only with the last one. *)
THEOREM ReaderIsFaithful == Spec => []ReadsFaithfully
<1>1. RelayTypes /\ ReadInv => ReadsFaithfully
  BY DeliversPart DEF RelayTypes, ReadInv, Good, ReaderInv, ReadsFaithfully
<1> QED BY <1>1, ReadsKept, PTL

-----------------------------------------------------------------------------
(* The relay: what waits in the channel, and what was written, is what the reader
   returned. *)
LEMMA SameSequence ==
  ASSUME NEW S, NEW s \in Seq(S), NEW t \in Seq(S), Len(s) = Len(t),
         \A i \in 1..Len(s) : s[i] = t[i]
  PROVE  s = t
OBVIOUS

LEMMA WaitingNone == Waiting(<<>>) = <<>>
<1>1. Slices(<<>>) = <<>>
  BY DEF Slices
<1> QED BY <1>1, FlattenEmpty DEF Waiting

LEMMA WaitingAppend ==
  ASSUME NEW ts \in Seq(TaskType), NEW t \in TaskType
  PROVE  Waiting(Append(ts, t)) = Waiting(ts) \o t.slice
<1>0. t.slice \in Seq(Nat)
  BY DEF TaskType
<1>1. /\ Slices(ts) \in Seq(Seq(Nat)) /\ Len(Slices(ts)) = Len(ts) /\ Waiting(ts) \in Seq(Nat)
      /\ \A i \in 1..Len(ts) : Slices(ts)[i] = ts[i].slice
  BY SlicesIs
<1>2. /\ Append(ts, t) \in Seq(TaskType) /\ Len(Append(ts, t)) = Len(ts) + 1
      /\ Append(ts, t)[Len(ts) + 1] = t /\ \A i \in 1..Len(ts) : Append(ts, t)[i] = ts[i]
  OBVIOUS
<1>3. /\ Slices(Append(ts, t)) \in Seq(Seq(Nat)) /\ Len(Slices(Append(ts, t))) = Len(ts) + 1
      /\ \A i \in 1..(Len(ts) + 1) : Slices(Append(ts, t))[i] = Append(ts, t)[i].slice
  <2>1. Append(ts, t) \in Seq(TaskType)
    BY <1>2
  <2> QED BY <1>2, <2>1, SlicesIs
<1>4. Slices(Append(ts, t)) = Append(Slices(ts), t.slice)
  <2>1. /\ Append(Slices(ts), t.slice) \in Seq(Seq(Nat))
        /\ Len(Append(Slices(ts), t.slice)) = Len(ts) + 1
        /\ Append(Slices(ts), t.slice)[Len(ts) + 1] = t.slice
        /\ \A i \in 1..Len(ts) : Append(Slices(ts), t.slice)[i] = Slices(ts)[i]
    BY <1>0, <1>1
  <2>2. ASSUME NEW i \in 1..(Len(ts) + 1)
        PROVE  Slices(Append(ts, t))[i] = Append(Slices(ts), t.slice)[i]
    <3>1. CASE i = Len(ts) + 1
      BY <1>2, <1>3, <2>1, <3>1
    <3>2. CASE i # Len(ts) + 1
      <4>1. i \in 1..Len(ts)
        BY <3>2
      <4> QED BY <1>1, <1>2, <1>3, <2>1, <4>1
    <3> QED BY <3>1, <3>2
  <2> DEFINE a == Slices(Append(ts, t))
             b == Append(Slices(ts), t.slice)
  <2>3. /\ a \in Seq(Seq(Nat)) /\ b \in Seq(Seq(Nat)) /\ Len(a) = Len(b)
        /\ \A i \in 1..Len(a) : a[i] = b[i]
    BY <1>3, <2>1, <2>2
  <2> HIDE DEF a, b
  <2>4. a = b
    BY <2>3, SameSequence
  <2> QED BY <2>4 DEF a, b
<1>5. FlattenSeq(Append(Slices(ts), t.slice)) =
        IF Slices(ts) = <<>> THEN t.slice ELSE Waiting(ts) \o t.slice
  BY <1>0, <1>1, FlattenAppend DEF Waiting
<1>6. Slices(ts) = <<>> => Waiting(ts) \o t.slice = t.slice
  <2>1. Slices(ts) = <<>> => Waiting(ts) = <<>>
    BY FlattenEmpty DEF Waiting
  <2>2. <<>> \o t.slice = t.slice
    BY <1>0
  <2> QED BY <2>1, <2>2
<1> QED BY <1>4, <1>5, <1>6 DEF Waiting

LEMMA ConcatAssocNat ==
  \A a, b, c \in Seq(Nat) : (a \o b) \o c = a \o (b \o c)
BY ConcatAssoc

LEMMA WaitingMore ==
  ASSUME NEW ts \in Seq(TaskType), NEW t \in TaskType, NEW got \in Seq(Nat)
  PROVE  got \o Waiting(Append(ts, t)) = (got \o Waiting(ts)) \o t.slice
<1>1. PICK a \in Seq(Nat), b \in Seq(Nat) : a = Waiting(ts) /\ b = t.slice
  BY SlicesIs DEF TaskType
<1>2. (got \o a) \o b = got \o (a \o b)
  BY <1>1, ConcatAssocNat
<1> QED BY <1>1, <1>2, WaitingAppend

LEMMA WaitingFirst ==
  ASSUME NEW ts \in Seq(TaskType), ts # <<>>
  PROVE  Waiting(ts) = Head(ts).slice \o Waiting(Tail(ts))
<1>1. /\ Slices(ts) \in Seq(Seq(Nat)) /\ Len(Slices(ts)) = Len(ts)
      /\ \A i \in 1..Len(ts) : Slices(ts)[i] = ts[i].slice
  BY SlicesIs
<1>2. /\ Tail(ts) \in Seq(TaskType) /\ Len(Tail(ts)) = Len(ts) - 1 /\ Len(ts) \in Nat \ {0}
      /\ Head(ts) = ts[1] /\ \A i \in 1..(Len(ts) - 1) : Tail(ts)[i] = ts[i + 1]
  OBVIOUS
<1>3. /\ Slices(Tail(ts)) \in Seq(Seq(Nat)) /\ Len(Slices(Tail(ts))) = Len(ts) - 1
      /\ \A i \in 1..(Len(ts) - 1) : Slices(Tail(ts))[i] = Tail(ts)[i].slice
  <2>1. Tail(ts) \in Seq(TaskType)
    BY <1>2
  <2> QED BY <1>2, <2>1, SlicesIs
<1>4. Slices(ts) # <<>> /\ Head(Slices(ts)) = Head(ts).slice
  BY <1>1, <1>2
<1>5. Tail(Slices(ts)) = Slices(Tail(ts))
  <2>1. /\ Tail(Slices(ts)) \in Seq(Seq(Nat)) /\ Len(Tail(Slices(ts))) = Len(ts) - 1
        /\ \A i \in 1..(Len(ts) - 1) : Tail(Slices(ts))[i] = Slices(ts)[i + 1]
    BY <1>1, <1>2, <1>4
  <2>2. ASSUME NEW i \in 1..(Len(ts) - 1) PROVE Tail(Slices(ts))[i] = Slices(Tail(ts))[i]
    <3>1. i + 1 \in 1..Len(ts)
      BY <1>2
    <3> QED BY <1>1, <1>2, <1>3, <2>1, <3>1
  <2> DEFINE a == Tail(Slices(ts))
             b == Slices(Tail(ts))
  <2>3. /\ a \in Seq(Seq(Nat)) /\ b \in Seq(Seq(Nat)) /\ Len(a) = Len(b)
        /\ \A i \in 1..Len(a) : a[i] = b[i]
    BY <1>3, <2>1, <2>2
  <2> HIDE DEF a, b
  <2>4. a = b
    BY <2>3, SameSequence
  <2> QED BY <2>4 DEF a, b
<1> QED BY <1>1, <1>4, <1>5, FlattenFirst DEF Waiting

(* What comes before the end of some of the body is some of it. *)
LEMMA PrefixIsPart ==
  ASSUME ReaderType, NEW s \in Seq(Nat), NEW t \in Seq(Nat), PartOfBody(s \o t)
  PROVE  PartOfBody(s)
<1> DEFINE u == s \o t
<1>1. PICK p \in 0..cut : IsBodyUpTo(u, p)
  BY DEF PartOfBody
<1>2. /\ u \in Seq(Nat) /\ DOMAIN u = 1..(Len(s) + Len(t)) /\ DOMAIN s = 1..Len(s)
      /\ Len(s) \in Nat /\ Len(t) \in Nat
      /\ \A i \in 1..Len(s) : u[i] = s[i]
  OBVIOUS
<1>3. cut \in Nat /\ Body \subseteq Nat
  <2>1. message \in Messages
    BY WireIs
  <2> QED BY <2>1, WireIs DEF Body, BodyOf
<1> HIDE DEF u
<1>4. /\ \A i, j \in DOMAIN u : i < j => u[i] < u[j]
      /\ \A i \in DOMAIN u : u[i] \in Body /\ u[i] <= p
      /\ \A b \in Body : b <= p => \E i \in DOMAIN u : b = u[i]
  BY <1>1 DEF IsBodyUpTo, Range
<1>5. CASE Len(s) = 0
  <2>1. s = <<>> /\ 0 \in 0..cut
    BY <1>3, <1>5
  <2> QED BY <2>1, NothingYet DEF PartOfBody
<1>6. CASE Len(s) # 0
  <2> DEFINE l == Len(s)
             q == s[l]
  <2>1. /\ l \in DOMAIN u /\ l \in 1..l /\ u[l] = q /\ l \in Nat /\ q \in Body /\ q <= p
    BY <1>2, <1>4, <1>6
  <2>2. q \in 0..cut
    BY <1>3, <2>1
  <2>3. 1..l \subseteq DOMAIN u /\ DOMAIN s = 1..l /\ \A i \in 1..l : s[i] = u[i]
    BY <1>2
  <2>4. ASSUME NEW i \in DOMAIN s, NEW j \in DOMAIN s, i < j PROVE s[i] < s[j]
    BY <1>4, <2>3, <2>4
  <2>5. ASSUME NEW i \in 1..l PROVE s[i] \in Body /\ s[i] <= q
    <3>1. s[i] = u[i] /\ i \in DOMAIN u /\ s[i] \in Body
      BY <1>4, <2>3
    <3>2. CASE i = l
      BY <1>3, <3>1, <3>2
    <3>3. CASE i # l
      <4>1. i < l
        BY <2>1, <3>3
      <4>2. u[i] < u[l]
        BY <1>4, <2>1, <3>1, <4>1
      <4> QED BY <1>3, <2>1, <3>1, <4>2
    <3> QED BY <3>2, <3>3
  <2>6. ASSUME NEW b \in Body, b <= q PROVE \E i \in 1..l : b = s[i]
    <3>1. b <= p
      BY <1>3, <2>1, <2>6
    <3>2. PICK i \in DOMAIN u : b = u[i]
      BY <1>4, <3>1
    <3>3. CASE i <= l
      BY <1>2, <2>3, <3>2, <3>3
    <3>4. CASE ~(i <= l)
      <4>1. l < i
        BY <1>2, <2>1, <3>2, <3>4
      <4>2. u[l] < u[i]
        BY <1>4, <2>1, <3>2, <4>1
      <4> QED BY <1>3, <2>1, <2>6, <3>2, <4>2
    <3> QED BY <3>3, <3>4
  <2> HIDE DEF q, l
  <2>7. Range(s) = { i \in Body : i <= q }
    <3>1. Range(s) = { s[i] : i \in 1..l }
      BY <2>3 DEF Range
    <3> QED BY <2>5, <2>6, <3>1
  <2> QED BY <2>2, <2>4, <2>7 DEF IsBodyUpTo, PartOfBody
<1> QED BY <1>5, <1>6

(* w has written what the reader returned, but for the rest. *)
Wrote(w, rest) ==
  /\ w \in WriterType /\ rest \in Seq(Nat) /\ WriterAgrees(w)
  /\ w.meant = Meant(message) /\ w.got \o rest = delivered

LEMMA FramingIs ==
  ASSUME ReaderType
  PROVE  /\ framing \in {"chunked", "length", "closed"} /\ Meant(message).is = framing
         /\ framing = "length" => Meant(message).n = Size
         /\ framing = "chunked" <=> Meant(message) = ChunkedEncoding
<1>1. message \in Messages
  BY WireIs
<1>2. message.framing \in {"chunked", "length", "closed"}
  BY <1>1, MessageIs
<1> QED BY <1>2, ModesDiffer DEF Meant, framing, Size, ContentLength, ChunkedEncoding, UntilClosed

LEMMA WroteIs ==
  ASSUME ReaderType, ReaderInv, NEW w, NEW rest, Wrote(w, rest)
  PROVE  /\ PartOfBody(w.got) /\ ~w.stray
         /\ w.ended => WholeBody(w.got)
<1>1. /\ w \in WriterType /\ rest \in Seq(Nat) /\ WriterAgrees(w)
      /\ w.meant = Meant(message) /\ w.got \o rest = delivered /\ w.got \in Seq(Nat)
  BY DEF Wrote, WriterType
<1>2. PartOfBody(w.got)
  <2>1. PartOfBody(w.got \o rest)
    BY <1>1, DeliversPart
  <2> QED BY <1>1, <2>1, PrefixIsPart
<1>3. ASSUME w.ended PROVE WholeBody(w.got)
  <2>1. framing = "length" /\ Len(w.got) = Size
    BY <1>1, <1>3, FramingIs DEF WriterAgrees
  <2>2. PICK k \in Nat : k = Size
    BY <2>1, PlainIs
  <2>3. FirstBytes(w.got, k)
    <3>1. \A i \in DOMAIN delivered : delivered[i] = i
      BY <2>1 DEF ReaderInv
    <3>2. \A i \in 1..k : i \in DOMAIN delivered /\ delivered[i] = w.got[i]
      <4>1. PICK got \in Seq(Nat) : got = w.got
        BY <1>1
      <4>2. Len(got) = k /\ delivered = got \o rest
        BY <1>1, <2>1, <2>2, <4>1
      <4>3. \A i \in 1..k : i \in DOMAIN (got \o rest) /\ (got \o rest)[i] = got[i]
        BY <1>1, <4>1, <4>2
      <4> QED BY <4>1, <4>2, <4>3
    <3> QED BY <1>1, <2>1, <2>2, <3>1, <3>2 DEF FirstBytes
  <2>4. Len(wire) \in Nat /\ k <= Len(wire)
    BY <2>1, <2>2, PlainIs, WireIs
  <2>5. IsBodyUpTo(w.got, Len(wire))
    <3>1. framing # "chunked" /\ k <= Size
      BY <2>1, <2>2
    <3> QED BY <2>2, <2>3, <2>4, <3>1, FirstBytesAre
  <2> QED BY <2>1, <2>5 DEF WholeBody
<1> QED BY <1>1, <1>2, <1>3 DEF WriterAgrees

LEMMA BytesArriveIs ==
  ASSUME NEW w \in WriterType, NEW slice \in Seq(Nat), WriterAgrees(w),
         w.meant.is # "chunked",
         w.meant.is = "length" => Len(w.got) + Len(slice) <= w.meant.n
  PROVE  /\ BytesArrive(w, slice).got = w.got \o slice
         /\ BytesArrive(w, slice).ended <=> w.meant.is = "length" /\ Len(w.got \o slice) = w.meant.n
         /\ ~BytesArrive(w, slice).stray
         /\ BytesArrive(w, slice).is = w.is /\ BytesArrive(w, slice).total = w.total
         /\ BytesArrive(w, slice).written = w.written
<1>1. /\ w.got \in Seq(Nat) /\ w.meant.n \in Nat /\ ~w.stray
      /\ w.ended <=> w.meant.is = "length" /\ Len(w.got) = w.meant.n
  BY DEF WriterType, WriterAgrees
<1>2. CASE slice = <<>>
  <2>1. w.got \o slice = w.got
    BY <1>1, <1>2
  <2> QED BY <1>1, <1>2, <2>1 DEF BytesArrive
<1>3. CASE slice # <<>>
  <2>1. ~w.ended
    <3>1. Len(slice) \in Nat \ {0} /\ Len(w.got) \in Nat
      BY <1>1, <1>3
    <3> QED BY <1>1, <3>1
  <2>2. PICK got, ended : /\ got = w.got \o slice
                          /\ ended = (w.meant.is = "length" /\ Len(w.got \o slice) = w.meant.n)
    OBVIOUS
  <2>3. BytesArrive(w, slice) = [w EXCEPT !.got = got, !.ended = ended]
    BY <1>3, <2>1, <2>2 DEF BytesArrive
  <2>4. LET v == [w EXCEPT !.got = got, !.ended = ended] IN
        /\ v.got = got /\ v.ended = ended /\ v.stray = w.stray /\ v.is = w.is /\ v.total = w.total
        /\ v.written = w.written
    BY DEF WriterType
  <2> QED BY <1>1, <2>2, <2>3, <2>4
<1> QED BY <1>2, <1>3

(* A slice of what the reader returned is written as it is. *)
LEMMA WriteAgrees ==
  ASSUME NEW w \in WriterType, NEW slice \in Seq(Nat), WriterAgrees(w),
         w.meant.is = "length" => Len(w.got) + Len(slice) <= w.meant.n,
         w.meant.is = "chunked" => slice # <<>>
  PROVE  WriterAgrees(WriteBody(w, slice)) /\ WriteBody(w, slice).got = w.got \o slice
<1>1. /\ w.got \in Seq(Nat) /\ w.meant.n \in Nat /\ ~w.stray /\ w.written \in Nat /\ w.total \in Nat
      /\ w.meant.is \in {"length", "chunked", "closed"}
      /\ w.is \in {w.meant.is, "closed"} /\ (w.meant.is = "chunked" => w.is = "chunked")
      /\ w.is = "length" => w.total = w.meant.n /\ w.written = Len(w.got)
      /\ w.ended <=> w.meant.is = "length" /\ Len(w.got) = w.meant.n
  BY DEF WriterType, WriterAgrees
<1>2. Len(w.got) \in Nat /\ Len(slice) \in Nat /\ Len(w.got \o slice) = Len(w.got) + Len(slice)
  BY <1>1
<1>3. WriteBody(w, slice).meant = w.meant /\ WriteBody(w, slice) \in WriterType
  BY WriteMeant, WriteBodyType
<1>4. ASSUME NEW v \in WriterType, NEW n \in Nat
      PROVE  /\ Written(v, n).written = v.written + n /\ Written(v, n).is = v.is
             /\ Written(v, n).total = v.total /\ Written(v, n).got = v.got
             /\ Written(v, n).ended = v.ended /\ Written(v, n).stray = v.stray
  BY DEF Written, WriterType
<1>5. CASE WriterFinished(w)
  <2>1. w.is = "length" /\ w.meant.is = "length" /\ Len(w.got) >= w.meant.n
    BY <1>1, <1>5 DEF WriterFinished
  <2>2. Len(slice) = 0
    BY <1>1, <1>2, <2>1
  <2>3. slice = <<>>
    BY <2>2
  <2>4. w.got \o slice = w.got
    BY <1>1, <2>3
  <2> QED BY <1>5, <2>4 DEF WriteBody
<1>6. CASE ~WriterFinished(w) /\ w.is = "chunked"
  <2>1. w.meant.is = "chunked" /\ ~w.ended /\ slice # <<>>
    BY <1>1, <1>6
  <2>2. PICK got : got = w.got \o slice
    OBVIOUS
  <2>3. ChunkArrives(w, slice) = [w EXCEPT !.got = got, !.ended = FALSE]
    BY <2>1, <2>2 DEF ChunkArrives
  <2>4. LET v == [w EXCEPT !.got = got, !.ended = FALSE] IN
        v.got = got /\ v.ended = FALSE /\ v.stray = w.stray /\ v.is = w.is
    BY DEF WriterType
  <2>5. ChunkArrives(w, slice) \in WriterType
    BY ArrivesType
  <2>6. WriteBody(w, slice) = Written(ChunkArrives(w, slice), Len(slice))
    BY <1>6 DEF WriteBody
  <2> DEFINE v == WriteBody(w, slice)
  <2>7. /\ v.got = w.got \o slice /\ ~v.stray /\ v.is = "chunked" /\ v.meant = w.meant /\ ~v.ended
    <3>1. PICK c \in WriterType : c = ChunkArrives(w, slice)
      BY <2>5
    <3>2. c.got = w.got \o slice /\ ~c.ended /\ ~c.stray /\ c.is = "chunked"
      <4>1. c = [w EXCEPT !.got = got, !.ended = FALSE]
        BY <2>3, <3>1
      <4>2. c.got = got /\ c.ended = FALSE /\ c.stray = w.stray /\ c.is = w.is
        BY <2>4, <4>1
      <4> QED BY <1>1, <1>6, <2>2, <4>2
    <3>3. v = Written(c, Len(slice))
      BY <2>6, <3>1
    <3>4. v.got = c.got /\ v.stray = c.stray /\ v.is = c.is /\ v.ended = c.ended
      BY <1>2, <1>4, <3>1, <3>3
    <3> QED BY <1>3, <3>2, <3>4
  <2> HIDE DEF v
  <2>8. WriterAgrees(v)
    BY <2>1, <2>7 DEF WriterAgrees
  <2> QED BY <2>7, <2>8 DEF v
<1>7. CASE ~WriterFinished(w) /\ w.is # "chunked"
  <2>1. w.meant.is # "chunked"
    BY <1>1, <1>7
  <2>2. BytesArrive(w, slice) \in WriterType
    BY ArrivesType
  <2>3. WriteBody(w, slice) = Written(BytesArrive(w, slice), Len(slice))
    <3>1. CASE w.is = "length"
      <4>1. Len(slice) <= w.total - w.written
        BY <1>1, <1>2, <3>1
      <4>2. SubSeq(slice, 1, Len(slice)) = slice
        OBVIOUS
      <4>3. WriteByContentLength(w, slice) = Written(BytesArrive(w, slice), Len(slice))
        <5>1. (IF w.total - w.written < Len(slice) THEN w.total - w.written ELSE Len(slice)) = Len(slice)
          BY <1>1, <1>2, <4>1
        <5> QED BY <4>2, <5>1 DEF WriteByContentLength
      <4> QED BY <1>7, <3>1, <4>3 DEF WriteBody
    <3>2. CASE w.is # "length"
      BY <1>7, <3>2 DEF WriteBody
    <3> QED BY <3>1, <3>2
  <2>4. /\ BytesArrive(w, slice).got = w.got \o slice
        /\ BytesArrive(w, slice).ended <=> w.meant.is = "length" /\ Len(w.got \o slice) = w.meant.n
        /\ ~BytesArrive(w, slice).stray
        /\ BytesArrive(w, slice).is = w.is /\ BytesArrive(w, slice).total = w.total
        /\ BytesArrive(w, slice).written = w.written
    BY <2>1, BytesArriveIs
  <2> DEFINE v == WriteBody(w, slice)
  <2>5. /\ v.got = w.got \o slice /\ ~v.stray /\ v.is = w.is /\ v.total = w.total
        /\ v.written = w.written + Len(slice) /\ v.meant = w.meant
        /\ v.ended <=> w.meant.is = "length" /\ Len(w.got \o slice) = w.meant.n
    BY <1>2, <1>3, <1>4, <2>2, <2>3, <2>4
  <2> HIDE DEF v
  <2>6. v.is = "length" => v.total = v.meant.n /\ v.written = Len(v.got)
    BY <1>1, <1>2, <2>5
  <2>7. WriterAgrees(v)
    BY <1>1, <2>1, <2>5, <2>6 DEF WriterAgrees
  <2> QED BY <2>5, <2>7 DEF v
<1> QED BY <1>5, <1>6, <1>7

LEMMA LengthIsKept ==
  ASSUME ReaderType, ReaderInv, NEW w, NEW rest, Wrote(w, rest), w.meant.is = "length"
  PROVE  Len(w.got) + Len(rest) <= w.meant.n /\ w.meant.n = Size /\ framing = "length"
<1>1. framing = "length" /\ w.meant.n = Size
  BY FramingIs DEF Wrote
<1>2. Len(delivered) <= Size
  BY <1>1 DEF ReaderInv
<1>3. Len(delivered) = Len(w.got) + Len(rest)
  <2>1. w.got \in Seq(Nat) /\ rest \in Seq(Nat) /\ w.got \o rest = delivered
    BY DEF Wrote, WriterType
  <2> QED BY <2>1
<1> QED BY <1>1, <1>2, <1>3

LEMMA ConcatBounded ==
  ASSUME NEW s \in Seq(Nat), NEW t \in Seq(Nat), NEW a \in Nat, NEW n \in Nat, a + Len(s \o t) <= n
  PROVE  a + Len(s) <= n
OBVIOUS

LEMMA WritesMore ==
  ASSUME ReaderType, ReaderInv, NEW w, NEW slice \in Seq(Nat), NEW rest \in Seq(Nat),
         Wrote(w, slice \o rest), framing = "chunked" => slice # <<>>
  PROVE  Wrote(WriteBody(w, slice), rest)
<1>1. /\ w \in WriterType /\ WriterAgrees(w) /\ w.meant = Meant(message)
      /\ w.got \o (slice \o rest) = delivered /\ w.got \in Seq(Nat)
  BY DEF Wrote, WriterType
<1>2. w.meant.is = "length" => Len(w.got) + Len(slice) <= w.meant.n
  <2> SUFFICES ASSUME w.meant.is = "length" PROVE Len(w.got) + Len(slice) <= w.meant.n
    OBVIOUS
  <2>1. Len(w.got) + Len(slice \o rest) <= w.meant.n
    BY LengthIsKept
  <2>2. Len(w.got) \in Nat /\ w.meant.n \in Nat
    BY <1>1 DEF WriterType
  <2> QED BY <2>1, <2>2, ConcatBounded
<1>3. w.meant.is = "chunked" => slice # <<>>
  BY <1>1, FramingIs
<1>4. WriterAgrees(WriteBody(w, slice)) /\ WriteBody(w, slice).got = w.got \o slice
  BY <1>1, <1>2, <1>3, WriteAgrees
<1>5. (w.got \o slice) \o rest = w.got \o (slice \o rest)
  <2>1. PICK got \in Seq(Nat) : got = w.got
    BY <1>1
  <2>a. Regroups(Nat, got, slice, rest)
    BY <2>1, RegroupsIs
  <2>2. (got \o slice) \o rest = got \o (slice \o rest)
    BY <2>a DEF Regroups
  <2> QED BY <2>1, <2>2
<1>6. WriteBody(w, slice) \in WriterType /\ WriteBody(w, slice).meant = w.meant
  BY <1>1, WriteBodyType, WriteMeant
<1> QED BY <1>1, <1>4, <1>5, <1>6 DEF Wrote

(* The end of the body finds the writer with all of it. *)
LEMMA EndsWhole ==
  ASSUME ReaderType, ReaderInv, NEW w, Wrote(w, <<>>), read_state.is = "completed"
  PROVE  /\ ~Premature(w) /\ ~Finish(w).stray
         /\ WholeBody(Finish(w).got) /\ PartOfBody(Finish(w).got)
<1>1. /\ w \in WriterType /\ WriterAgrees(w) /\ w.meant = Meant(message)
      /\ w.got \in Seq(Nat) /\ w.got = delivered
  <2>1. w.got \in Seq(Nat) /\ w.got \o <<>> = delivered
    BY DEF Wrote, WriterType
  <2>2. w.got \o <<>> = w.got
    BY <2>1
  <2> QED BY <2>1, <2>2 DEF Wrote
<1>2. WholeBody(delivered) /\ PartOfBody(delivered)
  BY DEF ReaderInv, Finished
<1>3. ~Premature(w)
  <2> SUFFICES ASSUME w.is = "length" PROVE w.written >= w.total
    BY <1>1 DEF Premature, WriterType
  <2>1. w.meant.is = "length" /\ w.total = w.meant.n /\ w.written = Len(w.got)
    BY <1>1 DEF WriterAgrees
  <2>2. framing = "length" /\ w.meant.n = Size
    BY <2>1, LengthIsKept
  <2>3. Len(delivered) = Size
    BY <2>2 DEF ReaderInv
  <2>4. Size \in Nat
    BY <2>2, PlainIs
  <2> QED BY <1>1, <2>1, <2>2, <2>3, <2>4
<1>4. Finish(w).got = w.got /\ ~Finish(w).stray
  <2>1. CASE w.is = "chunked"
    <3>1. w.meant.is = "chunked" /\ ~w.ended /\ ~w.stray
      BY <1>1, <2>1 DEF WriterAgrees
    <3>2. ChunkArrives(w, <<>>) = [w EXCEPT !.got = w.got, !.ended = TRUE]
      <4>1. w.got \o <<>> = w.got
        BY <1>1
      <4> QED BY <3>1, <4>1 DEF ChunkArrives
    <3>3. PICK v \in WriterType : v = ChunkArrives(w, <<>>)
      <4>1. <<>> \in Seq(Nat)
        OBVIOUS
      <4> QED BY <1>1, <4>1, ArrivesType
    <3>4. v.got = w.got /\ v.stray = w.stray
      BY <1>1, <3>2, <3>3 DEF WriterType
    <3>5. [v EXCEPT !.is = "completed"].got = v.got /\ [v EXCEPT !.is = "completed"].stray = v.stray
      BY <3>3 DEF WriterType
    <3> QED BY <2>1, <3>1, <3>3, <3>4, <3>5 DEF Finish
  <2>2. CASE w.is # "chunked"
    <3>1. Finish(w) = [w EXCEPT !.is = "completed"]
      BY <2>2 DEF Finish
    <3> QED BY <1>1, <3>1 DEF WriterAgrees, WriterType
  <2> QED BY <2>1, <2>2
<1> QED BY <1>1, <1>2, <1>3, <1>4

(* A new writer agrees, if what it writes is understood. *)
LEMMA NewWriterAgrees ==
  ASSUME NEW mode \in ModeType, NEW meant \in ModeType, Understood(mode, meant)
  PROVE  WriterAgrees(NewWriter(mode, meant)) /\ NewWriter(mode, meant).got = <<>>
<1> DEFINE w == NewWriter(mode, meant)
<1>1. /\ w.is = mode.is /\ w.total = mode.n /\ w.written = 0 /\ w.meant = meant /\ w.got = <<>>
      /\ w.ended <=> meant.is = "length" /\ meant.n = 0
      /\ w.stray = FALSE
  BY DEF NewWriter
<1>2. /\ mode.is = "chunked" <=> mode = ChunkedEncoding
      /\ mode.is = "closed" <=> mode = UntilClosed
      /\ meant.is = "chunked" <=> meant = ChunkedEncoding
      /\ meant.n \in Nat
  BY ModeFields
<1>3. mode = meant \/ (mode.is = "closed" /\ meant.is # "chunked")
  BY <1>2 DEF Understood
<1>4. Len(w.got) = 0
  BY <1>1
<1> HIDE DEF w
<1>5. WriterAgrees(w)
  BY <1>1, <1>2, <1>3, <1>4 DEF WriterAgrees
<1> QED BY <1>1, <1>5 DEF w

(* The head of a request of chunks says so, and it is not written by a length. *)
LEMMA ChunkedRequests ==
  ASSUME NEW q \in RequestHeads, ~Listed(q), RequestMeant(q) = ChunkedEncoding
  PROVE  q.coding = "chunked" /\ RequestWriter(q) \in {ChunkedEncoding, UntilClosed}
<1>1. q.coding \in {"none", "chunked"}
  BY DEF RequestHeads, Listed
<1>2. q.coding # "none"
  BY ModesDiffer DEF RequestMeant, Framed, Declared
<1> QED BY <1>1, <1>2 DEF RequestWriter, Declared

LEMMA InitTasks ==
  ASSUME Init
  PROVE  /\ tasks = <<>> \/ (tasks = <<Task("body", <<>>, TRUE)>> /\ read_state.is = "completed")
         /\ delivered = <<>>
<1>1. \E mode : ReaderInit(mode)
  BY DEF Init
<1>2. delivered = <<>> /\ \E mode : read_state = Initial(mode)
  BY <1>1 DEF ReaderInit
<1>3. read_state.is # "done"
  BY <1>2 DEF Initial, Chunked, Sized
<1>4. tasks = <<>> \/ (tasks = <<Task("body", <<>>, TRUE)>> /\ Finished)
  BY DEF Init
<1> QED BY <1>2, <1>3, <1>4 DEF Finished

LEMMA InitRelay ==
  ASSUME Init, RelayTypes, ReadInv
  PROVE  RelayInv
<1>1. /\ head.request \in RequestHeads /\ direction \in {"request", "response"}
      /\ direction = "response" => head.response \in ResponseHeads
      /\ outcome = "running" /\ hollow = FALSE
  BY HeadType DEF Init
<1>2. message \in Messages /\ Meant(message) \in ModeType
  BY WireIs, MeantIs DEF RelayTypes
<1>3. PICK t : t = Task("body", <<>>, TRUE)
  OBVIOUS
<1>4. t.is = "body" /\ t.slice = <<>> /\ t.end = TRUE /\ t \in TaskType
  BY <1>3 DEF Task, TaskType
<1>5. /\ tasks = <<>> \/ (tasks = <<t>> /\ read_state.is = "completed")
      /\ delivered = <<>>
  BY <1>3, InitTasks
<1>6. ASSUME NEW i \in 1..Len(tasks)
      PROVE  tasks[i] = t /\ i = Len(tasks) /\ read_state.is = "completed"
  <2>1. CASE tasks = <<>>
    <3>1. Len(tasks) = 0
      BY <2>1
    <3> QED BY <1>6, <3>1
  <2>2. CASE tasks = <<t>> /\ read_state.is = "completed"
    <3>1. Len(tasks) = 1 /\ tasks[1] = t
      BY <2>2
    <3>2. i = 1
      BY <1>6, <3>1
    <3> QED BY <2>2, <3>1, <3>2
  <2> QED BY <1>5, <2>1, <2>2
<1>7. TasksInv
  BY <1>4, <1>6 DEF TasksInv
<1>8. EmptyTaskEnds
  BY <1>4, <1>6 DEF EmptyTaskEnds
<1>9. Waiting(tasks) = <<>>
  <2>1. CASE tasks = <<>>
    BY <2>1, WaitingNone
  <2>2. CASE tasks = <<t>>
    <3>1. <<>> \in Seq(TaskType) /\ Append(<<>>, t) = <<t>>
      BY <1>4
    <3>2. Waiting(Append(<<>>, t)) = Waiting(<<>>) \o t.slice
      BY <1>4, <3>1, WaitingAppend
    <3> QED BY <1>4, <2>2, <3>1, <3>2, WaitingNone
  <2> QED BY <1>5, <2>1, <2>2
<1>10. ASSUME Good PROVE GoodInv
  <2>1. ASSUME direction = "request", framing = "chunked" PROVE writer.is # "length"
    <3>1. RequestMeant(head.request) = ChunkedEncoding
      BY <2>1, FramingIs DEF RelayTypes, ReadInv, HeadInv
    <3>2. ~Listed(head.request)
      BY <1>10, <2>1 DEF Good, Misread
    <3>3. RequestWriter(head.request) \in {ChunkedEncoding, UntilClosed}
      BY <1>1, <3>1, <3>2, ChunkedRequests
    <3>4. writer.is = RequestWriter(head.request).is
      BY <2>1 DEF Init, NewWriter
    <3> QED BY <3>3, <3>4 DEF ChunkedEncoding, UntilClosed
  <2> QED BY <1>1, <1>7, <1>10, <2>1 DEF GoodInv, ReadInv
<1>11. ASSUME Regular PROVE WriterInv
  <2>1. PICK mode \in ModeType : writer = NewWriter(mode, Meant(message)) /\ Understood(mode, Meant(message))
    <3>1. CASE direction = "request"
      <4>1. ~Listed(head.request) /\ ~WrittenRaw(head.request)
        BY <1>11, <3>1 DEF Regular, Good, Misread, Unframed
      <4>2. RequestWriter(head.request) \in ModeType
        BY <1>1, ModesAre
      <4>3. /\ Meant(message) = RequestMeant(head.request)
            /\ writer = NewWriter(RequestWriter(head.request), Meant(message))
        BY <3>1 DEF Init
      <4>4. Understood(RequestWriter(head.request), RequestMeant(head.request))
        BY <1>1, <4>1, RequestsAreUnderstood
      <4> QED BY <4>2, <4>3, <4>4
    <3>2. CASE direction = "response"
      <4>1. /\ ~ListedResponse(head.request, head.response)
            /\ ~HalfSwitched(head.request, head.response)
        BY <1>11, <3>2 DEF Regular, Good, Misread, Unframed
      <4>2. ResponseWriter(head.request, head.response) \in ModeType
        BY <1>1, <3>2, ModesAre
      <4>3. /\ Meant(message) = ResponseMeant(head.request, head.response)
            /\ writer = NewWriter(ResponseWriter(head.request, head.response), Meant(message))
        BY <3>2 DEF Init
      <4>4. ResponseWriter(head.request, head.response) = ResponseMeant(head.request, head.response)
        BY <1>1, <3>2, <4>1, ResponsesAgree
      <4> QED BY <4>2, <4>3, <4>4 DEF Understood
    <3> QED BY <1>1, <3>1, <3>2
  <2>2. WriterAgrees(writer) /\ writer.got = <<>>
    BY <1>2, <2>1, NewWriterAgrees
  <2>3. <<>> \o <<>> = <<>>
    OBVIOUS
  <2> QED BY <1>5, <1>8, <1>9, <2>2, <2>3 DEF WriterInv
<1> QED BY <1>1, <1>10, <1>11 DEF RelayInv, ReadInv

(* The steps, each from a state in which the relay runs.  First what a read puts
   into the channel, but for an end that is not passed on. *)
Silent ==
  direction = "request" /\ IsRequestUpgrade(head.request) /\ returned'.is = "none"

LEMMA ReadPuts ==
  ASSUME RelayTypes, RelayInv, Good, Read, ~Silent
  PROVE  \E t \in TaskType :
           /\ tasks' = Append(tasks, t) /\ delivered' = delivered \o t.slice
           /\ t.end => t.is = "body" /\ read_state'.is = "completed"
           /\ t.is = "failed" => read_state'.is = "done" /\ t.slice = <<>>
           /\ framing = "chunked" /\ ~hollow' /\ t.is = "body" => (t.end <=> t.slice = <<>>)
<1>1. /\ ReadBody /\ ~Finished /\ ReaderType /\ ReaderInv /\ tasks \in Seq(TaskType)
      /\ tasks' = Append(tasks, Task(IF returned'.is = "error" THEN "failed" ELSE "body",
                                     returned'.slice, ~(returned'.is = "error") /\ Finished'))
      /\ hollow' = (hollow \/ (read_state.is = "chunked" /\ returned'.is = "some"
                                 /\ returned'.slice = <<>>))
  BY DEF Silent, Read, ReadTask, RelayTypes, RelayType, RelayInv, GoodInv
<1>2. CallIs /\ ReaderType'
  BY <1>1, ReadKeeps, ReadKeepsType
<1>3. /\ delivered' = delivered \o returned'.slice
      /\ returned'.is \in {"some", "none", "error"}
      /\ returned'.is = "error" <=> read_state'.is = "done"
      /\ returned'.is = "none" => read_state'.is = "completed"
      /\ framing = "chunked" /\ read_state'.is = "completed" => returned'.is = "none"
  BY <1>2 DEF CallIs
<1>4. returned'.slice \in Seq(Nat) /\ (returned'.is # "some" => returned'.slice = <<>>)
  BY <1>2 DEF ReaderType, ReturnType
<1>5. PICK failed \in BOOLEAN, end \in BOOLEAN :
        failed = (returned'.is = "error") /\ end = (~(returned'.is = "error") /\ Finished')
  OBVIOUS
<1>6. Finished' <=> read_state'.is \in {"completed", "done"}
  BY DEF Finished
<1>7. end <=> read_state'.is = "completed"
  BY <1>3, <1>5, <1>6
<1>8. PICK t : t = Task(IF failed THEN "failed" ELSE "body", returned'.slice, end)
  OBVIOUS
<1>9. /\ t.is = (IF failed THEN "failed" ELSE "body") /\ t.slice = returned'.slice
      /\ t.end = end /\ t \in TaskType
  BY <1>4, <1>8 DEF Task, TaskType
<1>10. tasks' = Append(tasks, t)
  BY <1>1, <1>5, <1>8
<1>11. framing = "chunked" => read_state.is = "chunked"
  <2>1. read_state.is \in {"chunked", "partial", "http10", "completed", "done"}
    BY <1>1 DEF ReaderType, ReadStateFits, ReadStateType
  <2>2. read_state.is \notin {"completed", "done"}
    BY <1>1 DEF Finished
  <2> QED BY <1>1, <2>1, <2>2 DEF ReaderInv, ReadsPartially, ReadsUntilClosed
<1>12. t.end => t.is = "body" /\ read_state'.is = "completed"
  BY <1>5, <1>7, <1>9
<1>13. t.is = "failed" => read_state'.is = "done" /\ t.slice = <<>>
  BY <1>3, <1>4, <1>5, <1>9
<1>14. ASSUME framing = "chunked", ~hollow', t.is = "body" PROVE t.end <=> t.slice = <<>>
  <2>1. returned'.is # "error"
    BY <1>5, <1>9, <1>14
  <2>2. CASE returned'.is = "none"
    BY <1>3, <1>4, <1>7, <1>9, <2>2
  <2>3. CASE returned'.is = "some"
    <3>1. ~t.end
      BY <1>3, <1>7, <1>9, <1>14, <2>3
    <3>2. t.slice # <<>>
      BY <1>1, <1>9, <1>11, <1>14, <2>3
    <3> QED BY <3>1, <3>2
  <2> QED BY <1>3, <2>1, <2>2, <2>3
<1> QED BY <1>3, <1>9, <1>10, <1>12, <1>13, <1>14

LEMMA ReadIsTold ==
  ASSUME RelayTypes, RelayInv, Read, ReadInv', ~Silent
  PROVE  RelayInv'
<1>1. /\ outcome = "running" /\ outcome' = "running" /\ head' = head /\ writer' = writer
      /\ UNCHANGED message_vars /\ direction' = direction /\ framing' = framing
      /\ Unframed' = Unframed /\ (Good' => Good) /\ ~Finished /\ (hollow => hollow')
      /\ tasks \in Seq(TaskType) /\ Len(tasks) \in Nat
  <2>1. tasks \in Seq(TaskType) /\ Len(tasks) \in Nat
    BY DEF RelayTypes, RelayType
  <2> QED BY <2>1, HeadStays, MessageStays DEF Next, Read, ReadTask
<1>2. ASSUME Good' PROVE GoodInv'
  <2>1. Good /\ GoodInv /\ TasksInv
    BY <1>1, <1>2 DEF RelayInv, GoodInv
  <2>2. PICK t \in TaskType :
           /\ tasks' = Append(tasks, t) /\ delivered' = delivered \o t.slice
           /\ t.end => t.is = "body" /\ read_state'.is = "completed"
           /\ t.is = "failed" => read_state'.is = "done" /\ t.slice = <<>>
    BY <2>1, ReadPuts
  <2>3. /\ Len(tasks') = Len(tasks) + 1 /\ tasks'[Len(tasks) + 1] = t
        /\ \A i \in 1..Len(tasks) : tasks'[i] = tasks[i]
    BY <1>1, <2>2
  <2>4. \A i \in 1..Len(tasks) : ~tasks[i].end /\ tasks[i].is # "failed"
    BY <1>1, <2>1 DEF TasksInv, Finished
  <2>5. TasksInv'
    <3>1. ASSUME NEW i \in 1..Len(tasks')
          PROVE  /\ tasks'[i].end => i = Len(tasks') /\ tasks'[i].is = "body"
                                     /\ read_state'.is = "completed"
                 /\ tasks'[i].is = "failed" =>
                      i = Len(tasks') /\ read_state'.is = "done" /\ tasks'[i].slice = <<>>
      <4>1. CASE i = Len(tasks) + 1
        BY <2>2, <2>3, <4>1
      <4>2. CASE i # Len(tasks) + 1
        <5>1. i \in 1..Len(tasks)
          BY <1>1, <2>3, <4>2
        <5> QED BY <2>3, <2>4, <5>1
      <4> QED BY <4>1, <4>2
    <3> QED BY <3>1 DEF TasksInv
  <2>6. hollow' => framing' = "chunked"
    <3>1. hollow' => hollow \/ read_state.is = "chunked"
      BY DEF Read, ReadTask
    <3>2. read_state.is = "chunked" => framing = "chunked"
      BY <2>1 DEF GoodInv, ReaderInv, ReadsChunks
    <3> QED BY <1>1, <2>1, <3>1, <3>2 DEF GoodInv
  <2>7. ReaderInv'
    BY <1>2 DEF ReadInv
  <2> QED BY <1>1, <2>1, <2>5, <2>6, <2>7 DEF GoodInv
<1>3. ASSUME Regular' PROVE WriterInv'
  <2>1. Good /\ Regular
    BY <1>1, <1>3 DEF Regular, HollowRequest
  <2>2. WriterAgrees(writer) /\ writer.got \o Waiting(tasks) = delivered /\ EmptyTaskEnds
    BY <1>1, <2>1 DEF RelayInv, WriterInv
  <2>3. PICK t \in TaskType :
           /\ tasks' = Append(tasks, t) /\ delivered' = delivered \o t.slice
           /\ framing = "chunked" /\ ~hollow' /\ t.is = "body" => (t.end <=> t.slice = <<>>)
    BY <2>1, ReadPuts
  <2>4. writer'.got \o Waiting(tasks') = delivered'
    <3>1. writer.got \in Seq(Nat)
      BY DEF RelayTypes, RelayType, WriterType
    <3> QED BY <1>1, <2>2, <2>3, <3>1, WaitingMore
  <2>5. EmptyTaskEnds'
    <3>1. /\ Len(tasks') = Len(tasks) + 1 /\ tasks'[Len(tasks) + 1] = t
          /\ \A i \in 1..Len(tasks) : tasks'[i] = tasks[i]
      BY <1>1, <2>3
    <3>2. ASSUME framing' = "chunked", ~hollow', NEW i \in 1..Len(tasks'), tasks'[i].is = "body"
          PROVE  tasks'[i].end <=> tasks'[i].slice = <<>>
      <4>1. CASE i = Len(tasks) + 1
        BY <1>1, <2>3, <3>1, <3>2, <4>1
      <4>2. CASE i # Len(tasks) + 1
        <5>1. i \in 1..Len(tasks) /\ tasks'[i] = tasks[i]
          BY <1>1, <3>1, <4>2
        <5> QED BY <1>1, <2>2, <3>2, <5>1 DEF EmptyTaskEnds
      <4> QED BY <4>1, <4>2
    <3> QED BY <3>2 DEF EmptyTaskEnds
  <2>6. WriterAgrees(writer)'
    BY <1>1, <2>2 DEF WriterAgrees
  <2>7. Waiting(tasks)' = Waiting(tasks')
    BY DEF Waiting, Slices
  <2> QED BY <2>4, <2>5, <2>6, <2>7 DEF WriterInv
<1> QED BY <1>1, <1>2, <1>3 DEF RelayInv, ReadInv

(* Such an end leaves the channel as it is: nothing was returned with it. *)
LEMMA ReadIsSilent ==
  ASSUME RelayTypes, RelayInv, Read, ReadInv', Silent
  PROVE  RelayInv'
<1>1. /\ outcome = "running" /\ outcome' = "running" /\ head' = head /\ writer' = writer
      /\ UNCHANGED message_vars /\ direction' = direction /\ framing' = framing
      /\ Unframed' = Unframed /\ (Good' => Good) /\ ~Finished
      /\ tasks \in Seq(TaskType) /\ ReadBody /\ ReaderType
  <2>1. tasks \in Seq(TaskType) /\ ReaderType
    BY DEF RelayTypes, RelayType
  <2> QED BY <2>1, HeadStays, MessageStays DEF Next, Read, ReadTask
<1>2. returned'.is = "none" /\ tasks' = tasks
  BY DEF Silent, Read, ReadTask
<1>3. hollow' = hollow
  <2>1. hollow \in BOOLEAN /\ hollow' = (hollow \/ FALSE)
    BY <1>2 DEF RelayTypes, RelayType, Read, ReadTask
  <2> QED BY <2>1
<1>4. ASSUME Good PROVE delivered' = delivered
  <2>1. CallIs /\ ReaderType'
    BY <1>1, <1>4, ReadKeeps, ReadKeepsType DEF RelayInv, GoodInv
  <2>2. returned'.slice = <<>> /\ delivered' = delivered \o returned'.slice
    BY <1>2, <2>1 DEF CallIs, ReaderType, ReturnType
  <2>3. delivered \in Seq(Nat)
    BY <1>1 DEF ReaderType
  <2> QED BY <2>2, <2>3
<1>5. ASSUME Good' PROVE GoodInv'
  <2>1. Good /\ GoodInv /\ TasksInv
    BY <1>1, <1>5 DEF RelayInv, GoodInv
  <2>2. \A i \in 1..Len(tasks) : ~tasks[i].end /\ tasks[i].is # "failed"
    BY <1>1, <2>1 DEF TasksInv, Finished
  <2>3. TasksInv'
    BY <1>2, <2>2 DEF TasksInv
  <2>4. ReaderInv'
    BY <1>5 DEF ReadInv
  <2> QED BY <1>1, <1>3, <2>1, <2>3, <2>4 DEF GoodInv
<1>6. ASSUME Regular' PROVE WriterInv'
  <2>1. Good /\ Regular
    BY <1>1, <1>3, <1>6 DEF Regular, HollowRequest
  <2>2. WriterInv /\ delivered' = delivered
    BY <1>1, <1>4, <2>1 DEF RelayInv
  <2> QED BY <1>1, <1>2, <1>3, <2>2 DEF WriterInv, WriterAgrees, Waiting, Slices, EmptyTaskEnds
<1> QED BY <1>1, <1>5, <1>6 DEF RelayInv, ReadInv

LEMMA ReadRelays ==
  ASSUME RelayTypes, RelayInv, Read, ReadInv'
  PROVE  RelayInv'
BY ReadIsTold, ReadIsSilent

LEMMA WriterBodyStays ==
  ASSUME UNCHANGED message_vars
  PROVE  /\ PartOfBody(writer'.got) => PartOfBody(writer.got)'
         /\ WholeBody(writer'.got) => WholeBody(writer.got)'
<1>1. Body' = Body /\ cut' = cut /\ framing' = framing /\ Len(wire') = Len(wire)
  BY MessageStays
<1>2. PartOfBody(writer'.got) => PartOfBody(writer.got)'
  BY <1>1 DEF IsBodyUpTo, PartOfBody
<1>3. WholeBody(writer'.got) => WholeBody(writer.got)'
  BY <1>1 DEF IsBodyUpTo, WholeBody
<1> QED BY <1>2, <1>3

(* A relay whose reader, writer and channel stay is as it was. *)
LEMMA RelayInvStays ==
  ASSUME RelayTypes, RelayInv, ReadInv',
         UNCHANGED message_vars, UNCHANGED relay_vars, UNCHANGED read_state, UNCHANGED delivered,
         Good' => Good
  PROVE  RelayInv'
<1>1. /\ head' = head /\ tasks' = tasks /\ writer' = writer /\ outcome' = outcome /\ hollow' = hollow
      /\ framing' = framing /\ Whole' = Whole /\ LongHeads' = LongHeads
      /\ read_state' = read_state /\ delivered' = delivered
  BY MessageStays DEF relay_vars
<1>2. direction' = direction /\ Unframed' = Unframed
  BY <1>1 DEF direction, Unframed
<1>3. TasksInv => TasksInv'
  BY <1>1 DEF TasksInv
<1>4. Regular' => Regular
  BY <1>1, <1>2 DEF Regular, HollowRequest
<1>5. WriterInv => WriterInv'
  BY <1>1 DEF WriterInv, WriterAgrees, Waiting, Slices, EmptyTaskEnds
<1>6. PartOfBody(writer.got) => PartOfBody(writer.got)'
  BY <1>1, WriterBodyStays
<1>7. WholeBody(writer.got) => WholeBody(writer.got)'
  BY <1>1, WriterBodyStays
<1>8. Settled => Settled'
  BY <1>1, <1>6, <1>7 DEF Settled
<1>9. Good' => GoodInv'
  BY <1>1, <1>2, <1>3 DEF RelayInv, GoodInv, ReadInv
<1> QED BY <1>1, <1>4, <1>5, <1>8, <1>9 DEF RelayInv, ReadInv, Regular

(* What a write makes of the relay: either it goes on, or it is through. *)
LEMMA GoesOn ==
  ASSUME ReadInv', Good' => Good, UNCHANGED reader_vars, UNCHANGED <<head, hollow>>,
         outcome' = "running",
         Good => TasksInv' /\ (hollow => framing = "chunked"),
         Good /\ direction = "request" /\ framing = "chunked" => writer'.is # "length",
         Regular => Wrote(writer', Waiting(tasks')) /\ EmptyTaskEnds'
  PROVE  RelayInv'
<1>1. /\ head' = head /\ hollow' = hollow /\ framing' = framing /\ direction' = direction
      /\ Unframed' = Unframed /\ delivered' = delivered
  BY MessageStays DEF reader_vars, direction, Unframed
<1>2. Regular' => Regular
  BY <1>1 DEF Regular, HollowRequest
<1>3. Good' => GoodInv'
  BY <1>1 DEF GoodInv, ReadInv
<1>4. ASSUME Regular' PROVE WriterInv'
  <2>1. /\ WriterAgrees(writer') /\ writer'.got \o Waiting(tasks') = delivered /\ EmptyTaskEnds'
    BY <1>2, <1>4 DEF Wrote
  <2>2. WriterAgrees(writer)' /\ Waiting(tasks)' = Waiting(tasks')
    BY <2>1 DEF WriterAgrees, Waiting, Slices
  <2> QED BY <1>1, <2>1, <2>2 DEF WriterInv
<1> QED BY <1>3, <1>4 DEF RelayInv, ReadInv

LEMMA IsThrough ==
  ASSUME ReadInv', Good' => Good, UNCHANGED reader_vars, UNCHANGED <<head, hollow>>,
         outcome' \in {"done", "error", "panic"},
         Good => (hollow => framing = "chunked"),
         Good /\ direction = "request" /\ framing = "chunked" =>
           writer'.is # "length" /\ outcome' # "error",
         Regular => /\ PartOfBody(writer'.got) /\ ~writer'.stray
                    /\ writer'.ended \/ outcome' = "done" => WholeBody(writer'.got)
                    /\ outcome' = "error" => ~Whole \/ LongHeads
  PROVE  RelayInv'
<1>1. /\ head' = head /\ hollow' = hollow /\ framing' = framing /\ direction' = direction
      /\ Unframed' = Unframed /\ Whole' = Whole /\ LongHeads' = LongHeads
  BY MessageStays DEF reader_vars, direction, Unframed
<1>2. Regular' => Regular
  BY <1>1 DEF Regular, HollowRequest
<1>3. Good' => GoodInv'
  BY <1>1 DEF GoodInv, ReadInv
<1>4. ASSUME Regular' PROVE Settled'
  <2>1. UNCHANGED message_vars
    BY DEF reader_vars
  <2> QED BY <1>1, <1>2, <1>4, <2>1, WriterBodyStays DEF Settled
<1> QED BY <1>3, <1>4 DEF RelayInv, ReadInv

LEMMA TailElements ==
  ASSUME NEW S, NEW s \in Seq(S), s # <<>>, NEW i \in 1..Len(Tail(s))
  PROVE  /\ Tail(s)[i] = s[i + 1] /\ i + 1 \in 1..Len(s)
         /\ i + 1 = Len(s) => i = Len(Tail(s))
OBVIOUS

(* The tasks behind the first. *)
LEMMA TailTasks ==
  ASSUME tasks \in Seq(TaskType), tasks # <<>>, tasks' = Tail(tasks),
         UNCHANGED reader_vars, hollow' = hollow
  PROVE  /\ TasksInv => TasksInv'
         /\ EmptyTaskEnds => EmptyTaskEnds'
<1>1. framing' = framing /\ read_state' = read_state
  BY MessageStays DEF reader_vars
<1>2. /\ framing' = framing /\ read_state' = read_state
      /\ \A i \in 1..Len(tasks') :
           /\ tasks'[i] = tasks[i + 1] /\ i + 1 \in 1..Len(tasks)
           /\ i + 1 = Len(tasks) => i = Len(tasks')
  BY <1>1, TailElements
<1>3. TasksInv => TasksInv'
  BY <1>2 DEF TasksInv
<1>4. EmptyTaskEnds => EmptyTaskEnds'
  BY <1>2 DEF EmptyTaskEnds
<1> QED BY <1>3, <1>4

LEMMA RequestRelays ==
  ASSUME RelayTypes, RelayInv, WriteRequest, ReadInv'
  PROVE  RelayInv'
<1>1. /\ outcome = "running" /\ direction = "request" /\ tasks # <<>> /\ tasks' = Tail(tasks)
      /\ UNCHANGED reader_vars /\ UNCHANGED <<head, hollow>> /\ (Good' => Good)
      /\ ReaderType /\ writer \in WriterType /\ tasks \in Seq(TaskType)
  BY HeadStays DEF WriteRequest, RelayTypes, RelayType, Write, Next
<1>2. PICK t \in TaskType, rest \in Seq(TaskType) :
        /\ t = Head(tasks) /\ t = tasks[1] /\ 1 \in 1..Len(tasks) /\ rest = Tail(tasks)
        /\ Len(tasks) = 1 => rest = <<>>
  <2>1. /\ Head(tasks) \in TaskType /\ Tail(tasks) \in Seq(TaskType) /\ Head(tasks) = tasks[1]
        /\ 1 \in 1..Len(tasks)
        /\ Len(tasks) = 1 => Tail(tasks) = <<>>
    BY <1>1
  <2> QED BY <2>1
<1>3. t.slice \in Seq(Nat) /\ t.end \in BOOLEAN /\ Waiting(rest) \in Seq(Nat)
  BY <1>2, SlicesIs DEF TaskType
<1>4. \/ t.is = "failed" /\ writer' = writer /\ outcome' = "panic"
      \/ /\ t.is = "body"
         /\ Ends(IF t.slice = <<>> /\ t.end THEN writer ELSE WriteBody(writer, t.slice), t.end)
  BY <1>2 DEF WriteRequest, Failed
<1>5. ASSUME Good PROVE /\ ReaderInv /\ TasksInv /\ (hollow => framing = "chunked")
                        /\ framing = "chunked" => writer.is # "length"
  BY <1>1, <1>5 DEF RelayInv, GoodInv
<1>6. ASSUME Regular
      PROVE  Good /\ ~hollow /\ EmptyTaskEnds /\ Wrote(writer, t.slice \o Waiting(rest))
  <2>1. Good /\ ~hollow /\ WriterInv /\ HeadInv
    BY <1>1, <1>6 DEF Regular, HollowRequest, RelayInv
  <2>2. Waiting(tasks) = t.slice \o Waiting(rest) /\ Waiting(tasks) \in Seq(Nat)
    BY <1>1, <1>2, WaitingFirst, SlicesIs
  <2> QED BY <1>1, <2>1, <2>2 DEF WriterInv, Wrote, HeadInv
<1>7. CASE t.is = "failed" /\ writer' = writer /\ outcome' = "panic"
  <2>1. Regular => /\ PartOfBody(writer'.got) /\ ~writer'.stray
                   /\ writer'.ended => WholeBody(writer'.got)
    BY <1>1, <1>5, <1>6, <1>7, WroteIs
  <2> QED BY <1>1, <1>5, <1>7, <2>1, IsThrough
<1>8. CASE /\ t.is = "body"
           /\ Ends(IF t.slice = <<>> /\ t.end THEN writer ELSE WriteBody(writer, t.slice), t.end)
  <2> DEFINE w == IF t.slice = <<>> /\ t.end THEN writer ELSE WriteBody(writer, t.slice)
  <2>1. w \in WriterType /\ w.is = writer.is
    BY <1>1, <1>3, WriteBodyType, WriteMeant
  <2>2. ASSUME Regular PROVE Wrote(w, Waiting(rest))
    <3>1. CASE t.slice = <<>> /\ t.end
      <4>1. <<>> \o Waiting(rest) = Waiting(rest)
        BY <1>3
      <4> QED BY <1>6, <2>2, <3>1, <4>1
    <3>2. CASE ~(t.slice = <<>> /\ t.end)
      <4>1. framing = "chunked" => t.slice # <<>>
        BY <1>2, <1>6, <1>8, <2>2, <3>2 DEF EmptyTaskEnds
      <4>2. Wrote(WriteBody(writer, t.slice), Waiting(rest))
        BY <1>1, <1>3, <1>5, <1>6, <2>2, <4>1, WritesMore
      <4> QED BY <3>2, <4>2
    <3> QED BY <3>1, <3>2
  <2>3. Ends(w, t.end)
    BY <1>8
  <2> HIDE DEF w
  <2>4. CASE ~t.end
    <3>1. writer' = w /\ outcome' = "running"
      BY <2>3, <2>4 DEF Ends
    <3>2. /\ Good => TasksInv' /\ (hollow => framing = "chunked")
          /\ Good /\ direction = "request" /\ framing = "chunked" => writer'.is # "length"
      BY <1>1, <1>5, <2>1, <3>1, TailTasks
    <3>3. Regular => Wrote(writer', Waiting(tasks')) /\ EmptyTaskEnds'
      BY <1>1, <1>2, <1>6, <2>2, <3>1, TailTasks
    <3> QED BY <1>1, <3>1, <3>2, <3>3, GoesOn
  <2>5. CASE t.end
    <3>1. writer' = Finish(w) /\ outcome' = IF Premature(w) THEN "error" ELSE "done"
      BY <1>3, <2>3, <2>5 DEF Ends
    <3>2. outcome' \in {"done", "error", "panic"} /\ (~Premature(w) => outcome' = "done")
      BY <3>1
    <3>3. w.is # "length" => ~Premature(w)
      BY DEF Premature
    <3>4. writer'.is # "length"
      <4>1. <<>> \in Seq(Nat)
        OBVIOUS
      <4> QED BY <2>1, <3>1, <4>1, WriteMeant
    <3>5. Good => (hollow => framing = "chunked")
      BY <1>5
    <3>6. Good /\ direction = "request" /\ framing = "chunked" =>
            writer'.is # "length" /\ outcome' # "error"
      BY <1>5, <2>1, <3>2, <3>3, <3>4
    <3>7. ASSUME Regular
          PROVE  /\ PartOfBody(writer'.got) /\ ~writer'.stray /\ WholeBody(writer'.got)
                 /\ outcome' = "done"
      <4>1. read_state.is = "completed" /\ Len(tasks) = 1
        BY <1>2, <1>5, <1>6, <2>5, <3>7 DEF TasksInv
      <4>2. Wrote(w, <<>>)
        BY <1>2, <2>2, <3>7, <4>1, WaitingNone
      <4> QED BY <1>1, <1>5, <1>6, <3>1, <3>2, <3>7, <4>1, <4>2, EndsWhole
    <3>8. outcome' = "done" => outcome' # "error"
      OBVIOUS
    <3> QED BY <1>1, <3>2, <3>5, <3>6, <3>7, <3>8, IsThrough
  <2> QED BY <1>3, <2>4, <2>5
<1> QED BY <1>4, <1>7, <1>8

LEMMA ResponseRelays ==
  ASSUME RelayTypes, RelayInv, WriteResponse, ReadInv'
  PROVE  RelayInv'
<1>1. /\ outcome = "running" /\ direction = "response" /\ tasks # <<>> /\ tasks' = <<>>
      /\ UNCHANGED reader_vars /\ UNCHANGED <<head, hollow>> /\ (Good' => Good)
      /\ ReaderType /\ writer \in WriterType /\ tasks \in Seq(TaskType)
  BY HeadStays DEF WriteResponse, RelayTypes, RelayType, Write, Next
<1>2. PICK t \in TaskType, l \in Nat : t = tasks[l] /\ l = Len(tasks) /\ l \in 1..Len(tasks)
  <2>1. tasks[Len(tasks)] \in TaskType /\ Len(tasks) \in Nat /\ Len(tasks) \in 1..Len(tasks)
    BY <1>1
  <2> QED BY <2>1
<1>3. PICK all \in Seq(Nat) : all = Waiting(tasks)
  BY <1>1, SlicesIs
<1> DEFINE w == IF all = <<>> THEN writer ELSE WriteBody(writer, all)
<1>4. \/ t.is = "failed" /\ writer' = w /\ outcome' = "error"
      \/ t.is = "body" /\ Ends(w, t.end)
  BY <1>2, <1>3 DEF WriteResponse, Failed, Waiting, Slices
<1>5. ASSUME Good PROVE ReaderInv /\ TasksInv /\ (hollow => framing = "chunked")
  BY <1>1, <1>5 DEF RelayInv, GoodInv
<1>6. w \in WriterType /\ t.end \in BOOLEAN
  BY <1>1, <1>3, <1>2, WriteBodyType DEF TaskType
<1>7. all \o <<>> = all /\ <<>> \in Seq(Nat)
  OBVIOUS
<1>8. ASSUME Regular PROVE Good /\ Wrote(w, <<>>)
  <2>1. Good /\ WriterInv /\ HeadInv
    BY <1>1, <1>8 DEF Regular, RelayInv
  <2>2. Wrote(writer, all)
    BY <1>1, <1>3, <2>1 DEF WriterInv, Wrote, HeadInv
  <2>3. CASE all = <<>>
    BY <2>1, <2>2, <2>3
  <2>4. CASE all # <<>>
    <3>1. Wrote(writer, all \o <<>>)
      BY <1>7, <2>2
    <3>2. Wrote(WriteBody(writer, all), <<>>)
      BY <1>1, <1>3, <1>5, <1>7, <2>1, <2>4, <3>1, WritesMore
    <3> QED BY <2>1, <2>4, <3>2
  <2> QED BY <2>3, <2>4
<1> HIDE DEF w
<1>9. CASE t.is = "failed" /\ writer' = w /\ outcome' = "error"
  <2>1. ASSUME Regular
        PROVE  /\ PartOfBody(writer'.got) /\ ~writer'.stray
               /\ writer'.ended => WholeBody(writer'.got)
               /\ ~Whole \/ LongHeads
    <3>1. PartOfBody(w.got) /\ ~w.stray /\ (w.ended => WholeBody(w.got))
      BY <1>1, <1>5, <1>8, <2>1, WroteIs
    <3>2. read_state.is = "done" /\ ReaderInv
      BY <1>2, <1>5, <1>8, <1>9, <2>1 DEF TasksInv
    <3> QED BY <1>9, <3>1, <3>2 DEF ReaderInv
  <2> QED BY <1>1, <1>5, <1>9, <2>1, IsThrough
<1>10. CASE t.is = "body" /\ Ends(w, t.end) /\ ~t.end
  <2>1. writer' = w /\ outcome' = "running"
    BY <1>10 DEF Ends
  <2>2. Len(tasks') = 0
    BY <1>1
  <2>3. TasksInv' /\ EmptyTaskEnds'
    BY <2>2 DEF TasksInv, EmptyTaskEnds
  <2>4. Waiting(tasks') = <<>>
    BY <1>1, WaitingNone
  <2>5. Regular => Wrote(writer', Waiting(tasks')) /\ EmptyTaskEnds'
    BY <1>8, <2>1, <2>3, <2>4
  <2> QED BY <1>1, <1>5, <2>1, <2>3, <2>5, GoesOn
<1>11. CASE t.is = "body" /\ Ends(w, t.end) /\ t.end
  <2>1. writer' = Finish(w) /\ outcome' = IF Premature(w) THEN "error" ELSE "done"
    BY <1>6, <1>11 DEF Ends
  <2>2. outcome' \in {"done", "error", "panic"} /\ (~Premature(w) => outcome' = "done")
    BY <2>1
  <2>3. ASSUME Regular
        PROVE  /\ PartOfBody(writer'.got) /\ ~writer'.stray /\ WholeBody(writer'.got)
               /\ outcome' = "done"
    <3>1. read_state.is = "completed"
      BY <1>2, <1>5, <1>8, <1>11, <2>3 DEF TasksInv
    <3> QED BY <1>1, <1>5, <1>8, <2>1, <2>2, <2>3, <3>1, EndsWhole
  <2>4. direction # "request" /\ (Good => (hollow => framing = "chunked"))
    BY <1>1, <1>5
  <2>5. outcome' = "done" => outcome' # "error"
    OBVIOUS
  <2> QED BY <1>1, <2>2, <2>3, <2>4, <2>5, IsThrough
<1> QED BY <1>4, <1>6, <1>9, <1>10, <1>11

LEMMA RelayKept ==
  ASSUME RelayTypes, ReadInv, RelayInv, [Next]_vars, ReadInv'
  PROVE  RelayInv'
<1>1. CASE Read
  BY <1>1, ReadRelays
<1>2. CASE Write
  BY <1>2, RequestRelays, ResponseRelays DEF Write
<1>3. CASE Cancel
  BY <1>3, HeadStays, RelayInvStays DEF Cancel, CancelPartialHead, Next
<1>4. CASE UNCHANGED vars
  BY <1>4, HeadStays, RelayInvStays DEF vars, reader_vars
<1> QED BY <1>1, <1>2, <1>3, <1>4 DEF Next

LEMMA RelaysKept == Spec => [](RelayTypes /\ ReadInv /\ RelayInv)
<1>1. Init => RelayTypes /\ ReadInv /\ RelayInv
  BY InitTypes, InitReads, InitRelay
<1>2. RelayTypes /\ ReadInv /\ RelayInv /\ [Next]_vars => (RelayTypes /\ ReadInv /\ RelayInv)'
  BY TypesKept, ReadInvKept, RelayKept
<1> QED BY <1>1, <1>2, PTL DEF Spec

(* What the duplex brings from the reader of one session to the writer of the
   other, task by task (downstream.rs, upstream.rs, session/writer.rs), is the
   body, and the other side takes it for finished only if it has all of it. *)
THEOREM RelayIsFaithful == Spec => []RelaysFaithfully
<1>1. RelayTypes /\ ReadInv /\ RelayInv => RelaysFaithfully
  <2> SUFFICES ASSUME RelayTypes, ReadInv, RelayInv, Regular
               PROVE  /\ PartOfBody(writer.got) /\ ~writer.stray
                      /\ writer.ended => WholeBody(writer.got)
    BY DEF RelaysFaithfully, Regular, Good
  <2>1. CASE outcome = "running"
    <3>1. ReaderType /\ ReaderInv
      BY DEF RelayTypes, ReadInv, Regular
    <3>2. Waiting(tasks) \in Seq(Nat)
      BY SlicesIs DEF RelayTypes, RelayType
    <3>3. Wrote(writer, Waiting(tasks))
      BY <2>1, <3>2 DEF RelayInv, WriterInv, HeadInv, RelayTypes, RelayType, Wrote
    <3> QED BY <3>1, <3>3, WroteIs
  <2>2. CASE outcome # "running"
    BY <2>2 DEF RelayInv, Settled
  <2> QED BY <2>1, <2>2
<1> QED BY <1>1, RelaysKept, PTL

(* A write side that ends without an error has written the whole body; finish
   (session/writer.rs) never finds it premature, and an error means that the body
   was cut short, but for the framings the sessions do not agree about. *)
THEOREM DoneMeansWhole == Spec => []DoneIsWhole
<1>1. RelayTypes /\ ReadInv /\ RelayInv => DoneIsWhole
  <2> SUFFICES ASSUME RelayTypes, ReadInv, RelayInv, Good
               PROVE  /\ outcome = "done" => WholeBody(writer.got) \/ HollowRequest \/ Unframed
                      /\ outcome = "error" => \/ ~Whole \/ LongHeads
                                              \/ Unframed /\ direction = "response"
    BY DEF DoneIsWhole, Good
  <2>1. CASE Regular
    BY <2>1 DEF RelayInv, Settled
  <2>2. CASE ~Regular
    <3>1. Unframed \/ HollowRequest
      BY <2>2 DEF Regular
    <3>2. CASE direction = "response"
      BY <3>1, <3>2 DEF HollowRequest
    <3>3. CASE direction = "request"
      <4>1. head.request \in RequestHeads
        BY HeadType DEF RelayTypes, RelayType
      <4>2. framing = "chunked"
        <5>1. CASE HollowRequest
          BY <5>1 DEF HollowRequest, RelayInv, GoodInv
        <5>2. CASE Unframed
          <6>1. head.request.coding = "chunked"
            BY <3>3, <5>2 DEF Unframed, WrittenRaw
          <6>2. RequestMeant(head.request) = ChunkedEncoding
            BY <6>1 DEF RequestMeant, Framed, Declared
          <6> QED BY <3>3, <6>2, FramingIs DEF RelayTypes, ReadInv, HeadInv
        <5> QED BY <3>1, <5>1, <5>2
      <4> QED BY <3>1, <3>3, <4>2 DEF RelayInv, GoodInv
    <3> QED BY <3>2, <3>3, HeadType DEF RelayTypes, RelayType
  <2> QED BY <2>1, <2>2
<1> QED BY <1>1, RelaysKept, PTL
=============================================================================
