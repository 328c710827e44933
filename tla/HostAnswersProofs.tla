-------------------------- MODULE HostAnswersProofs --------------------------
(***************************************************************************)
(* What the datasource client makes of the host's answers, in two parts.   *)
(*                                                                         *)
(* ConnectResponse, for any bodies and every way the source may cut them   *)
(* up: what has been delivered and what is buffered are, at every moment,  *)
(* what was read of the body without its byte order mark; the end comes    *)
(* only after all of it.                                                   *)
(*                                                                         *)
(* SourceDeclarations, for any number of administrators, operations and    *)
(* calls: every set the host has or may get is an edit of one it had, and  *)
(* each declaration reaches it at most once.                               *)
(***************************************************************************)
EXTENDS ConnectResponse, SourceDeclarations, SequenceTheorems, TLAPS

-----------------------------------------------------------------------------
(* ConnectResponse. *)

\* What the request is and what was answered do not change.
Fixed == request \in [grpc : BOOLEAN, effect : BOOLEAN] /\ response \in Responses

\* Nothing is read before the first Read; a body that did not open stays failed.
Opened ==
  /\ ~initialized =>
       /\ buffer = <<>> /\ pending = "none" /\ at = 0
       /\ delivered = <<>> /\ end = "none" /\ err = "none"
  /\ initialized /\ response.zip => err = "none"
  /\ initialized /\ ~response.zip => err = "gzip" /\ end = "fail"

\* A body that opened is delivered as far as it was read.
Kept ==
  initialized /\ response.zip =>
    /\ at >= Least(3, Len(Content))
    /\ delivered \o buffer = Strip(Upto(at))
    /\ pending # "none" => at = Len(Content) /\ pending = response.ending
    /\ end # "none" => at = Len(Content) /\ buffer = <<>> /\ end = response.ending

\* What has been concluded, and from what.
Concluded ==
  /\ pc \in {"do", "reading"} => outcome = "none"
  /\ pc = "do" => ~initialized
  /\ pc = "reading" => ~request.grpc /\ ~Refused(response) /\ Normalized(response)
  /\ pc = "done" /\ ~request.grpc =>
       \/ /\ Refused(response)
          /\ outcome = MapHostError(FALSE, "UnsupportedEncoding", request.effect)
       \/ /\ ~Refused(response) /\ Normalized(response) /\ end # "none"
          /\ outcome = MapHostError(Decoded, DecodedCode, request.effect)
       \/ /\ ~Refused(response) /\ ~Normalized(response)
          /\ outcome = Unaided(response)
  /\ pc = "unanswered" => outcome = MapHostError(FALSE, "Unavailable", request.effect)
  /\ pc = "abandoned" => outcome = MapHostError(FALSE, "DeadlineExceeded", request.effect)

\* The inductive invariant.
IInv == Fixed /\ TypeOK /\ Opened /\ Kept /\ ClosedOnce /\ Concluded

-----------------------------------------------------------------------------
(* Bodies and their parts. *)

LEMMA ContentTyped ==
  ASSUME Fixed
  PROVE  Content \in Seq(Bytes) /\ Len(Content) \in Nat
<1>1. Content \in Contents BY DEF Fixed, Responses, Content
<1>2. Content \in Seq(Bytes) BY <1>1, ContentsAssumption
<1> QED BY <1>2, LenProperties

\* A part of a body is a body.
LEMMA Part ==
  ASSUME NEW s \in Seq(Bytes), NEW m \in Nat, m >= 1, NEW n \in Nat, n <= Len(s)
  PROVE  /\ SubSeq(s, m, n) \in Seq(Bytes)
         /\ Len(SubSeq(s, m, n)) = IF m <= n THEN n - m + 1 ELSE 0
<1>1. \A i \in m..n : s[i] \in Bytes BY ElementOfSeq, LenProperties
<1> QED BY <1>1, SubSeqProperties

\* What is cut in two and delivered in turn is delivered.
LEMMA InTurn ==
  ASSUME NEW d \in Seq(Bytes), NEW s \in Seq(Bytes), NEW t \in Seq(Bytes)
  PROVE  /\ d \o s \in Seq(Bytes)
         /\ (d \o s) \o t = d \o (s \o t)
BY ConcatAssociative, ConcatProperties

LEMMA StripTyped == ASSUME NEW s \in Seq(Bytes) PROVE Strip(s) \in Seq(Bytes)
<1>1. Len(s) \in Nat BY LenProperties
<1>2. SubSeq(s, 4, Len(s)) \in Seq(Bytes) BY <1>1, Part
<1> QED BY <1>2 DEF Strip

\* What follows a mark, in a part of a body.
LEMMA AfterMark ==
  ASSUME NEW s \in Seq(Bytes), NEW k \in Nat, 3 <= k, k <= Len(s)
  PROVE  /\ SubSeq(SubSeq(s, 1, k), 1, 3) = SubSeq(s, 1, 3)
         /\ SubSeq(SubSeq(s, 1, k), 4, k) = SubSeq(s, 4, k)
<1>1. Len(s) \in Nat BY LenProperties
<1>2. SubSeq(SubSeq(s, 1, k), 1, 3) = SubSeq(s, 1 + 1 - 1, 1 + 3 - 1)
  BY <1>1, SubSeqOfSubSeq
<1>3. CASE k = 3
  BY <1>1, <1>2, <1>3, SubSeqEmpty
<1>4. CASE k >= 4
  <2>1. SubSeq(SubSeq(s, 1, k), 4, k) = SubSeq(s, 1 + 4 - 1, 1 + k - 1)
    BY <1>1, <1>4, SubSeqOfSubSeq
  <2> QED BY <1>2, <2>1
<1> QED BY <1>3, <1>4

\* Once the mark has been looked for, what is read further is what is added.
LEMMA StripGrows ==
  ASSUME NEW s \in Seq(Bytes), NEW k \in Nat, NEW m \in Nat,
         k <= m, m <= Len(s), k >= Least(3, Len(s))
  PROVE  Strip(SubSeq(s, 1, m)) = Strip(SubSeq(s, 1, k)) \o SubSeq(s, k + 1, m)
<1>1. Len(s) \in Nat BY LenProperties
<1>2. CASE Len(s) < 3
  <2>1. k = m BY <1>1, <1>2 DEF Least
  <2>2. SubSeq(s, k + 1, m) = <<>>
    <3>1. k + 1 \in Int /\ m \in Int /\ m < k + 1 BY <2>1
    <3> QED BY <3>1, SubSeqEmpty
  <2>3. Strip(SubSeq(s, 1, k)) \in Seq(Bytes)
    <3>1. k <= Len(s) BY <1>1
    <3>2. SubSeq(s, 1, k) \in Seq(Bytes) BY <3>1, Part
    <3> QED BY <3>2, StripTyped, Zenon
  <2> QED BY <2>1, <2>2, <2>3, ConcatEmptySeq
<1>3. CASE Len(s) >= 3
  <2>1. 3 <= k /\ 3 <= m BY <1>1, <1>3 DEF Least
  <2>2. Len(SubSeq(s, 1, k)) = k /\ Len(SubSeq(s, 1, m)) = m BY <2>1, Part
  <2>3. Least(3, k) = 3 /\ Least(3, m) = 3 BY <2>1 DEF Least
  <2>4. /\ SubSeq(SubSeq(s, 1, k), 1, 3) = SubSeq(s, 1, 3)
        /\ SubSeq(SubSeq(s, 1, k), 4, k) = SubSeq(s, 4, k)
        /\ SubSeq(SubSeq(s, 1, m), 1, 3) = SubSeq(s, 1, 3)
        /\ SubSeq(SubSeq(s, 1, m), 4, m) = SubSeq(s, 4, m)
    BY <2>1, AfterMark
  <2>5. CASE SubSeq(s, 1, 3) = Mark
    <3>1. /\ Strip(SubSeq(s, 1, k)) = SubSeq(s, 4, k)
          /\ Strip(SubSeq(s, 1, m)) = SubSeq(s, 4, m)
      BY <2>2, <2>3, <2>4, <2>5 DEF Strip
    <3>2. 4 \in 1..(Len(s) + 1) /\ k \in (4 - 1)..Len(s) /\ m \in k..Len(s)
      BY <1>1, <1>3, <2>1
    <3>3. SubSeq(s, 4, k) \o SubSeq(s, k + 1, m) = SubSeq(s, 4, m)
      BY <3>2, ConcatAdjacentSubSeq
    <3> QED BY <3>1, <3>3
  <2>6. CASE SubSeq(s, 1, 3) # Mark
    <3>1. /\ Strip(SubSeq(s, 1, k)) = SubSeq(s, 1, k)
          /\ Strip(SubSeq(s, 1, m)) = SubSeq(s, 1, m)
      BY <2>2, <2>3, <2>4, <2>6 DEF Strip
    <3>2. 1 \in 1..(Len(s) + 1) /\ k \in (1 - 1)..Len(s) /\ m \in k..Len(s)
      BY <1>1, <1>3, <2>1
    <3>3. SubSeq(s, 1, k) \o SubSeq(s, k + 1, m) = SubSeq(s, 1, m)
      BY <3>2, ConcatAdjacentSubSeq
    <3> QED BY <3>1, <3>3
  <2> QED BY <2>5, <2>6
<1>4. Len(s) < 3 \/ Len(s) >= 3 BY <1>1
<1> QED BY <1>2, <1>3, <1>4, Zenon

-----------------------------------------------------------------------------
(* Reads. *)

\* What is buffered and pending, and what has become of it, when k bytes of the
\* source were used.
Held(b, p, k, d, e) ==
  /\ b \in Seq(Bytes) /\ p \in Ends /\ k \in 0..Len(Content)
  /\ d \in Seq(Bytes) /\ e \in Ends
  /\ k >= Least(3, Len(Content))
  /\ d \o b = Strip(Upto(k))
  /\ p # "none" => k = Len(Content) /\ p = response.ending
  /\ e # "none" => k = Len(Content) /\ b = <<>> /\ e = response.ending

\* A read from the buffer or from the source keeps it so, however many bytes it
\* yields.
LEMMA ServeHolds ==
  ASSUME Fixed, NEW b, NEW p, NEW k, Held(b, p, k, delivered, end), Serve(b, p, k)
  PROVE  Held(buffer', pending', at', delivered', end')
<1> USE DEF Held
<1>1. /\ Content \in Seq(Bytes) /\ Len(Content) \in Nat
      /\ response.ending \in {"eof", "fail"}
  BY ContentTyped DEF Fixed, Responses
<1>2. b \in Seq(Bytes) /\ Len(b) \in Nat /\ delivered \in Seq(Bytes)
  BY LenProperties
<1>3. ASSUME b # <<>>, NEW n \in 1..Len(b),
             delivered' = delivered \o SubSeq(b, 1, n), buffer' = SubSeq(b, n + 1, Len(b)),
             pending' = p, at' = k, end' = end
      PROVE  Held(buffer', pending', at', delivered', end')
  <2>1. SubSeq(b, 1, n) \in Seq(Bytes) /\ SubSeq(b, n + 1, Len(b)) \in Seq(Bytes)
    BY <1>2, Part
  <2>2. SubSeq(b, 1, n) \o SubSeq(b, n + 1, Len(b)) = b
    <3>1. 1 \in 1..(Len(b) + 1) /\ n \in (1 - 1)..Len(b) /\ Len(b) \in n..Len(b)
      BY <1>2
    <3>2. SubSeq(b, 1, n) \o SubSeq(b, n + 1, Len(b)) = SubSeq(b, 1, Len(b))
      BY <1>2, <3>1, ConcatAdjacentSubSeq
    <3> QED BY <1>2, <3>2, SubSeqFull
  <2>3. delivered' \o buffer' = delivered \o b
    <3>1. (delivered \o SubSeq(b, 1, n)) \o SubSeq(b, n + 1, Len(b))
            = delivered \o (SubSeq(b, 1, n) \o SubSeq(b, n + 1, Len(b)))
      BY <1>2, <2>1, InTurn, Zenon
    <3> QED BY <1>3, <2>2, <3>1, Zenon
  <2>4. delivered' \in Seq(Bytes) /\ buffer' \in Seq(Bytes)
    BY <1>2, <1>3, <2>1, ConcatProperties
  <2> QED BY <1>3, <2>3, <2>4
<1>4. ASSUME b = <<>>, p # "none",
             end' = p, pending' = "none", buffer' = b, at' = k, delivered' = delivered
      PROVE  Held(buffer', pending', at', delivered', end')
  BY <1>4 DEF Ends
<1>5. ASSUME b = <<>>, p = "none", k = Len(Content),
             end' = response.ending, pending' = p, buffer' = b, at' = k,
             delivered' = delivered
      PROVE  Held(buffer', pending', at', delivered', end')
  BY <1>1, <1>5 DEF Ends
<1>6. ASSUME b = <<>>, p = "none",
             NEW m \in (k + 1)..Len(Content), NEW n \in 1..(Len(Content) - k),
             NEW ended \in {"later", "buffered", "now"},
             k + n <= m, ended # "later" => m = Len(Content), ended = "now" => k + n = m,
             delivered' = delivered \o SubSeq(Content, k + 1, k + n),
             buffer' = SubSeq(Content, k + n + 1, m),
             pending' = IF ended = "buffered" THEN response.ending ELSE "none",
             end' = IF ended = "now" THEN response.ending ELSE end,
             at' = m
      PROVE  Held(buffer', pending', at', delivered', end')
  <2>1. k \in Nat /\ m \in Nat /\ n \in Nat /\ k < m /\ m <= Len(Content)
    BY <1>1
  <2>2. /\ SubSeq(Content, k + 1, k + n) \in Seq(Bytes)
        /\ SubSeq(Content, k + n + 1, m) \in Seq(Bytes)
    <3>1. /\ k + 1 \in Nat /\ k + 1 >= 1 /\ k + n \in Nat /\ k + n <= Len(Content)
          /\ k + n + 1 \in Nat /\ k + n + 1 >= 1
      BY <1>1, <1>6, <2>1
    <3> QED BY <1>1, <2>1, <3>1, Part
  <2>3. SubSeq(Content, k + 1, k + n) \o SubSeq(Content, k + n + 1, m)
          = SubSeq(Content, k + 1, m)
    <3>1. /\ k + 1 \in 1..(Len(Content) + 1) /\ k + n \in (k + 1 - 1)..Len(Content)
          /\ m \in (k + n)..Len(Content)
      BY <1>1, <1>6, <2>1
    <3> QED BY <1>1, <3>1, ConcatAdjacentSubSeq
  <2>4. delivered = Strip(Upto(k)) BY <1>2, <1>6, ConcatEmptySeq
  <2>5. delivered' \o buffer' = delivered \o SubSeq(Content, k + 1, m)
    <3>1. (delivered \o SubSeq(Content, k + 1, k + n)) \o SubSeq(Content, k + n + 1, m)
            = delivered \o (SubSeq(Content, k + 1, k + n) \o SubSeq(Content, k + n + 1, m))
      BY <1>2, <2>2, InTurn, Zenon
    <3> QED BY <1>6, <2>3, <3>1, Zenon
  <2>6. Strip(Upto(m)) = Strip(Upto(k)) \o SubSeq(Content, k + 1, m)
    <3>1. k <= m /\ k >= Least(3, Len(Content)) BY <2>1
    <3> QED BY <1>1, <2>1, <3>1, StripGrows, Zenon DEF Upto
  <2>7. m >= Least(3, Len(Content)) BY <1>1, <2>1 DEF Least
  <2>8. delivered' \in Seq(Bytes) /\ buffer' \in Seq(Bytes)
    BY <1>2, <1>6, <2>2, ConcatProperties
  <2>9. end = "none" BY <1>1, <2>1
  <2>10. ended = "now" => buffer' = <<>>
    <3> SUFFICES ASSUME ended = "now" PROVE buffer' = <<>> OBVIOUS
    <3>1. k + n + 1 \in Int /\ m \in Int /\ m < k + n + 1 BY <1>6, <2>1
    <3> QED BY <1>6, <3>1, SubSeqEmpty
  <2>11. at' \in 0..Len(Content) BY <1>1, <1>6, <2>1
  <2>12. pending' \in Ends /\ end' \in Ends BY <1>1, <1>6 DEF Ends
  <2> QED BY <1>1, <1>6, <2>4, <2>5, <2>6, <2>7, <2>8, <2>9, <2>10, <2>11, <2>12
<1> QED BY <1>3, <1>4, <1>5, <1>6 DEF Serve

\* The first Read, whatever the peek for a mark needed to read.
LEMMA OpenHolds ==
  ASSUME Fixed, TypeOK, Opened, Open, response.zip
  PROVE  Held(buffer', pending', at', delivered', end') /\ err' = "none"
<1>1. Content \in Seq(Bytes) /\ Len(Content) \in Nat BY ContentTyped
<1>2. response.ending \in {"eof", "fail"} BY DEF Fixed, Responses
<1>3. PICK k \in Least(3, Len(Content))..Len(Content), ended \in BOOLEAN :
        /\ ended => k = Len(Content)
        /\ Serve(Strip(Upto(k)), Peeked(k, ended), k)
  BY DEF Open
<1>4. k \in Nat /\ k <= Len(Content) /\ k >= Least(3, Len(Content))
  BY <1>1 DEF Least
<1>5. Strip(Upto(k)) \in Seq(Bytes)
  <2>1. SubSeq(Content, 1, k) \in Seq(Bytes) BY <1>1, <1>4, Part
  <2> QED BY <2>1, StripTyped, Zenon DEF Upto
<1>6. /\ Peeked(k, ended) \in Ends
      /\ Peeked(k, ended) # "none" => k = Len(Content) /\ Peeked(k, ended) = response.ending
  BY <1>2, <1>3 DEF Peeked, Ends
<1>7. delivered = <<>> /\ end = "none" /\ err = "none" /\ ~initialized
  BY DEF Open, Opened
<1>8. delivered \o Strip(Upto(k)) = Strip(Upto(k))
  BY <1>5, <1>7, ConcatEmptySeq, Zenon
<1>9. Held(Strip(Upto(k)), Peeked(k, ended), k, delivered, end)
  BY <1>1, <1>4, <1>5, <1>6, <1>7, <1>8 DEF TypeOK, Held
<1>10. Held(buffer', pending', at', delivered', end')
  BY <1>3, <1>9, ServeHolds, Zenon
<1> QED BY <1>7, <1>10 DEF Open

\* A Read keeps what is known of the body.
LEMMA ReadKeeps ==
  ASSUME Fixed, TypeOK, Opened, Kept, Read
  PROVE  /\ initialized' = TRUE /\ err' \in {"none", "gzip"}
         /\ buffer' \in Seq(Bytes) /\ pending' \in Ends /\ at' \in 0..Len(Content)
         /\ delivered' \in Seq(Bytes) /\ end' \in Ends
         /\ Opened' /\ Kept'
<1>1. UNCHANGED response /\ Content' = Content BY DEF Read, Content
<1>2. CASE response.zip
  <2>1. CASE Open
    <3>1. Held(buffer', pending', at', delivered', end') /\ err' = "none"
      BY <1>2, <2>1, OpenHolds, Zenon
    <3>2. initialized' = TRUE BY <2>1 DEF Open
    <3> QED BY <1>1, <1>2, <3>1, <3>2 DEF Opened, Kept, Held, Upto
  <2>2. CASE Reread
    <3>1. initialized /\ err = "none" BY <1>2, <2>2 DEF Reread, Opened
    <3>2. Held(buffer, pending, at, delivered, end)
      <4>1. /\ at >= Least(3, Len(Content))
            /\ delivered \o buffer = Strip(Upto(at))
            /\ pending # "none" => at = Len(Content) /\ pending = response.ending
            /\ end # "none" => at = Len(Content) /\ buffer = <<>> /\ end = response.ending
        BY <1>2, <3>1, Zenon DEF Kept
      <4>2. at \in 0..Len(Content) BY Zenon DEF TypeOK, Content
      <4> QED BY <4>1, <4>2, Zenon DEF TypeOK, Held
    <3>3. Serve(buffer, pending, at) /\ initialized' = initialized /\ err' = err
      BY <2>2, <3>1 DEF Reread
    <3>4. Held(buffer', pending', at', delivered', end')
      BY <3>2, <3>3, ServeHolds, Zenon
    <3> QED BY <1>1, <1>2, <3>1, <3>3, <3>4 DEF Opened, Kept, Held, Upto
  <2> QED BY <2>1, <2>2 DEF Read
<1>3. CASE ~response.zip
  <2>1. /\ UNCHANGED <<buffer, pending, at, delivered>> /\ initialized'
        /\ err' = "gzip" /\ end' = "fail" /\ initialized' = TRUE
    BY <1>3 DEF Read, Open, Reread, Opened, TypeOK
  <2>2. at' \in 0..Len(Content) BY <2>1 DEF TypeOK, Content
  <2>3. Opened' /\ Kept' BY <1>1, <1>3, <2>1 DEF Opened, Kept
  <2> QED BY <2>1, <2>2, <2>3 DEF TypeOK, Ends
<1> QED BY <1>2, <1>3

-----------------------------------------------------------------------------
(* Outcomes. *)

Outcomes == Definite \cup {"none", "ok", "error", "DatasourceError", "OutcomeUnknown"}

\* What mapHostError makes of the errors a response can come to.
LEMMA Mapped ==
  ASSUME NEW wire \in BOOLEAN, NEW effect \in BOOLEAN,
         NEW code \in {"PermissionDenied", "Precondition", "Unavailable",
                       "DeadlineExceeded", "UnsupportedEncoding"}
  PROVE  MapHostError(wire, code, effect) \in Outcomes
BY DEF MapHostError, Meaning, Unsettled, Definite, Outcomes

LEMMA UnaidedTyped == ASSUME Fixed PROVE Unaided(response) \in Outcomes
<1>1. /\ response.ok \in BOOLEAN /\ request.grpc \in BOOLEAN /\ request.effect \in BOOLEAN
      /\ response.code \in {"PermissionDenied", "Precondition"}
      /\ response.inferred \in {"PermissionDenied", "Unavailable"}
      /\ (response.ending = "eof") \in BOOLEAN
  BY DEF Fixed, Responses
<1>2. CASE response.ok
  <2>1. Unaided(response) \in {"ok", MapHostError(FALSE, response.inferred, request.effect)}
    BY <1>2 DEF Unaided
  <2>2. MapHostError(FALSE, response.inferred, request.effect) \in Outcomes BY <1>1, Mapped
  <2> QED BY <2>1, <2>2 DEF Outcomes
<1>3. CASE request.grpc /\ ~response.ok
  <2> DEFINE code == IF response.ending = "eof" THEN response.code ELSE response.inferred
  <2>1. Unaided(response) = MapHostError(response.ending = "eof", code, request.effect)
    BY <1>3 DEF Unaided
  <2>2. code \in {"PermissionDenied", "Precondition", "Unavailable", "DeadlineExceeded",
                  "UnsupportedEncoding"}
    BY <1>1
  <2>3. MapHostError(response.ending = "eof", code, request.effect) \in Outcomes
    <3> HIDE DEF code
    <3> QED BY <1>1, <2>2, Mapped
  <2> QED BY <2>1, <2>3
<1>4. CASE ~request.grpc /\ ~response.ok
  <2>1. Unaided(response) = MapHostError(FALSE, response.inferred, request.effect)
    BY <1>4 DEF Unaided
  <2>2. MapHostError(FALSE, response.inferred, request.effect) \in Outcomes BY <1>1, Mapped
  <2> QED BY <2>1, <2>2
<1> QED BY <1>1, <1>2, <1>3, <1>4

LEMMA DecodedTyped ==
  ASSUME Fixed PROVE MapHostError(Decoded, DecodedCode, request.effect) \in Outcomes
<1>1. /\ request.effect \in BOOLEAN /\ Decoded \in BOOLEAN
      /\ DecodedCode \in {"PermissionDenied", "Precondition", "Unavailable",
                          "DeadlineExceeded", "UnsupportedEncoding"}
  BY DEF Fixed, Responses, Decoded, DecodedCode
<1> QED BY <1>1, Mapped

-----------------------------------------------------------------------------
(* The invariant. *)

LEMMA InitInv == Init => IInv
<1> SUFFICES ASSUME Init PROVE IInv
  OBVIOUS
<1>1. Fixed BY DEF Init, Fixed
<1>2. Len(Content) \in Nat BY <1>1, ContentTyped
<1>3. <<>> \in Seq(Bytes) BY EmptySeq
<1>4. TypeOK
  <2>1. at \in 0..Len(response.content) BY <1>2 DEF Init, Content
  <2>2. /\ buffer \in Seq(Bytes) /\ delivered \in Seq(Bytes)
        /\ pending \in Ends /\ end \in Ends
    BY <1>3, Zenon DEF Init, Ends
  <2>3. /\ pc \in {"do", "reading", "done", "abandoned", "unanswered"}
        /\ initialized \in BOOLEAN /\ err \in {"none", "gzip"} /\ closes \in Nat
        /\ outcome \in Outcomes
    BY DEF Init, Outcomes
  <2> QED BY <2>1, <2>2, <2>3, Zenon DEF TypeOK, Outcomes
<1>5. Opened BY DEF Init, Opened
<1>6. Kept /\ ClosedOnce /\ Concluded BY DEF Init, Kept, ClosedOnce, Concluded
<1> QED BY <1>1, <1>4, <1>5, <1>6 DEF IInv

\* What is settled by one step of Do, Close, Abandon or NoResponse.
LEMMA FinishTyped ==
  ASSUME TypeOK, UNCHANGED <<response, body>>,
         pc' \in {"done", "abandoned", "unanswered"}, outcome' \in Outcomes, closes' \in Nat
  PROVE  TypeOK'
<1>1. /\ initialized' = initialized /\ err' = err /\ buffer' = buffer
      /\ pending' = pending /\ at' = at /\ delivered' = delivered /\ end' = end
      /\ response'.content = response.content
  BY Zenon DEF body
<1>2. pc' \in {"do", "reading", "done", "abandoned", "unanswered"} OBVIOUS
<1> QED BY <1>1, <1>2, Zenon DEF TypeOK, Outcomes

LEMMA NextInv == IInv /\ [Next]_vars => IInv'
<1> SUFFICES ASSUME IInv, [Next]_vars PROVE IInv'
  OBVIOUS
<1> USE DEF IInv
<1>1. UNCHANGED <<request, response>> /\ Fixed'
  BY DEF Next, NoResponse, Do, Read, Close, Abandon, Fixed, vars
<1>2. request.effect \in BOOLEAN BY DEF Fixed
<1>3. ASSUME UNCHANGED body PROVE Opened' /\ Kept'
  <2>1. /\ initialized' = initialized /\ err' = err /\ buffer' = buffer
        /\ pending' = pending /\ at' = at /\ delivered' = delivered /\ end' = end
    BY <1>3, Zenon DEF body
  <2>2. Opened' BY <1>1, <2>1 DEF Opened
  <2>3. Content' = Content BY <1>1 DEF Content
  <2>4. Upto(at)' = Upto(at) BY <2>1, <2>3 DEF Upto
  <2>5. Kept' BY <1>1, <2>1, <2>3, <2>4, Zenon DEF Kept
  <2> QED BY <2>2, <2>5
<1>4. CASE NoResponse
  <2>1. MapHostError(FALSE, "Unavailable", request.effect) \in Outcomes BY <1>2, Mapped
  <2>2. UNCHANGED body /\ UNCHANGED closes /\ pc = "do" /\ pc' = "unanswered"
        /\ outcome' = MapHostError(FALSE, "Unavailable", request.effect)
    BY <1>4 DEF NoResponse, Finish
  <2>3. TypeOK'
    <3>1. closes' \in Nat BY <2>2 DEF TypeOK
    <3>2. pc' \in {"done", "abandoned", "unanswered"} BY <2>2
    <3> QED BY <1>1, <2>1, <2>2, <3>1, <3>2, FinishTyped
  <2>4. ClosedOnce' /\ Concluded' BY <1>1, <2>2 DEF ClosedOnce, Concluded
  <2> QED BY <1>1, <1>3, <2>2, <2>3, <2>4
<1>5. CASE Abandon
  <2>1. MapHostError(FALSE, "DeadlineExceeded", request.effect) \in Outcomes BY <1>2, Mapped
  <2>2. UNCHANGED body /\ closes' = closes + 1 /\ pc = "reading" /\ pc' = "abandoned"
        /\ outcome' = MapHostError(FALSE, "DeadlineExceeded", request.effect)
    BY <1>5 DEF Abandon, Finish
  <2>3. TypeOK'
    <3>1. closes' \in Nat BY <2>2 DEF TypeOK
    <3>2. pc' \in {"done", "abandoned", "unanswered"} BY <2>2
    <3> QED BY <1>1, <2>1, <2>2, <3>1, <3>2, FinishTyped
  <2>4. ClosedOnce' /\ Concluded' BY <1>1, <2>2 DEF ClosedOnce, Concluded
  <2> QED BY <1>1, <1>3, <2>2, <2>3, <2>4
<1>6. CASE Close
  <2>1. MapHostError(Decoded, DecodedCode, request.effect) \in Outcomes BY DecodedTyped
  <2>2. UNCHANGED body /\ closes' = closes + 1 /\ pc = "reading" /\ pc' = "done"
        /\ end # "none" /\ outcome' = MapHostError(Decoded, DecodedCode, request.effect)
    BY <1>6 DEF Close, Finish
  <2>3. TypeOK'
    <3>1. closes' \in Nat BY <2>2 DEF TypeOK
    <3>2. pc' \in {"done", "abandoned", "unanswered"} BY <2>2
    <3> QED BY <1>1, <2>1, <2>2, <3>1, <3>2, FinishTyped
  <2>4. ClosedOnce' BY <2>2 DEF ClosedOnce
  <2>5. end' = end /\ Decoded' = Decoded /\ DecodedCode' = DecodedCode
    BY <1>1, <2>2 DEF body, Decoded, DecodedCode
  <2>6. Concluded'
    <3>1. ~request.grpc /\ ~Refused(response) /\ Normalized(response)
      BY <2>2 DEF Concluded
    <3> QED BY <1>1, <2>2, <2>5, <3>1 DEF Concluded
  <2> QED BY <1>1, <1>3, <2>2, <2>3, <2>4, <2>6
<1>7. CASE Read
  <2>1. /\ initialized' = TRUE /\ err' \in {"none", "gzip"}
        /\ buffer' \in Seq(Bytes) /\ pending' \in Ends /\ at' \in 0..Len(Content)
        /\ delivered' \in Seq(Bytes) /\ end' \in Ends
        /\ Opened' /\ Kept'
    BY <1>7, ReadKeeps, Zenon
  <2>2. pc = "reading" /\ pc' = pc /\ UNCHANGED <<closes, outcome>>
    BY <1>7 DEF Read, Reread
  <2>3. TypeOK'
    <3>1. at' \in 0..Len(response'.content) BY <1>1, <2>1 DEF Content
    <3> QED BY <2>1, <2>2, <3>1, Zenon DEF TypeOK
  <2>4. ClosedOnce' /\ Concluded' BY <1>1, <2>2 DEF ClosedOnce, Concluded
  <2> QED BY <1>1, <2>1, <2>3, <2>4
<1>8. CASE Do
  <2>0. UNCHANGED body /\ pc = "do" BY <1>8 DEF Do
  <2>1. CASE ~request.grpc /\ Refused(response)
    <3>1. MapHostError(FALSE, "UnsupportedEncoding", request.effect) \in Outcomes
      BY <1>2, Mapped
    <3>2. closes' = closes + 1 /\ pc' = "done"
          /\ outcome' = MapHostError(FALSE, "UnsupportedEncoding", request.effect)
      BY <1>8, <2>1 DEF Do, Refuse, Finish
    <3>3. TypeOK'
      <4>1. closes' \in Nat BY <3>2 DEF TypeOK
      <4>2. pc' \in {"done", "abandoned", "unanswered"} BY <3>2
      <4> QED BY <1>1, <2>0, <3>1, <3>2, <4>1, <4>2, FinishTyped
    <3>4. ClosedOnce' /\ Concluded' BY <1>1, <2>0, <2>1, <3>2 DEF ClosedOnce, Concluded
    <3> QED BY <1>1, <1>3, <2>0, <3>3, <3>4
  <2>2. CASE ~request.grpc /\ ~Refused(response) /\ Normalized(response)
    <3>1. pc' = "reading" /\ UNCHANGED <<closes, outcome>>
      BY <1>8, <2>2 DEF Do
    <3>2. TypeOK'
      <4>1. pc' \in {"do", "reading", "done", "abandoned", "unanswered"} BY <3>1
      <4> QED BY <1>1, <2>0, <3>1, <4>1, Zenon DEF TypeOK, body
    <3>3. ClosedOnce' /\ Concluded' BY <1>1, <2>0, <2>2, <3>1 DEF ClosedOnce, Concluded
    <3> QED BY <1>1, <1>3, <2>0, <3>2, <3>3
  <2>3. CASE request.grpc \/ (~Refused(response) /\ ~Normalized(response))
    <3>1. closes' = closes + 1 /\ pc' = "done" /\ outcome' = Unaided(response)
      BY <1>8, <2>3 DEF Do, PassOn, Finish
    <3>2. TypeOK'
      <4>1. closes' \in Nat BY <3>1 DEF TypeOK
      <4>2. pc' \in {"done", "abandoned", "unanswered"} BY <3>1
      <4>3. Unaided(response) \in Outcomes BY UnaidedTyped
      <4> QED BY <1>1, <2>0, <3>1, <4>1, <4>2, <4>3, FinishTyped
    <3>3. Unaided(response)' = Unaided(response) BY <1>1 DEF Unaided
    <3>4. Concluded'
      <4>1. ~request.grpc => ~Refused(response) /\ ~Normalized(response) BY <2>3
      <4>2. /\ request' = request /\ response' = response
            /\ pc' = "done" /\ outcome' = Unaided(response)'
        BY <1>1, <3>1, <3>3
      <4> QED BY <4>1, <4>2 DEF Concluded
    <3>5. ClosedOnce' BY <2>0, <3>1 DEF ClosedOnce
    <3> QED BY <1>1, <1>3, <2>0, <3>2, <3>4, <3>5
  <2> QED BY <2>1, <2>2, <2>3
<1>9. CASE UNCHANGED vars
  <2>1. UNCHANGED <<pc, body, closes, outcome>> BY <1>9 DEF vars
  <2>2. TypeOK' BY <1>1, <2>1 DEF TypeOK, body
  <2>3. /\ Decoded' = Decoded /\ DecodedCode' = DecodedCode
        /\ Unaided(response)' = Unaided(response)
        /\ end' = end /\ initialized' = initialized
    BY <1>1, <2>1 DEF body, Decoded, DecodedCode, Unaided
  <2>4. ClosedOnce' /\ Concluded' BY <1>1, <2>1, <2>3 DEF ClosedOnce, Concluded
  <2> QED BY <1>1, <1>3, <2>1, <2>2, <2>4
<1> QED BY <1>4, <1>5, <1>6, <1>7, <1>8, <1>9 DEF Next

-----------------------------------------------------------------------------
(* What follows from it. *)

LEMMA Always == Spec => []IInv
BY InitInv, NextInv, PTL DEF Spec

\* TypeOK: what is buffered and delivered are bytes, no more of the source is used
\* than it has, and an outcome is one that mapHostError has.
THEOREM TypeCorrect == Spec => []TypeOK
<1>1. IInv => TypeOK BY DEF IInv
<1> QED BY <1>1, Always, PTL

\* ClosedOnce: on every path of Do and of Connect the response's body is closed
\* exactly once.
THEOREM ClosedOnceHolds == Spec => []ClosedOnce
<1>1. IInv => ClosedOnce BY DEF IInv
<1> QED BY <1>1, Always, PTL

\* BodyAsSent: for every body and every way of reading it, Connect gets the bytes
\* after one byte order mark and the end that the source had.
THEOREM BodyAsSentHolds == Spec => []BodyAsSent
<1>1. IInv => BodyAsSent
  <2> SUFFICES ASSUME IInv PROVE BodyAsSent
    OBVIOUS
  <2> USE DEF IInv
  <2>1. Content \in Seq(Bytes) BY ContentTyped
  <2>2. at \in 0..Len(Content) BY DEF TypeOK, Content
  <2>3. response.zip /\ initialized =>
          \E k \in 0..Len(Content) : delivered \o buffer = Strip(Upto(k))
    BY <2>2, Zenon DEF Kept
  <2>4. end # "none" => initialized BY DEF Opened
  <2>5. end # "none" /\ response.zip =>
          end = response.ending /\ delivered = Strip(Content)
    <3> SUFFICES ASSUME end # "none", response.zip
                 PROVE  end = response.ending /\ delivered = Strip(Content)
      OBVIOUS
    <3>1. /\ end = response.ending /\ at = Len(Content) /\ buffer = <<>>
          /\ delivered \o buffer = Strip(Upto(at))
      BY <2>4, Zenon DEF Kept
    <3>2. Upto(at) = Content BY <2>1, <3>1, SubSeqFull, Zenon DEF Upto
    <3>3. delivered \o <<>> = delivered BY ConcatEmptySeq, Zenon DEF TypeOK
    <3> QED BY <3>1, <3>2, <3>3, Zenon
  <2>6. end = "eof" => response.zip BY <2>4 DEF Opened
  <2> QED BY <2>3, <2>5, <2>6, Zenon DEF BodyAsSent
<1> QED BY <1>1, Always, PTL

\* A Connect error comes through with or without a mark.
LEMMA JsonStripped == Strip(Json) = Json /\ Strip(Mark \o Json) = Json
<1>1. /\ Json \in Seq(Bytes) /\ Len(Json) = 2
      /\ Mark \in Seq(Bytes) /\ Len(Mark) = 3
  BY DEF Json, Mark, Bytes
<1>2. Strip(Json) = Json
  <2>1. Least(3, Len(Json)) = 2 BY <1>1 DEF Least
  <2>2. SubSeq(Json, 1, 2) = Json BY <1>1, SubSeqFull
  <2>3. Json # Mark BY DEF Json, Mark
  <2> QED BY <2>1, <2>2, <2>3, Zenon DEF Strip
<1>3. Strip(Mark \o Json) = Json
  <2>1. Len(Mark \o Json) = 5
    <3>1. Len(Mark \o Json) = Len(Mark) + Len(Json) BY <1>1, ConcatProperties, Zenon
    <3> QED BY <1>1, <3>1
  <2>2. Least(3, 5) = 3 BY DEF Least
  <2>3. SubSeq(Mark \o Json, 1, 3) = Mark
    <3>1. 1 \in 1..Len(Mark) /\ 3 \in 1..Len(Mark) BY <1>1
    <3>2. SubSeq(Mark \o Json, 1, 3) = SubSeq(Mark, 1, 3)
      BY <1>1, <3>1, SubSeqOfConcat1, Zenon
    <3>3. SubSeq(Mark, 1, 3) = Mark BY <1>1, SubSeqFull
    <3> QED BY <3>2, <3>3, Zenon
  <2>4. SubSeq(Mark \o Json, 4, 5) = Json
    <3>1. /\ 4 \in (Len(Mark) + 1)..(Len(Mark) + Len(Json))
          /\ 5 \in (Len(Mark) + 1)..(Len(Mark) + Len(Json))
          /\ 4 - Len(Mark) = 1 /\ 5 - Len(Mark) = 2
      BY <1>1
    <3>2. SubSeq(Mark \o Json, 4, 5) = SubSeq(Json, 4 - Len(Mark), 5 - Len(Mark))
      BY <1>1, <3>1, SubSeqOfConcat2, Zenon
    <3>3. SubSeq(Json, 1, 2) = Json BY <1>1, SubSeqFull
    <3> QED BY <3>1, <3>2, <3>3, Zenon
  <2> QED BY <2>1, <2>2, <2>3, <2>4, Zenon DEF Strip
<1> QED BY <1>2, <1>3

\* ErrorIsTheHosts: the host's error has its meaning however it was sent, and the
\* caller of an effect concludes that it did not happen only from an error that was
\* read whole and decoded.
THEOREM ErrorIsTheHostsHolds == Spec => []ErrorIsTheHosts
<1>1. IInv /\ BodyAsSent => ErrorIsTheHosts
  <2> SUFFICES ASSUME IInv, BodyAsSent, ~request.grpc
               PROVE  /\ /\ pc = "done" /\ ~response.ok
                         /\ response.coded /\ Content \in {Json, Mark \o Json}
                         /\ response.encoding # "other" /\ response.media # "foreign"
                         /\ response.zip /\ response.ending = "eof"
                         => outcome = Meaning(response.code, request.effect)
                      /\ request.effect /\ outcome \in Definite =>
                           Decoded /\ response.ending = "eof" /\ response.encoding # "other"
    BY DEF ErrorIsTheHosts
  <2> USE DEF IInv
  <2>1. ASSUME pc = "done", ~response.ok, response.coded, Content \in {Json, Mark \o Json},
               response.encoding # "other", response.media # "foreign",
               response.zip, response.ending = "eof"
        PROVE  outcome = Meaning(response.code, request.effect)
    <3>1. Normalized(response) /\ ~Refused(response)
      BY <2>1 DEF Fixed, Responses, Normalized, Refused
    <3>2. end # "none" /\ outcome = MapHostError(Decoded, DecodedCode, request.effect)
      BY <2>1, <3>1 DEF Concluded
    <3>3. end = "eof" /\ delivered = Strip(Content)
      BY <2>1, <3>2, Zenon DEF BodyAsSent
    <3>4. Strip(Content) = Json BY <2>1, JsonStripped, Zenon
    <3>5. Decoded BY <3>3, <3>4, Zenon DEF Decoded
    <3>6. DecodedCode = response.code BY <2>1, <3>5 DEF DecodedCode
    <3> QED BY <3>2, <3>5, <3>6 DEF MapHostError
  <2>2. ASSUME request.effect, outcome \in Definite
        PROVE  Decoded /\ response.ending = "eof" /\ response.encoding # "other"
    <3>1. outcome # "OutcomeUnknown" /\ outcome # "none" /\ outcome # "ok"
      BY <2>2 DEF Definite
    <3>2. \A code : outcome # MapHostError(FALSE, code, request.effect)
      BY <2>2, <3>1 DEF MapHostError
    <3>3. outcome # Unaided(response)
      BY <3>1, <3>2 DEF Unaided, Fixed, Responses
    <3>4. pc = "done" BY <3>1, <3>2 DEF TypeOK, Concluded
    <3>5. ~Refused(response) /\ outcome = MapHostError(Decoded, DecodedCode, request.effect)
      BY <3>2, <3>3, <3>4 DEF Concluded
    <3>6. Decoded BY <3>2, <3>5 DEF Decoded
    <3>7. end = "eof" BY <3>6 DEF Decoded
    <3>8. response.ending = "eof" BY <3>7, Zenon DEF BodyAsSent
    <3> QED BY <3>5, <3>6, <3>8 DEF Refused
  <2> QED BY <2>1, <2>2, Zenon
<1>2. Spec => [](IInv /\ BodyAsSent) BY Always, BodyAsSentHolds, PTL
<1> QED BY <1>1, <1>2, PTL

-----------------------------------------------------------------------------
(* SourceDeclarations. *)

\* new is old but for the operation that was edited.
Agrees(new, edit, old) ==
  /\ DOMAIN new \ {edit} = DOMAIN old \ {edit}
  /\ \A n \in DOMAIN new \ {edit} : Same(new[n], old[n])

\* Every set the host has or may get is an edit of one that had been listed.
FromListed ==
  /\ Now >= 1
  /\ \A m \in inflight :
       m.base \in 1..Now /\ Agrees(m.ops, m.edit, history[m.base].ops)
  /\ \A v \in 2..Now :
       /\ history[v].base \in 1..(v - 1)
       /\ Agrees(history[v].ops, history[v].edit, history[history[v].base].ops)

\* What an administrator has in hand is the set it listed, then an edit of it.
Has(a) ==
  /\ began[a] <= Now
  /\ phase[a] = "listing" => began[a] >= 1
  /\ phase[a] \in {"listed", "edited"} =>
       ops[a] \in SetsOf(Ops) /\ base[a] \in 1..Now
  /\ phase[a] = "listed" =>
       /\ DOMAIN ops[a] = DOMAIN history[base[a]].ops
       /\ \A n \in DOMAIN ops[a] : Same(ops[a][n], history[base[a]].ops[n])
  /\ phase[a] = "edited" => Agrees(ops[a], edited[a], history[base[a]].ops)

InHand ==
  /\ ops \in [Admins -> SetsOf(Ops) \cup {None}]
  /\ \A a \in Admins : Has(a)

\* A declaration is sent once, and reaches the host at most once.
SentOnce ==
  /\ \A m \in inflight : m.from \in Admins /\ m.call \in 1..calls[m.from]
  /\ \A m, o \in inflight : m.from = o.from /\ m.call = o.call => m = o
  /\ \A v \in 1..Now :
       /\ history[v].from \in Admins => history[v].call <= calls[history[v].from]
       /\ \A m \in inflight : ~(m.from = history[v].from /\ m.call = history[v].call)

\* The request an administrator waits for is the set it has in hand.
Awaited == \A m \in inflight : Waits(m) => m.ops = ops[m.from]

\* The inductive invariant.
Inv == DeclarationsTypeOK /\ FromListed /\ InHand /\ SentOnce /\ Awaited /\ OutcomeIsTrue

-----------------------------------------------------------------------------
(* Sets of operations and their conversions. *)

LEMMA SetsOfIs ==
  ASSUME NEW R, NEW s
  PROVE  s \in SetsOf(R) <=> DOMAIN s \subseteq Names /\ s \in [DOMAIN s -> R]
BY DEF SetsOf

\* What ListOperations makes of one operation.
LEMMA ListedOp ==
  ASSUME NEW o \in HostOps, Readable(o)
  PROVE  /\ [o EXCEPT !.input = SchemaJSON(@)] \in Ops
         /\ Same([o EXCEPT !.input = SchemaJSON(@)], o)
<1>1. /\ o.effect \in {"READ_ONLY", "MUTATION"} /\ o.input \in Schemas
      /\ o.route \in {"r1", "r2"}
      /\ o = [effect |-> o.effect, input |-> o.input, route |-> o.route]
  BY DEF HostOps, Readable
<1>2. [o EXCEPT !.input = SchemaJSON(@)]
        = [effect |-> o.effect, input |-> SchemaJSON(o.input), route |-> o.route]
  BY <1>1
<1>3. /\ SchemaJSON(o.input) \in Schemas
      /\ SchemaJSON(SchemaJSON(o.input)) = SchemaJSON(o.input)
  BY <1>1 DEF SchemaJSON, Schemas
<1>4. [effect |-> o.effect, input |-> SchemaJSON(o.input), route |-> o.route]
        \in Ops
  BY <1>1, <1>3 DEF Ops
<1>5. Same([effect |-> o.effect, input |-> SchemaJSON(o.input),
                 route |-> o.route], o)
  BY <1>1, <1>3 DEF Same
<1> QED BY <1>2, <1>4, <1>5

\* A list has the host's operations, each as it is there.
LEMMA ListedTyped ==
  ASSUME NEW s \in SetsOf(HostOps), \A n \in DOMAIN s : Readable(s[n])
  PROVE  /\ Listed(s) \in SetsOf(Ops)
         /\ DOMAIN Listed(s) = DOMAIN s
         /\ \A n \in DOMAIN s : Same(Listed(s)[n], s[n])
<1>1. DOMAIN s \subseteq Names /\ s \in [DOMAIN s -> HostOps] BY SetsOfIs
<1>2. /\ DOMAIN Listed(s) = DOMAIN s
      /\ \A n \in DOMAIN s :
           Listed(s)[n] = [s[n] EXCEPT !.input = SchemaJSON(@)]
  BY DEF Listed
<1>3. \A n \in DOMAIN s :
        Listed(s)[n] \in Ops /\ Same(Listed(s)[n], s[n])
  BY <1>1, <1>2, ListedOp
<1>4. Listed(s) \in [DOMAIN s -> Ops]
  BY <1>2, <1>3 DEF Listed
<1> QED BY <1>1, <1>2, <1>3, <1>4, SetsOfIs

\* What is declared is a set the host may have.
LEMMA DeclaredTyped ==
  ASSUME NEW s \in SetsOf(Ops), \A n \in DOMAIN s : Valid(s[n])
  PROVE  s \in SetsOf(HostOps)
<1>1. DOMAIN s \subseteq Names /\ s \in [DOMAIN s -> Ops] BY SetsOfIs
<1>2. ASSUME NEW o \in Ops, Valid(o) PROVE o \in HostOps
  BY <1>2 DEF Ops, HostOps, HostEffects, Valid, Schemas
<1>3. s \in [DOMAIN s -> HostOps] BY <1>1, <1>2
<1> QED BY <1>1, <1>3, SetsOfIs

\* One operation added or changed.
LEMMA AddedAgrees ==
  ASSUME NEW s \in SetsOf(Ops), NEW n \in Names, NEW o \in Ops,
         NEW t, t = [m \in DOMAIN s \cup {n} |-> IF m = n THEN o ELSE s[m]],
         NEW old, DOMAIN s = DOMAIN old, \A m \in DOMAIN s : Same(s[m], old[m])
  PROVE  t \in SetsOf(Ops) /\ Agrees(t, n, old)
<1>1. DOMAIN s \subseteq Names /\ s \in [DOMAIN s -> Ops] BY SetsOfIs
<1>2. /\ DOMAIN t = DOMAIN s \cup {n} /\ t \in [DOMAIN t -> Ops]
      /\ \A m \in DOMAIN s \ {n} : t[m] = s[m]
  BY <1>1
<1>3. Agrees(t, n, old) BY <1>2 DEF Agrees
<1> QED BY <1>1, <1>2, <1>3, SetsOfIs

\* One operation removed.
LEMMA RemovedAgrees ==
  ASSUME NEW s \in SetsOf(Ops), NEW n \in Names,
         NEW t, t = [m \in DOMAIN s \ {n} |-> s[m]],
         NEW old, DOMAIN s = DOMAIN old, \A m \in DOMAIN s : Same(s[m], old[m])
  PROVE  t \in SetsOf(Ops) /\ Agrees(t, n, old)
<1>1. DOMAIN s \subseteq Names /\ s \in [DOMAIN s -> Ops] BY SetsOfIs
<1>2. /\ DOMAIN t = DOMAIN s \ {n} /\ t \in [DOMAIN t -> Ops]
      /\ \A m \in DOMAIN s \ {n} : t[m] = s[m]
  BY <1>1
<1>3. Agrees(t, n, old) BY <1>2 DEF Agrees
<1> QED BY <1>1, <1>2, <1>3, SetsOfIs

-----------------------------------------------------------------------------
(* The invariant, step by step. *)

LEMMA InitDeclarations == ASSUME DeclarationsInit PROVE Inv
<1>1. PICK s \in HostSets :
        history = <<[ops |-> s, from |-> None, call |-> 0, base |-> 0, edit |-> None]>>
  BY DEF DeclarationsInit
<1> DEFINE m == [ops |-> s, from |-> None, call |-> 0, base |-> 0, edit |-> None]
<1>2. s \in SetsOf(HostOps) BY SetsAssumption
<1>3. m \in Sent BY <1>2, BoundsAssumption DEF Sent
<1>4. m.call = 0 OBVIOUS
<1> HIDE DEF m
<1>5. history = <<m>> BY <1>1 DEF m
<1>6. history \in Seq(Sent) /\ Len(history) = 1 /\ history[1] = m
  BY <1>3, <1>5
<1>7. DeclarationsTypeOK
  <2>1. /\ phase \in [Admins -> {"idle", "listing", "listed", "edited", "declaring",
                                 "declared", "refused", "unsettled", "invalid"}]
        /\ calls \in [Admins -> 0..MaxCalls]
        /\ base \in [Admins -> Nat] /\ began \in [Admins -> Nat]
        /\ edited \in [Admins -> Names \cup {None}]
    BY BoundsAssumption DEF DeclarationsInit
  <2>2. \A a \in Admins : ops[a] = None BY DEF DeclarationsInit
  <2>3. inflight = {} BY DEF DeclarationsInit
  <2> QED BY <1>6, <2>1, <2>2, <2>3, Zenon DEF DeclarationsTypeOK
<1>8. Now = 1 BY <1>6 DEF Now
<1>9. inflight = {} /\ \A a \in Admins : phase[a] = "idle" /\ began[a] = 0 /\ calls[a] = 0
  BY DEF DeclarationsInit
<1>10. FromListed BY <1>8, <1>9 DEF FromListed
<1>11. InHand
  <2>1. ops \in [Admins -> SetsOf(Ops) \cup {None}] BY DEF DeclarationsInit
  <2>2. \A a \in Admins : Has(a) BY <1>8, <1>9 DEF Has
  <2> QED BY <2>1, <2>2 DEF InHand
<1>12. SentOnce
  <2>1. \A v \in 1..Now : history[v].call = 0
    BY <1>4, <1>6, <1>8
  <2>2. \A v \in 1..Now :
          history[v].from \in Admins => history[v].call <= calls[history[v].from]
    BY <1>9, <2>1
  <2> QED BY <1>9, <2>2 DEF SentOnce
<1>13. Awaited /\ OutcomeIsTrue BY <1>9 DEF Awaited, OutcomeIsTrue
<1> QED BY <1>7, <1>10, <1>11, <1>12, <1>13 DEF Inv

\* A step of one administrator that leaves the host and the network alone, and
\* after which it neither waits nor has an answer.
LEMMA OwnStep ==
  ASSUME Inv, UNCHANGED <<history, inflight, calls>>,
         NEW a \in Admins,
         NEW to \in {"idle", "listing", "listed", "edited", "unsettled", "invalid"},
         phase' = [phase EXCEPT ![a] = to],
         \A b \in Admins \ {a} :
           /\ began'[b] = began[b] /\ ops'[b] = ops[b]
           /\ base'[b] = base[b] /\ edited'[b] = edited[b]
  PROVE  /\ FromListed' /\ SentOnce' /\ Awaited' /\ OutcomeIsTrue'
         /\ \A b \in Admins \ {a} : Has(b)'
<1> USE DEF Inv
<1>1. history' = history /\ inflight' = inflight /\ calls' = calls /\ Now' = Now
  BY DEF Now
<1>2. /\ phase'[a] = to
      /\ \A b \in Admins \ {a} : phase'[b] = phase[b]
  BY DEF DeclarationsTypeOK
<1>3. FromListed' BY <1>1 DEF FromListed
<1>4. SentOnce' BY <1>1 DEF SentOnce
<1>5. Awaited'
  <2> SUFFICES ASSUME NEW m \in inflight,
                      phase'[m.from] = "declaring", calls[m.from] = m.call
               PROVE  m.ops = ops'[m.from]
    BY <1>1 DEF Awaited, Waits
  <2>1. m.from \in Admins \ {a} BY <1>2 DEF SentOnce
  <2> QED BY <1>2, <2>1 DEF Awaited, Waits
<1>6. OutcomeIsTrue'
  <2>1. \A b \in Admins : phase'[b] \in {"declared", "refused"} =>
          b # a /\ phase'[b] = phase[b] /\ began'[b] = began[b] /\ ops'[b] = ops[b]
    BY <1>2
  <2> QED BY <1>1, <2>1 DEF OutcomeIsTrue
<1>7. \A b \in Admins \ {a} : Has(b)'
  BY <1>1, <1>2 DEF InHand, Has
<1> QED BY <1>3, <1>4, <1>5, <1>6, <1>7

\* What the host has had stays where it was.
LEMMA HistoryGrows ==
  ASSUME history \in Seq(Sent), NEW m \in Sent, history' = Append(history, m)
  PROVE  /\ history' \in Seq(Sent) /\ Now \in Nat /\ Now' = Now + 1
         /\ history'[Now + 1] = m
         /\ \A v \in 1..Now : history'[v] = history[v]
BY AppendProperties, LenProperties DEF Now

\* A list is begun, answered or lost, an operation edited, an answer lost.
LEMMA OwnSteps ==
  ASSUME Inv, NEW a \in Admins,
         \/ StartList(a) \/ ListAnswered(a) \/ ListFails(a)
         \/ Edit(a) \/ Lost(a)
  PROVE  Inv'
<1> USE DEF Inv
<1>n. Now \in Nat /\ Now >= 1
  BY LenProperties DEF DeclarationsTypeOK, Now, FromListed
<1>f. /\ phase \in [Admins -> {"idle", "listing", "listed", "edited", "declaring",
                               "declared", "refused", "unsettled", "invalid"}]
      /\ base \in [Admins -> Nat] /\ began \in [Admins -> Nat]
      /\ edited \in [Admins -> Names \cup {None}]
      /\ ops \in [Admins -> SetsOf(Ops) \cup {None}]
  BY DEF DeclarationsTypeOK, InHand
<1>1. UNCHANGED <<history, inflight, calls>>
  BY DEF StartList, ListAnswered, ListFails, Edit, Lost
<1>2. ASSUME NEW to \in {"idle", "listing", "listed", "edited", "unsettled", "invalid"},
             phase' = [phase EXCEPT ![a] = to],
             \A b \in Admins \ {a} :
               /\ began'[b] = began[b] /\ ops'[b] = ops[b]
               /\ base'[b] = base[b] /\ edited'[b] = edited[b],
             ops' \in [Admins -> SetsOf(Ops) \cup {None}],
             base' \in [Admins -> Nat], began' \in [Admins -> Nat],
             edited' \in [Admins -> Names \cup {None}],
             Has(a)'
      PROVE  Inv'
  <2>1. /\ FromListed' /\ SentOnce' /\ Awaited' /\ OutcomeIsTrue'
        /\ \A b \in Admins \ {a} : Has(b)'
    BY <1>1, <1>2, OwnStep
  <2>2. InHand' BY <1>2, <2>1 DEF InHand
  <2>3. phase' \in [Admins -> {"idle", "listing", "listed", "edited", "declaring",
                               "declared", "refused", "unsettled", "invalid"}]
    BY <1>2, <1>f
  <2>4. \A b \in Admins : ops'[b] = None \/ ops'[b] \in SetsOf(Ops)
    BY <1>2
  <2>5. DeclarationsTypeOK'
    <3>1. history' = history /\ calls' = calls /\ inflight' = inflight BY <1>1
    <3> QED BY <1>2, <2>3, <2>4, <3>1, Zenon DEF DeclarationsTypeOK
  <2> QED BY <2>1, <2>2, <2>5
<1>h. history' = history /\ Now' = Now BY <1>1 DEF Now
<1>3. CASE StartList(a)
  <2>1. /\ phase' = [phase EXCEPT ![a] = "listing"]
        /\ began' = [began EXCEPT ![a] = Now]
        /\ ops' = [ops EXCEPT ![a] = None] /\ edited' = [edited EXCEPT ![a] = None]
        /\ base' = base
    BY <1>3 DEF StartList
  <2>2. phase'[a] = "listing" /\ began'[a] = Now BY <1>f, <2>1
  <2>3. Has(a)' BY <1>h, <1>n, <2>2 DEF Has
  <2>4. /\ ops' \in [Admins -> SetsOf(Ops) \cup {None}]
        /\ began' \in [Admins -> Nat] /\ edited' \in [Admins -> Names \cup {None}]
        /\ \A b \in Admins \ {a} :
             began'[b] = began[b] /\ ops'[b] = ops[b] /\ edited'[b] = edited[b]
    BY <1>f, <1>n, <2>1
  <2> QED BY <1>2, <1>f, <2>1, <2>3, <2>4
<1>4. CASE ListAnswered(a)
  <2> DEFINE list(v) == List(history[v].ops)
  <2>1. PICK v \in began[a]..Now :
          /\ ops' = [ops EXCEPT ![a] = list(v)]
          /\ base' = [base EXCEPT ![a] = v]
          /\ phase' = [phase EXCEPT ![a] = IF list(v) = None THEN "invalid" ELSE "listed"]
    BY <1>4 DEF ListAnswered
  <2>2. phase[a] = "listing" /\ UNCHANGED <<began, edited>>
    BY <1>4 DEF ListAnswered
  <2>3. v \in 1..Now /\ v \in Nat
    <3>1. began[a] >= 1 /\ began[a] \in Nat BY <2>2, <1>f DEF InHand, Has
    <3> QED BY <1>n, <3>1
  <2>4. history[v].ops \in SetsOf(HostOps)
    <3>1. history[v] \in Sent BY <2>3, ElementOfSeq DEF DeclarationsTypeOK, Now
    <3> QED BY <3>1 DEF Sent
  <2>5. CASE list(v) = None
    <3>1. phase'[a] = "invalid" /\ began'[a] = began[a] BY <1>f, <2>1, <2>2, <2>5
    <3>2. Has(a)' BY <1>h, <3>1 DEF InHand, Has
    <3>3. phase' = [phase EXCEPT ![a] = "invalid"] BY <2>1, <2>5
    <3>4. /\ ops' \in [Admins -> SetsOf(Ops) \cup {None}]
          /\ base' \in [Admins -> Nat]
          /\ \A b \in Admins \ {a} : ops'[b] = ops[b] /\ base'[b] = base[b]
      BY <1>f, <2>1, <2>3, <2>5
    <3> QED BY <1>2, <1>f, <2>2, <3>2, <3>3, <3>4
  <2>6. CASE list(v) # None
    <3>1. /\ list(v) = Listed(history[v].ops)
          /\ \A n \in DOMAIN history[v].ops : Readable(history[v].ops[n])
      BY <2>6 DEF List
    <3>2. /\ list(v) \in SetsOf(Ops)
          /\ DOMAIN list(v) = DOMAIN history[v].ops
          /\ \A n \in DOMAIN history[v].ops : Same(list(v)[n], history[v].ops[n])
      BY <2>4, <3>1, ListedTyped
    <3> HIDE DEF list
    <3>3. phase'[a] = "listed" /\ began'[a] = began[a] /\ ops'[a] = list(v) /\ base'[a] = v
      BY <1>f, <2>1, <2>2, <2>6
    <3>4. Has(a)' BY <1>h, <2>3, <3>2, <3>3 DEF InHand, Has
    <3>5. phase' = [phase EXCEPT ![a] = "listed"] BY <2>1, <2>6
    <3>6. /\ ops' \in [Admins -> SetsOf(Ops) \cup {None}]
          /\ base' \in [Admins -> Nat]
          /\ \A b \in Admins \ {a} : ops'[b] = ops[b] /\ base'[b] = base[b]
      BY <1>f, <2>1, <2>3, <3>2
    <3> QED BY <1>2, <1>f, <2>2, <3>4, <3>5, <3>6
  <2> QED BY <2>5, <2>6
<1>5. CASE ListFails(a)
  <2>1. phase' = [phase EXCEPT ![a] = "idle"] /\ UNCHANGED <<base, began, ops, edited>>
    BY <1>5 DEF ListFails
  <2>2. phase'[a] = "idle" BY <1>f, <2>1
  <2>3. Has(a)' BY <1>h, <2>1, <2>2 DEF InHand, Has
  <2> QED BY <1>2, <1>f, <2>1, <2>3
<1>6. CASE Edit(a)
  <2> DEFINE s == ops[a]
             old == history[base[a]].ops
  <2>1. /\ phase[a] = "listed" /\ phase' = [phase EXCEPT ![a] = "edited"]
        /\ UNCHANGED <<base, began>>
    BY <1>6 DEF Edit
  <2>2. /\ s \in SetsOf(Ops) /\ base[a] \in 1..Now
        /\ DOMAIN s = DOMAIN old /\ \A n \in DOMAIN s : Same(s[n], old[n])
    BY <2>1 DEF InHand, Has
  <2>3. PICK n \in Names :
          /\ edited' = [edited EXCEPT ![a] = n]
          /\ \/ \E o \in Changes :
                  ops' = [ops EXCEPT ![a] = [m \in DOMAIN s \cup {n} |->
                                               IF m = n THEN o ELSE s[m]]]
             \/ ops' = [ops EXCEPT ![a] = [m \in DOMAIN s \ {n} |-> s[m]]]
    BY <1>6 DEF Edit
  <2>4. PICK t : /\ ops' = [ops EXCEPT ![a] = t]
                 /\ t \in SetsOf(Ops) /\ Agrees(t, n, old)
    <3>1. ASSUME NEW o \in Changes,
                 ops' = [ops EXCEPT ![a] = [m \in DOMAIN s \cup {n} |->
                                              IF m = n THEN o ELSE s[m]]]
          PROVE  \E t : /\ ops' = [ops EXCEPT ![a] = t]
                        /\ t \in SetsOf(Ops) /\ Agrees(t, n, old)
      <4> DEFINE t == [m \in DOMAIN s \cup {n} |-> IF m = n THEN o ELSE s[m]]
      <4>1. o \in Ops BY SetsAssumption
      <4>2. t \in SetsOf(Ops) /\ Agrees(t, n, old)
        <5> HIDE DEF s, old
        <5> QED BY <2>2, <4>1, AddedAgrees
      <4> QED BY <3>1, <4>2
    <3>2. ASSUME ops' = [ops EXCEPT ![a] = [m \in DOMAIN s \ {n} |-> s[m]]]
          PROVE  \E t : /\ ops' = [ops EXCEPT ![a] = t]
                        /\ t \in SetsOf(Ops) /\ Agrees(t, n, old)
      <4> DEFINE t == [m \in DOMAIN s \ {n} |-> s[m]]
      <4>1. t \in SetsOf(Ops) /\ Agrees(t, n, old)
        <5> HIDE DEF s, old
        <5> QED BY <2>2, RemovedAgrees
      <4> QED BY <3>2, <4>1
    <3> QED BY <2>3, <3>1, <3>2
  <2>5. phase'[a] = "edited" /\ ops'[a] = t /\ edited'[a] = n /\ base'[a] = base[a]
        /\ began'[a] = began[a]
    BY <1>f, <2>1, <2>3, <2>4
  <2>6. Has(a)' BY <1>h, <2>2, <2>4, <2>5 DEF InHand, Has
  <2>7. /\ ops' \in [Admins -> SetsOf(Ops) \cup {None}]
        /\ edited' \in [Admins -> Names \cup {None}]
        /\ \A b \in Admins \ {a} : ops'[b] = ops[b] /\ edited'[b] = edited[b]
    BY <1>f, <2>3, <2>4
  <2> QED BY <1>2, <1>f, <2>1, <2>6, <2>7
<1>7. CASE Lost(a)
  <2>1. phase' = [phase EXCEPT ![a] = "unsettled"] /\ UNCHANGED <<base, began, ops, edited>>
    BY <1>7 DEF Lost, Settled, MapHostError, Meaning, Unsettled,
                Definite
  <2>2. phase'[a] = "unsettled" BY <1>f, <2>1
  <2>3. Has(a)' BY <1>h, <2>1, <2>2 DEF InHand, Has
  <2> QED BY <1>2, <1>f, <2>1, <2>3
<1> QED BY <1>3, <1>4, <1>5, <1>6, <1>7

\* A declaration is sent, or found invalid.
LEMMA DeclareStep == ASSUME Inv, NEW a \in Admins, Declare(a) PROVE Inv'
<1> USE DEF Inv
<1>n. Now \in Nat /\ Now >= 1
  BY LenProperties DEF DeclarationsTypeOK, Now, FromListed
<1>f. /\ phase \in [Admins -> {"idle", "listing", "listed", "edited", "declaring",
                               "declared", "refused", "unsettled", "invalid"}]
      /\ calls \in [Admins -> 0..MaxCalls] /\ began \in [Admins -> Nat]
      /\ base \in [Admins -> Nat] /\ edited \in [Admins -> Names \cup {None}]
      /\ MaxCalls \in Nat
  BY BoundsAssumption DEF DeclarationsTypeOK
<1>1. /\ phase[a] = "edited" /\ began' = [began EXCEPT ![a] = Now]
      /\ history' = history /\ Now' = Now
      /\ base' = base /\ ops' = ops /\ edited' = edited
  BY DEF Declare, Now
<1>2. /\ ops[a] \in SetsOf(Ops) /\ base[a] \in 1..Now
      /\ Agrees(ops[a], edited[a], history[base[a]].ops)
  BY <1>1 DEF InHand, Has
<1>3. began' \in [Admins -> Nat] /\ began'[a] = Now
      /\ \A b \in Admins \ {a} : began'[b] = began[b]
  BY <1>f, <1>n, <1>1
<1>4. ASSUME NEW to \in {"invalid", "declaring"}, phase' = [phase EXCEPT ![a] = to]
      PROVE  /\ InHand'
             /\ phase' \in [Admins -> {"idle", "listing", "listed", "edited", "declaring",
                                       "declared", "refused", "unsettled", "invalid"}]
             /\ phase'[a] = to /\ \A b \in Admins \ {a} : phase'[b] = phase[b]
  <2>1. phase'[a] = to /\ \A b \in Admins \ {a} : phase'[b] = phase[b] BY <1>f, <1>4
  <2>2. Has(a)' BY <1>1, <1>3, <1>n, <2>1 DEF Has
  <2>3. \A b \in Admins \ {a} : Has(b)' BY <1>1, <1>3, <2>1 DEF InHand, Has
  <2>4. InHand' BY <1>1, <2>2, <2>3 DEF InHand
  <2>5. phase' \in [Admins -> {"idle", "listing", "listed", "edited", "declaring",
                               "declared", "refused", "unsettled", "invalid"}]
    BY <1>f, <1>4
  <2> QED BY <2>1, <2>4, <2>5
<1>5. CASE phase' = [phase EXCEPT ![a] = "invalid"] /\ UNCHANGED <<calls, inflight>>
  <2>1. /\ InHand'
        /\ phase' \in [Admins -> {"idle", "listing", "listed", "edited", "declaring",
                                  "declared", "refused", "unsettled", "invalid"}]
        /\ phase'[a] = "invalid" /\ \A b \in Admins \ {a} : phase'[b] = phase[b]
    BY <1>4, <1>5
  <2>2. calls' = calls /\ inflight' = inflight BY <1>5
  <2>3. DeclarationsTypeOK' BY <1>1, <1>3, <2>1, <2>2, Zenon DEF DeclarationsTypeOK
  <2>4. FromListed' BY <1>1, <2>2 DEF FromListed
  <2>5. SentOnce' BY <1>1, <2>2 DEF SentOnce
  <2>6. Awaited'
    BY <1>1, <2>1, <2>2 DEF Awaited, Waits, SentOnce
  <2>7. OutcomeIsTrue'
    <3>1. \A b \in Admins : phase'[b] \in {"declared", "refused"} =>
            b # a /\ phase'[b] = phase[b] /\ began'[b] = began[b]
      BY <1>3, <2>1
    <3> QED BY <1>1, <2>2, <3>1 DEF OutcomeIsTrue
  <2> QED BY <2>1, <2>3, <2>4, <2>5, <2>6, <2>7
<1>6. ASSUME phase' = [phase EXCEPT ![a] = "declaring"],
             Declaration(ops[a]) # None, calls[a] < MaxCalls,
             calls' = [calls EXCEPT ![a] = @ + 1],
             NEW m, m = [ops |-> Declaration(ops[a]), from |-> a,
                         call |-> calls[a] + 1, base |-> base[a], edit |-> edited[a]],
             inflight' = inflight \cup {m}
      PROVE  Inv'
  <2>1. /\ InHand'
        /\ phase' \in [Admins -> {"idle", "listing", "listed", "edited", "declaring",
                                  "declared", "refused", "unsettled", "invalid"}]
        /\ phase'[a] = "declaring" /\ \A b \in Admins \ {a} : phase'[b] = phase[b]
    BY <1>4, <1>6
  <2>2. Declaration(ops[a]) = ops[a] /\ \A n \in DOMAIN ops[a] : Valid(ops[a][n])
    BY <1>6 DEF Declaration
  <2>3. ops[a] \in SetsOf(HostOps) BY <1>2, <2>2, DeclaredTyped
  <2>4. /\ m.ops = ops[a] /\ m.from = a /\ m.call = calls[a] + 1
        /\ m.base = base[a] /\ m.edit = edited[a]
    BY <1>6, <2>2
  <2>5. /\ calls' \in [Admins -> 0..MaxCalls] /\ calls'[a] = calls[a] + 1
        /\ \A b \in Admins \ {a} : calls'[b] = calls[b]
        /\ calls[a] \in Nat /\ calls[a] + 1 \in 0..MaxCalls
    BY <1>f, <1>6
  <2>6. m \in Sent
    <3>1. /\ base[a] \in Nat /\ edited[a] \in Names \cup {None}
          /\ a \in Admins \cup {None}
      BY <1>f
    <3> QED BY <1>6, <2>2, <2>3, <2>5, <3>1 DEF Sent
  <2>7. DeclarationsTypeOK'
    <3>1. inflight' \subseteq Sent BY <1>6, <2>6 DEF DeclarationsTypeOK
    <3> QED BY <1>1, <1>3, <2>1, <2>5, <3>1, Zenon DEF DeclarationsTypeOK
  <2>8. FromListed'
    <3>1. \A o \in inflight' :
            o.base \in 1..Now /\ Agrees(o.ops, o.edit, history[o.base].ops)
      BY <1>2, <1>6, <2>4 DEF FromListed
    <3> QED BY <1>1, <3>1 DEF FromListed
  <2>9. SentOnce'
    <3>1. \A o \in inflight : o.from \in Admins /\ o.call \in 1..calls[o.from]
      BY DEF SentOnce
    <3>2. \A o \in inflight : ~(o.from = a /\ o.call = calls[a] + 1)
      <4> SUFFICES ASSUME NEW o \in inflight, o.from = a, o.call = calls[a] + 1 PROVE FALSE
        OBVIOUS
      <4>1. o.call \in 1..calls[a] BY <3>1
      <4> QED BY <2>5, <4>1
    <3>3. \A o \in inflight' : o.from \in Admins /\ o.call \in 1..calls'[o.from]
      <4> SUFFICES ASSUME NEW o \in inflight'
                   PROVE  o.from \in Admins /\ o.call \in 1..calls'[o.from]
        OBVIOUS
      <4>1. CASE o \in inflight
        <5>1. o.from \in Admins /\ o.call \in 1..calls[o.from] BY <3>1, <4>1
        <5>2. /\ calls[o.from] \in Nat /\ calls'[o.from] \in Nat
              /\ calls[o.from] <= calls'[o.from]
          BY <1>f, <2>5, <5>1
        <5> QED BY <5>1, <5>2
      <4>2. CASE o = m BY <2>4, <2>5, <4>2
      <4> QED BY <1>6, <4>1, <4>2
    <3>4. \A x, y \in inflight' : x.from = y.from /\ x.call = y.call => x = y
      BY <1>6, <2>4, <3>2 DEF SentOnce
    <3>5. \A v \in 1..Now :
            history[v].from \in Admins => history[v].call <= calls[history[v].from]
      BY DEF SentOnce
    <3>6. \A v \in 1..Now : history[v] \in Sent
      BY ElementOfSeq DEF DeclarationsTypeOK, Now
    <3>7. \A v \in 1..Now : history[v].call \in Nat
      BY <3>6, <1>f DEF Sent
    <3>8. \A v \in 1..Now :
            history[v].from \in Admins => history[v].call <= calls'[history[v].from]
      <4> SUFFICES ASSUME NEW v \in 1..Now, history[v].from \in Admins
                   PROVE  history[v].call <= calls'[history[v].from]
        OBVIOUS
      <4> DEFINE b == history[v].from
      <4>1. history[v].call <= calls[b] /\ history[v].call \in Nat BY <3>5, <3>7
      <4>2. calls[b] \in Nat /\ calls'[b] \in Nat /\ calls[b] <= calls'[b] BY <1>f, <2>5
      <4> QED BY <4>1, <4>2
    <3>9. \A v \in 1..Now : ~(m.from = history[v].from /\ m.call = history[v].call)
      <4> SUFFICES ASSUME NEW v \in 1..Now, a = history[v].from,
                          calls[a] + 1 = history[v].call
                   PROVE  FALSE
        BY <2>4
      <4>1. history[v].call <= calls[a] BY <3>5
      <4> QED BY <2>5, <4>1
    <3>10. \A v \in 1..Now, o \in inflight' :
             ~(o.from = history[v].from /\ o.call = history[v].call)
      BY <1>6, <3>9 DEF SentOnce
    <3> QED BY <1>1, <3>3, <3>4, <3>8, <3>10 DEF SentOnce
  <2>10. Awaited'
    <3> SUFFICES ASSUME NEW o \in inflight', phase'[o.from] = "declaring",
                        calls'[o.from] = o.call
                 PROVE  o.ops = ops[o.from]
      BY <1>1 DEF Awaited, Waits
    <3>1. CASE o = m BY <2>4, <3>1
    <3>2. CASE o \in inflight
      <4>1. o.from \in Admins /\ o.call \in 1..calls[o.from] BY <3>2 DEF SentOnce
      <4>2. o.from # a BY <2>5, <4>1
      <4>3. phase[o.from] = "declaring" /\ calls[o.from] = o.call BY <2>1, <2>5, <4>1, <4>2
      <4> QED BY <3>2, <4>3 DEF Awaited, Waits
    <3> QED BY <1>6, <3>1, <3>2
  <2>11. OutcomeIsTrue'
    <3>1. \A b \in Admins : phase'[b] \in {"declared", "refused"} =>
            /\ b # a /\ phase'[b] = phase[b] /\ began'[b] = began[b] /\ calls'[b] = calls[b]
      BY <1>3, <2>1, <2>5
    <3>2. \A b \in Admins \ {a} : ~(m.from = b) BY <2>4
    <3> QED BY <1>1, <1>6, <3>1, <3>2 DEF OutcomeIsTrue
  <2> QED BY <2>1, <2>7, <2>8, <2>9, <2>10, <2>11
<1> QED BY <1>5, <1>6 DEF Declare

\* An answer changes where its sender is, and only if that one waits for it.
LEMMA AnswerIs ==
  ASSUME Inv, NEW m \in inflight, NEW to \in {"declared", "refused", "unsettled"},
         Answer(m, to), UNCHANGED <<calls, base, began, ops, edited>>
  PROVE  /\ inflight' = inflight \ {m} /\ m.from \in Admins
         /\ phase' \in [Admins -> {"idle", "listing", "listed", "edited", "declaring",
                                   "declared", "refused", "unsettled", "invalid"}]
         /\ \A b \in Admins :
              \/ phase'[b] = phase[b] /\ ~(b = m.from /\ Waits(m))
              \/ phase'[b] = to /\ b = m.from /\ Waits(m)
         /\ Awaited'
<1> USE DEF Inv
<1>1. m.from \in Admins /\ inflight' = inflight \ {m} BY DEF SentOnce, Answer
<1>2. phase \in [Admins -> {"idle", "listing", "listed", "edited", "declaring",
                            "declared", "refused", "unsettled", "invalid"}]
  BY DEF DeclarationsTypeOK
<1>3. phase' = IF Waits(m) THEN [phase EXCEPT ![m.from] = to] ELSE phase
  BY DEF Answer
<1>4. phase' \in [Admins -> {"idle", "listing", "listed", "edited", "declaring",
                             "declared", "refused", "unsettled", "invalid"}]
  BY <1>2, <1>3
<1>5. \A b \in Admins :
        \/ phase'[b] = phase[b] /\ ~(b = m.from /\ Waits(m))
        \/ phase'[b] = to /\ b = m.from /\ Waits(m)
  BY <1>1, <1>2, <1>3
<1>6. Awaited'
  <2> SUFFICES ASSUME NEW o \in inflight,
                      phase'[o.from] = "declaring", calls[o.from] = o.call
               PROVE  o.ops = ops[o.from]
    BY <1>1 DEF Awaited, Waits
  <2>1. phase[o.from] = "declaring" BY <1>5 DEF SentOnce
  <2> QED BY <2>1 DEF Awaited, Waits
<1> QED BY <1>1, <1>4, <1>5, <1>6

\* A set is replaced: by one that is new to the host, and an edit of one it has had.
LEMMA ReplaceStep == ASSUME Inv, NEW m \in inflight, Replace(m) PROVE Inv'
<1> USE DEF Inv
<1>1. /\ history' = Append(history, m) /\ Answer(m, "declared")
      /\ UNCHANGED <<calls, base, began, ops, edited>>
  BY DEF Replace
<1>2. /\ inflight' = inflight \ {m} /\ m.from \in Admins
      /\ phase' \in [Admins -> {"idle", "listing", "listed", "edited", "declaring",
                                "declared", "refused", "unsettled", "invalid"}]
      /\ \A b \in Admins :
           \/ phase'[b] = phase[b] /\ ~(b = m.from /\ Waits(m))
           \/ phase'[b] = "declared" /\ b = m.from /\ Waits(m)
      /\ Awaited'
  BY <1>1, AnswerIs
<1>3. m \in Sent /\ history \in Seq(Sent) BY DEF DeclarationsTypeOK
<1> DEFINE last == Now + 1
<1>4. /\ history' \in Seq(Sent) /\ Now \in Nat /\ Now' = last
      /\ history'[last] = m /\ \A v \in 1..Now : history'[v] = history[v]
  BY <1>1, <1>3, HistoryGrows
<1>5. \A v \in 1..Now' : v \in 1..Now \/ v = last
  BY <1>4
<1>6. DeclarationsTypeOK'
  <2>1. inflight' \subseteq Sent BY <1>2 DEF DeclarationsTypeOK
  <2> QED BY <1>1, <1>2, <1>4, <2>1, Zenon DEF DeclarationsTypeOK
<1>7. FromListed'
  <2>1. Now' >= 1 BY <1>4 DEF FromListed
  <2>2. \A o \in inflight :
          o.base \in 1..Now /\ Agrees(o.ops, o.edit, history'[o.base].ops)
    BY <1>4 DEF FromListed
  <2>3. \A v \in 2..Now' :
          /\ history'[v].base \in 1..(v - 1)
          /\ Agrees(history'[v].ops, history'[v].edit, history'[history'[v].base].ops)
    <3> SUFFICES ASSUME NEW v \in 2..Now'
                 PROVE  /\ history'[v].base \in 1..(v - 1)
                        /\ Agrees(history'[v].ops, history'[v].edit,
                                  history'[history'[v].base].ops)
      OBVIOUS
    <3>1. CASE v \in 2..Now
      <4>1. /\ history'[v] = history[v] /\ history[v].base \in 1..(v - 1)
            /\ Agrees(history[v].ops, history[v].edit, history[history[v].base].ops)
        BY <1>4, <3>1 DEF FromListed
      <4>2. history[v].base \in 1..Now BY <1>4, <3>1, <4>1
      <4>3. history'[history[v].base] = history[history[v].base] BY <1>4, <4>2
      <4> QED BY <4>1, <4>3
    <3>2. CASE v = last
      <4>1. history'[v] = m /\ v - 1 = Now BY <1>4, <3>2
      <4> QED BY <2>2, <4>1
    <3> QED BY <1>4, <3>1, <3>2
  <2>4. \A o \in inflight' : o.base \in 1..Now' BY <1>2, <1>4, <2>2
  <2> QED BY <1>2, <2>1, <2>2, <2>3, <2>4 DEF FromListed
<1>8. InHand'
  <2>1. \A b \in Admins : Has(b)'
    <3> SUFFICES ASSUME NEW b \in Admins PROVE Has(b)'
      OBVIOUS
    <3>1. Has(b) BY DEF InHand
    <3>2. began[b] \in Nat /\ began'[b] = began[b] /\ base'[b] = base[b]
          /\ ops'[b] = ops[b] /\ edited'[b] = edited[b]
      BY <1>1 DEF DeclarationsTypeOK
    <3>3. began'[b] <= Now' BY <1>4, <3>1, <3>2 DEF Has
    <3>4. CASE phase'[b] \in {"listing", "listed", "edited"}
      <4>1. phase'[b] = phase[b] BY <1>2, <3>4
      <4>2. phase[b] # "listing" => base[b] \in 1..Now BY <3>1, <3>4, <4>1 DEF Has
      <4>3. phase[b] # "listing" =>
              base[b] \in 1..Now' /\ history'[base[b]] = history[base[b]]
        BY <1>4, <4>2
      <4> QED BY <3>1, <3>2, <3>3, <4>1, <4>3 DEF Has
    <3>5. CASE phase'[b] \notin {"listing", "listed", "edited"}
      BY <3>3, <3>5 DEF Has
    <3> QED BY <3>4, <3>5
  <2> QED BY <1>1, <2>1 DEF InHand
<1>9. SentOnce'
  <2>1. m.call <= calls[m.from]
    <3>1. m.call \in 1..calls[m.from] BY DEF SentOnce
    <3> QED BY <3>1
  <2>2. \A o \in inflight' : ~(o.from = m.from /\ o.call = m.call)
    BY <1>2 DEF SentOnce
  <2>3. \A v \in 1..Now' :
          /\ history'[v].from \in Admins => history'[v].call <= calls[history'[v].from]
          /\ \A o \in inflight' : ~(o.from = history'[v].from /\ o.call = history'[v].call)
    <3> SUFFICES ASSUME NEW v \in 1..Now'
                 PROVE  /\ history'[v].from \in Admins =>
                             history'[v].call <= calls[history'[v].from]
                        /\ \A o \in inflight' :
                             ~(o.from = history'[v].from /\ o.call = history'[v].call)
      OBVIOUS
    <3>1. CASE v \in 1..Now BY <1>2, <1>4, <3>1 DEF SentOnce
    <3>2. CASE v = last BY <1>4, <2>1, <2>2, <3>2
    <3> QED BY <1>5, <3>1, <3>2
  <2> QED BY <1>1, <1>2, <2>3 DEF SentOnce
<1>10. OutcomeIsTrue'
  <2>1. ASSUME NEW b \in Admins, phase'[b] = "declared"
        PROVE  \E v \in (began[b] + 1)..Now' :
                 /\ history'[v].from = b /\ history'[v].call = calls[b]
                 /\ history'[v].ops = ops[b]
    <3>1. began[b] \in Nat /\ began[b] <= Now BY DEF DeclarationsTypeOK, InHand, Has
    <3>2. CASE phase[b] = "declared"
      <4>1. PICK v \in (began[b] + 1)..Now :
              /\ history[v].from = b /\ history[v].call = calls[b]
              /\ history[v].ops = ops[b]
        BY <3>2 DEF OutcomeIsTrue
      <4>2. v \in 1..Now /\ v \in (began[b] + 1)..Now' BY <1>4, <3>1
      <4> QED BY <1>4, <4>1, <4>2
    <3>3. CASE b = m.from /\ Waits(m)
      <4>1. m.ops = ops[b] /\ m.call = calls[b] BY <3>3 DEF Awaited, Waits
      <4>2. last \in (began[b] + 1)..Now' BY <1>4, <3>1
      <4> QED BY <1>4, <3>3, <4>1, <4>2
    <3> QED BY <1>2, <2>1, <3>2, <3>3
  <2>2. ASSUME NEW b \in Admins, phase'[b] = "refused",
               NEW o \in inflight' \cup {history'[v] : v \in 1..Now'}
        PROVE  ~(o.from = b /\ o.call = calls[b])
    <3>1. phase[b] = "refused" BY <1>2, <2>2
    <3>2. o \in inflight \cup {history[v] : v \in 1..Now}
      BY <1>2, <1>4, <1>5
    <3> QED BY <3>1, <3>2 DEF OutcomeIsTrue
  <2> QED BY <1>1, <2>1, <2>2 DEF OutcomeIsTrue
<1> QED BY <1>2, <1>6, <1>7, <1>8, <1>9, <1>10

\* A set is refused, by the host or in its place: the request has come to its end.
LEMMA RefuseStep == ASSUME Inv, NEW m \in inflight, RefuseSet(m) PROVE Inv'
<1> USE DEF Inv
<1>1. /\ history' = history /\ Now' = Now
      /\ UNCHANGED <<calls, base, began, ops, edited>>
  BY DEF RefuseSet, Now
<1>2. Answer(m, "refused")
  <2>1. /\ Settled(MapHostError(FALSE, "PermissionDenied", FALSE)) = "refused"
        /\ \A code \in {"PermissionDenied", "InvalidArgument", "Precondition"} :
             Settled(MapHostError(TRUE, code, FALSE)) = "refused"
    BY DEF Settled, MapHostError, Meaning, Definite
  <2> QED BY <2>1 DEF RefuseSet
<1>3. /\ inflight' = inflight \ {m} /\ m.from \in Admins
      /\ phase' \in [Admins -> {"idle", "listing", "listed", "edited", "declaring",
                                "declared", "refused", "unsettled", "invalid"}]
      /\ \A b \in Admins :
           \/ phase'[b] = phase[b] /\ ~(b = m.from /\ Waits(m))
           \/ phase'[b] = "refused" /\ b = m.from /\ Waits(m)
      /\ Awaited'
  BY <1>1, <1>2, AnswerIs
<1>4. DeclarationsTypeOK'
  <2>1. inflight' \subseteq Sent BY <1>3 DEF DeclarationsTypeOK
  <2> QED BY <1>1, <1>3, <2>1, Zenon DEF DeclarationsTypeOK
<1>5. FromListed' BY <1>1, <1>3 DEF FromListed
<1>6. InHand'
  <2>1. \A b \in Admins : Has(b)' BY <1>1, <1>3 DEF InHand, Has
  <2> QED BY <1>1, <2>1 DEF InHand
<1>7. SentOnce' BY <1>1, <1>3 DEF SentOnce
<1>8. OutcomeIsTrue'
  <2>1. ASSUME NEW b \in Admins, phase'[b] = "declared"
        PROVE  \E v \in (began[b] + 1)..Now :
                 /\ history[v].from = b /\ history[v].call = calls[b]
                 /\ history[v].ops = ops[b]
    <3>1. phase[b] = "declared" BY <1>3, <2>1
    <3> QED BY <3>1 DEF OutcomeIsTrue
  <2>2. ASSUME NEW b \in Admins, phase'[b] = "refused",
               NEW o \in inflight' \cup {history[v] : v \in 1..Now}
        PROVE  ~(o.from = b /\ o.call = calls[b])
    <3>1. CASE phase[b] = "refused"
      BY <1>3, <3>1 DEF OutcomeIsTrue
    <3>2. CASE b = m.from /\ Waits(m)
      <4>1. calls[b] = m.call BY <3>2 DEF Waits
      <4>2. CASE o \in inflight' BY <1>3, <3>2, <4>1, <4>2 DEF SentOnce
      <4>3. CASE o \in {history[v] : v \in 1..Now}
        BY <3>2, <4>1, <4>3 DEF SentOnce
      <4> QED BY <4>2, <4>3
    <3> QED BY <1>3, <2>2, <3>1, <3>2
  <2> QED BY <1>1, <2>1, <2>2 DEF OutcomeIsTrue
<1> QED BY <1>3, <1>4, <1>5, <1>6, <1>7, <1>8

LEMMA NextDeclarations == Inv /\ [DeclarationsNext]_declarationVars => Inv'
<1> SUFFICES ASSUME Inv, [DeclarationsNext]_declarationVars PROVE Inv'
  OBVIOUS
<1>1. ASSUME NEW a \in Admins,
             \/ StartList(a) \/ ListAnswered(a) \/ ListFails(a)
             \/ Edit(a) \/ Lost(a)
      PROVE  Inv'
  BY <1>1, OwnSteps
<1>2. ASSUME NEW a \in Admins, Declare(a) PROVE Inv'
  BY <1>2, DeclareStep
<1>3. ASSUME NEW m \in inflight, Replace(m) \/ RefuseSet(m) PROVE Inv'
  BY <1>3, ReplaceStep, RefuseStep
<1>4. CASE UNCHANGED declarationVars
  <2>1. /\ history' = history /\ inflight' = inflight /\ phase' = phase /\ calls' = calls
        /\ base' = base /\ began' = began /\ ops' = ops /\ edited' = edited
        /\ Now' = Now
    BY <1>4 DEF declarationVars, admins, Now
  <2>2. DeclarationsTypeOK' BY <2>1, Zenon DEF Inv, DeclarationsTypeOK
  <2>3. FromListed' /\ SentOnce' BY <2>1 DEF Inv, FromListed, SentOnce
  <2>4. InHand' BY <2>1 DEF Inv, InHand, Has
  <2>5. Awaited' BY <2>1 DEF Inv, Awaited, Waits
  <2>6. OutcomeIsTrue' BY <2>1 DEF Inv, OutcomeIsTrue
  <2> QED BY <2>2, <2>3, <2>4, <2>5, <2>6 DEF Inv
<1> QED BY <1>1, <1>2, <1>3, <1>4 DEF DeclarationsNext

-----------------------------------------------------------------------------
(* What follows from it. *)

\* TypeOK: the host has, gets and is sent only sets that can be declared, and an
\* administrator holds only what the SDK's types can hold.
THEOREM DeclarationsTypeCorrect == DeclarationsSpec => []DeclarationsTypeOK
<1>1. Inv => DeclarationsTypeOK BY DEF Inv
<1> QED BY <1>1, InitDeclarations, NextDeclarations, PTL DEF DeclarationsSpec

\* OutcomeIsTrue: a success of DeclareOperations is the caller's set, whole and
\* admitted during the call; an error that names a refusal is one, for good.
THEOREM OutcomeIsTrueHolds == DeclarationsSpec => []OutcomeIsTrue
<1>1. Inv => OutcomeIsTrue BY DEF Inv
<1> QED BY <1>1, InitDeclarations, NextDeclarations, PTL DEF DeclarationsSpec

\* EditKeepsTheRest: what an administrator listed, edited and declared differs from
\* what the host had in the edited operation only.
THEOREM EditKeepsTheRestHolds == DeclarationsSpec => []EditKeepsTheRest
<1>1. Inv => EditKeepsTheRest
  <2> SUFFICES ASSUME FromListed PROVE EditKeepsTheRest
    BY DEF Inv
  <2> QED BY DEF FromListed, Agrees, EditKeepsTheRest
<1> QED BY <1>1, InitDeclarations, NextDeclarations, PTL DEF DeclarationsSpec

=============================================================================
