------------------------------ MODULE HttpParser ------------------------------
(***************************************************************************)
(* HttpParser, the incremental HTTP/1.1 request parser of a connection,    *)
(* as what consume() makes of a parser and the bytes it is given.          *)
(*                                                                         *)
(* The wire is a sequence of units, each counted as one byte, which say    *)
(* what they read as: line ends, start lines, header lines, chunk sizes,   *)
(* and any other bytes.  A line the code would read as malformed is one of *)
(* another kind of unit, or of more than one.  Buffers may end between any *)
(* two units, as between any two bytes.                                    *)
(***************************************************************************)
EXTENDS Integers, Sequences, SequencesExt

CONSTANTS
  MaxHeaderBytes, (* max_header_bytes_, positive                           *)
  MaxBodyBytes,   (* max_body_bytes_, positive                             *)
  MaxSizeLine,    (* 128                                                   *)
  MaxTrailerLine, (* 8 K                                                   *)
  SizeMax         (* the numbers a size_t has: sums wrap around here       *)

ASSUME ParserAssumption ==
  /\ MaxHeaderBytes \in Nat \ {0} /\ MaxBodyBytes \in Nat \ {0}
  /\ MaxSizeLine \in Nat /\ MaxTrailerLine \in Nat
  /\ SizeMax \in Nat /\ SizeMax > MaxBodyBytes

CR == <<"CR">>
LF == <<"LF">>
Start(method, path) == <<"start", method, path>>
BadStart(status)    == <<"bad start", status>>   (* with the status it gets *)
Header(name, value) == <<"header", name, value>>
Size(n)             == <<"size", n>>
Byte(x)             == <<"byte", x>>

Reads(line, kind) == Len(line) = 1 /\ line[1][1] = kind

BadNumber == -1   (* a Content-Length that strtoll does not read to its end *)

(* HttpParser::reset *)
NewParser ==
  [state |-> "StartLine", line |-> <<>>, start |-> <<>>, headers |-> <<>>,
   contentLength |-> 0, chunkRemaining |-> 0, body |-> <<>>, headerBytes |-> 0, status |-> 0]

(* fail_; what line_buf_ holds then is not read again. *)
Fail(p, status) == [p EXCEPT !.state = "Error", !.status = status, !.line = <<>>]

(* What a step of the parser returns: the parser, and what it has consumed. *)
Took(p, n) == [parser |-> p, n |-> n]

LineEnd(data) == SelectInSeq(data, LAMBDA c : c = LF)

Chomp(line) == IF line # <<>> /\ Last(line) = CR THEN Front(line) ELSE line

-----------------------------------------------------------------------------
(* parse_start_line_: empty lines between requests are tolerated. *)
StartLine(p, line) ==
  IF line = <<>> THEN p
  ELSE IF Reads(line, "start") THEN [p EXCEPT !.state = "Headers", !.start = line[1]]
  ELSE Fail(p, IF Reads(line, "bad start") THEN line[1][2] ELSE 400)

(* headers_ keeps the values of a name in order; joined with ", " they are *)
(* one value to whoever looks it up.                                       *)
HeaderOf(p, name) == IF name \in DOMAIN p.headers THEN p.headers[name] ELSE <<>>

AddHeader(p, name, value) ==
  [p EXCEPT !.headers = [m \in DOMAIN @ \cup {name} |->
     IF m = name THEN Append(HeaderOf(p, name), value) ELSE p.headers[m]]]

Complete(p) == [p EXCEPT !.state = "Complete"]

(* A list of lengths joined with ", " is no number any more.  Fault: the   *)
(* first of them counts.                                                   *)
FirstLength(p) == HeaderOf(p, "Content-Length")[1]

DeclaredLength(p) ==
  LET cl == HeaderOf(p, "Content-Length") IN IF Len(cl) = 1 THEN cl[1] ELSE BadNumber

(* The end of the headers: how the body is delimited.  A list of           *)
(* encodings that mentions chunked anywhere is taken for chunked.          *)
EndOfHeaders(p) ==
  LET te == HeaderOf(p, "Transfer-Encoding")
      cl == HeaderOf(p, "Content-Length")
      chunked == "chunked" \in Range(te)
  IN CASE te # <<>> /\ ~chunked                             -> Fail(p, 501)
       [] chunked /\ cl # <<>>                              -> Fail(p, 400)
       [] chunked /\ cl = <<>>                              -> [p EXCEPT !.state = "ChunkSize"]
       [] te = <<>> /\ cl = <<>>                            -> Complete(p)
       [] te = <<>> /\ cl # <<>> /\ DeclaredLength(p) < 0   -> Fail(p, 400)
       [] te = <<>> /\ cl # <<>> /\ DeclaredLength(p) = 0   -> Complete(p)
       [] te = <<>> /\ cl # <<>> /\ DeclaredLength(p) > MaxBodyBytes -> Fail(p, 413)
       [] OTHER -> [p EXCEPT !.state = "Body", !.contentLength = DeclaredLength(p)]

(* parse_headers_ *)
HeaderLine(p, line) ==
  IF line = <<>> THEN EndOfHeaders(p)
  ELSE IF Reads(line, "header") THEN AddHeader(p, line[1][2], line[1][3])
  ELSE Fail(p, 400)

HeadLine(p, line) == IF p.state = "StartLine" THEN StartLine(p, line) ELSE HeaderLine(p, line)

(* A line of the start-line or header section.  grow_header_bytes_ counts  *)
(* every byte; the first one past the limit is consumed and is the last.   *)
NextHeadLine(p, data) ==
  LET nl == LineEnd(data)
      n  == IF nl = 0 THEN Len(data) ELSE nl
      q  == [p EXCEPT !.headerBytes = @ + n]
  IN IF q.headerBytes > MaxHeaderBytes
     THEN Took(Fail([p EXCEPT !.headerBytes = MaxHeaderBytes + 1], 431), MaxHeaderBytes - p.headerBytes + 1)
     ELSE IF nl = 0 THEN Took([q EXCEPT !.line = @ \o data], n)
     ELSE Took(HeadLine([q EXCEPT !.line = <<>>], Chomp(p.line \o SubSeq(data, 1, nl - 1))), n)

-----------------------------------------------------------------------------
(* parse_body_ *)
TakeBody(p, data) ==
  LET need == p.contentLength - Len(p.body)
      n == IF Len(data) < need THEN Len(data) ELSE need
      q == [p EXCEPT !.body = @ \o SubSeq(data, 1, n)]
  IN Took(IF n = need THEN Complete(q) ELSE q, n)

(* grow_body_bytes_: body_storage_.size() + n, in a size_t. *)
MayGrow(p, n) == (Len(p.body) + n) % SizeMax <= MaxBodyBytes

(* parse_chunk_size_ *)
ChunkSize(p, line) ==
  IF ~Reads(line, "size") THEN Fail(p, 400)
  ELSE LET v == line[1][2] IN
    IF ~MayGrow(p, v) THEN Fail(p, 413)
    ELSE [p EXCEPT !.chunkRemaining = v, !.state = IF v = 0 THEN "ChunkTrailer" ELSE "ChunkData"]

(* parse_chunk_data_ *)
ChunkData(p, data) ==
  LET n == IF Len(data) < p.chunkRemaining THEN Len(data) ELSE p.chunkRemaining
      q == [p EXCEPT !.body = @ \o SubSeq(data, 1, n), !.chunkRemaining = @ - n]
  IN Took(IF q.chunkRemaining = 0 THEN [q EXCEPT !.state = "ChunkDataEnd"] ELSE q, n)

(* parse_chunk_data_end_: any number of CR before the LF.  Fault: they are *)
(* expected in the buffer at hand.                                         *)
EndInBuffer(p, data) ==
  IF Len(data) < 2 THEN Took(Fail(p, 400), Len(data))
  ELSE Took([p EXCEPT !.state = "ChunkSize"], LineEnd(data))

ChunkDataEnd(p, data) ==
  LET i == SelectInSeq(data, LAMBDA c : c # CR)
  IN IF i = 0 THEN Took(p, Len(data))
     ELSE Took(IF data[i] = LF THEN [p EXCEPT !.state = "ChunkSize"] ELSE Fail(p, 400), i)

(* parse_chunk_trailer_: trailers are read and dropped. *)
Trailer(p, line) ==
  IF line = <<>> THEN Complete([p EXCEPT !.contentLength = Len(p.body)]) ELSE p

ChunkLine(p, line) == IF p.state = "ChunkSize" THEN ChunkSize(p, line) ELSE Trailer(p, line)

(* A line of the chunked framing.  A byte that finds the buffer longer     *)
(* than the limit is consumed and is the last.                             *)
NextChunkLine(p, data, limit) ==
  LET nl == LineEnd(data)
      n  == IF nl = 0 THEN Len(data) ELSE nl - 1
      room == limit + 1 - Len(p.line)
  IN IF n > room THEN Took(Fail(p, 400), room + 1)
     ELSE IF nl = 0 THEN Took([p EXCEPT !.line = @ \o data], n)
     ELSE Took(ChunkLine([p EXCEPT !.line = <<>>], Chomp(p.line \o SubSeq(data, 1, n))), nl)

-----------------------------------------------------------------------------
ParseStep(p, data) ==
  CASE p.state = "StartLine"    -> NextHeadLine(p, data)
    [] p.state = "Headers"      -> NextHeadLine(p, data)
    [] p.state = "Body"         -> TakeBody(p, data)
    [] p.state = "ChunkSize"    -> NextChunkLine(p, data, MaxSizeLine)
    [] p.state = "ChunkData"    -> ChunkData(p, data)
    [] p.state = "ChunkDataEnd" -> ChunkDataEnd(p, data)
    [] p.state = "ChunkTrailer" -> NextChunkLine(p, data, MaxTrailerLine)

(* HttpParser::consume: step after step until the message is complete, an  *)
(* error is found or the buffer is used up.                                *)
RECURSIVE Consume(_, _)

Further(n, rest) == Took(rest.parser, n + rest.n)

GoOn(step, data) == Further(step.n, Consume(step.parser, SubSeq(data, step.n + 1, Len(data))))

Consume(p, data) ==
  IF data = <<>> \/ p.state \in {"Error", "Complete"} THEN Took(p, 0) ELSE GoOn(ParseStep(p, data), data)
=============================================================================
