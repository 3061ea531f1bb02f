------------------------------- MODULE Response -------------------------------
(***************************************************************************)
(* socketify::Response: what each call of a handler or a middleware makes  *)
(* of the response.  The first call that finishes it is the one that       *)
(* counts; status() and set_header() have no such guard.                   *)
(*                                                                         *)
(* A body is a sequence of words, a header value whatever its reader       *)
(* compares it with.                                                       *)
(***************************************************************************)
EXTENDS Integers, Sequences, TLC

NewResponse ==
  [status |-> 0, headers |-> <<>>, cookies |-> <<>>, body |-> <<>>, kind |-> "Buffered",
   path |-> <<>>, offset |-> 0, length |-> 0, ended |-> FALSE]

HasHeader(res, name) == name \in DOMAIN res.headers

HeaderIn(res, name, default) == IF HasHeader(res, name) THEN res.headers[name] ELSE default

SetStatus(res, status) == [res EXCEPT !.status = status]

SetHeader(res, name, value) == [res EXCEPT !.headers = (name :> value) @@ @]

SetCookie(res, text) == [res EXCEPT !.cookies = Append(@, text)]

SetContentType(res, type) ==
  IF HasHeader(res, "Content-Type") THEN res ELSE SetHeader(res, "Content-Type", type)

(* Ends with 200 when no status has been set. *)
Finished(res) == [res EXCEPT !.ended = TRUE, !.status = IF @ = 0 THEN 200 ELSE @]

Send(res, body) ==
  IF res.ended THEN res ELSE Finished([SetContentType(res, "text") EXCEPT !.body = body])

Json(res, body) ==
  IF res.ended THEN res ELSE Finished([SetHeader(res, "Content-Type", "json") EXCEPT !.body = body])

JsonError(res, status) == IF res.ended THEN res ELSE Json(SetStatus(res, status), <<"error">>)

SendStatus(res, status) == IF res.ended THEN res ELSE Send(SetStatus(res, status), <<"reason">>)

Write(res, chunk) == IF res.ended THEN res ELSE [res EXCEPT !.body = @ \o chunk]

End(res) == IF res.ended THEN res ELSE Finished(res)

Redirect(res, url) ==
  IF res.ended THEN res
  ELSE [SetHeader(SetHeader(SetStatus(res, 302), "Location", url), "Content-Type", "html")
          EXCEPT !.body = <<"redirecting">>, !.ended = TRUE]

(* send_file and send_file_range open the file to see that it is long      *)
(* enough, and close it; `size' is its length then, or -1 when it cannot   *)
(* be opened.  What they keep is its path.  They leave a status that is    *)
(* not set unset.                                                          *)
SendFileRange(res, path, size, offset, length) ==
  IF res.ended \/ size < 0 \/ offset + length > size THEN res
  ELSE [SetContentType(res, "file") EXCEPT !.kind = "File", !.path = path, !.offset = offset,
          !.length = length, !.ended = TRUE]

SendFile(res, path, size) == SendFileRange(res, path, size, 0, size)

(* mark_stream, mark_pulse: the connection becomes a stream or a channel,  *)
(* even of a response that has ended.                                      *)
Mark(res, kind) == [res EXCEPT !.kind = kind, !.ended = TRUE]
=============================================================================
