------------------------------ MODULE HttpClient ------------------------------
(***************************************************************************)
(* http_client::request: the request it writes for a caller, and what it   *)
(* makes of the bytes that come back before the connection ends.           *)
(*                                                                         *)
(* A URL is a sequence of words and the separators "/", "@", ":".  What is *)
(* written is in the units of HttpParser.  What comes back is a head,      *)
(* whole or not there, and the units of a body.                            *)
(***************************************************************************)
EXTENDS HttpParser

CONSTANT Schemes   (* "http://" and, in a build with TLS, "https://" *)

EOL == <<CR, LF>>

NoUrl == [host |-> <<>>, port |-> "", target |-> <<>>]

From(s, i) == SubSeq(s, i, Len(s))

(* parse_url: user names are dropped, the last colon is the port's. *)
UrlAt(scheme, named, target) ==
  LET colon == SelectLastInSeq(named, LAMBDA c : c = ":")
      host  == IF colon = 0 THEN named ELSE SubSeq(named, 1, colon - 1)
  IN IF host = <<>> THEN NoUrl
     ELSE [host   |-> host,
           port   |-> CASE colon # 0                        -> From(named, colon + 1)
                        [] colon = 0 /\ scheme = "https://" -> <<"443">>
                        [] OTHER                            -> <<"80">>,
           target |-> target]

ParseUrl(url) ==
  LET rest  == Tail(url)
      slash == SelectInSeq(rest, LAMBDA c : c = "/")
      authority == IF slash = 0 THEN rest ELSE SubSeq(rest, 1, slash - 1)
  IN IF url[1] \notin Schemes THEN NoUrl
     ELSE UrlAt(url[1], From(authority, SelectInSeq(authority, LAMBDA c : c = "@") + 1),
                IF slash = 0 THEN <<"/">> ELSE From(rest, slash))

(* The caller's headers but Host and Connection, which are the client's,   *)
(* and the ones it adds when the caller has not.                           *)
HeadersOf(req, url) ==
  LET own   == SelectSeq(req.headers, LAMBDA h : h[1] \notin {"Host", "Connection"})
      names == {own[i][1] : i \in DOMAIN own}
      agent == IF "User-Agent" \in names THEN <<>> ELSE <<<<"User-Agent", "socketify">>>>
      size  == IF req.body = <<>> \/ "Content-Length" \in names THEN <<>>
               ELSE <<<<"Content-Length", Len(req.body)>>>>
  IN <<<<"Host", url.host[1]>>, <<"Connection", <<"close">>>>>> \o own \o agent \o size

Lines(lines) == FlattenSeq([i \in DOMAIN lines |-> <<lines[i]>> \o EOL])

WrittenTo(req, url, headers) ==
  Lines(<<Start(req.method, url.target)>> \o [i \in DOMAIN headers |-> Header(headers[i][1], headers[i][2])])
    \o EOL \o req.body

Written(req) == WrittenTo(req, ParseUrl(req.url), HeadersOf(req, ParseUrl(req.url)))

(* http_client::post: a body is JSON unless the caller says otherwise. *)
Get(url, headers) == [method |-> "GET", url |-> url, headers |-> headers, body |-> <<>>]

Post(url, body, headers) ==
  [method |-> "POST", url |-> url, body |-> body,
   headers |-> IF \E i \in DOMAIN headers : headers[i][1] = "Content-Type" THEN headers
               ELSE Append(headers, <<"Content-Type", "json">>)]

-----------------------------------------------------------------------------
(* dechunk: the chunks that are there whole; whatever ends it early, a     *)
(* chunk cut short among them, ends it without an error.                   *)
RECURSIVE Dechunk(_)
Dechunk(raw) ==
  LET eol == SelectInSeq([i \in DOMAIN raw |-> raw[i] = CR /\ i < Len(raw) /\ raw[i + 1] = LF],
                         LAMBDA here : here)
      size == IF eol = 2 /\ Reads(<<raw[1]>>, "size") THEN raw[1][2] ELSE 0
      data == eol + 2
      rest == From(raw, data + size)
  IN IF size = 0 \/ data - 1 + size > Len(raw) THEN <<>>
     ELSE SubSeq(raw, data, data + size - 1)
            \o Dechunk(IF IsPrefix(EOL, rest) THEN From(rest, 3) ELSE rest)

Failed(what) == [status |-> 0, body |-> <<>>, error |-> what]

(* parse_headers keeps the last value of a name. *)
LastOf(headers, name) ==
  LET i == SelectLastInSeq(headers, LAMBDA h : h[1] = name)
  IN IF i = 0 THEN <<>> ELSE <<headers[i][2]>>

(* The body: as many units as the head says when they are there, and those *)
(* that are there when they are not.  Fault: whatever follows the head.    *)
RawBody(headers, raw) == IF headers = <<>> THEN <<>> ELSE raw

BodyOf(headers, raw) ==
  LET cl == LastOf(headers, "Content-Length")
  IN CASE LastOf(headers, "Transfer-Encoding") = <<"chunked">> -> Dechunk(raw)
       [] LastOf(headers, "Transfer-Encoding") # <<"chunked">> /\ cl # <<>> /\ cl[1] \in Nat ->
            SubSeq(raw, 1, IF cl[1] < Len(raw) THEN cl[1] ELSE Len(raw))
       [] OTHER -> raw

(* What request() returns for the heads and the units that came before the *)
(* end, or before an error that a read met.                                *)
Understand(heads, raw, failed) ==
  CASE heads = <<>>                        -> Failed(IF failed /\ raw = <<>> THEN "read failed"
                                                     ELSE "malformed response")
    [] heads # <<>> /\ heads[1].status = 0 -> Failed("malformed status code")
    [] OTHER -> [status |-> heads[1].status, body |-> BodyOf(heads[1].headers, raw), error |-> ""]
=============================================================================
