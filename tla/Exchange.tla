------------------------------- MODULE Exchange -------------------------------
(***************************************************************************)
(* An exchange on one connection, from the bytes a client writes to what   *)
(* http_client makes of the answer: HttpParser, Router with its            *)
(* middlewares (Cors and StaticFiles among them), the serialization of the *)
(* response and HttpClient put together as the worker's process_input_ and    *)
(* handle_request_ do it.  How the bytes wait for the socket is            *)
(* Connection's subject; here they arrive in pieces of any size.           *)
(***************************************************************************)
EXTENDS Router, HttpClient

CONSTANTS Scenarios,   (* what may be exchanged; see Init                  *)
          TableOf(_),  (* the routing table a scenario names               *)
          DiskOf(_),   (* the files a scenario names                       *)
          MinSize      (* compression.min_size                             *)

VARIABLES conf,      (* the scenario                                       *)
          disk,      (* the files                                          *)
          wire, buf, (* units on their way, and in the worker's buffer     *)
          parser,
          decoded,   (* the messages that were complete                    *)
          replies,   (* what was answered, with how it came about          *)
          closed,    (* the worker will read no more requests              *)
          client     (* what http_client returned, or <<>>                 *)

vars == <<conf, disk, wire, buf, parser, decoded, replies, closed, client>>

-----------------------------------------------------------------------------
(* Request::header and the like: the one value of a header, or a default   *)
(* when it is absent or a list; or the text of them all.                   *)
ValueOf(p, name, default) ==
  LET values == HeaderOf(p, name) IN IF Len(values) = 1 THEN values[1] ELSE default

TextOf(p, name) ==
  LET values == HeaderOf(p, name)
  IN FlattenSeq([i \in DOMAIN values |-> IF i = 1 THEN values[i] ELSE <<",", " ">> \o values[i]])

Marks(units) ==
  [i \in DOMAIN units |-> CASE units[i] = CR           -> "\r"
                           [] units[i] = LF           -> "\n"
                           [] units[i][1] = "byte"    -> units[i][2]
                           [] OTHER                   -> "other"]

(* The target of a start line: the path and, behind a "?", the query. *)
PathOf(target) ==
  LET q == FindMark(target, "?") IN IF q = 0 THEN target ELSE SubSeq(target, 1, q - 1)

QueryOf(target) ==
  LET q == FindMark(target, "?") IN IF q = 0 THEN <<>> ELSE PartOf(target, q + 1)

(* The request that handle_request_ makes of a complete message, with what *)
(* body::form and body::multipart tell a handler of it.                    *)
RequestOf(p) ==
  LET path == PathOf(p.start[3])
      decodes == WellEscaped(path) /\ FindMark(Unescaped(path, FALSE), "NUL") = 0
      type == TextOf(p, "Media-Type")
  IN
  [method       |-> p.start[2],
   decodes      |-> decodes,
   path         |-> IF decodes THEN Unescaped(path, FALSE) ELSE <<>>,
   query        |-> ParseQueryString(QueryOf(p.start[3])),
   cookies      |-> ParseCookieHeader(TextOf(p, "Cookie")),
   form         |-> ParseQueryString(Marks(p.body)),
   multipart    |-> Multipart(type, Marks(p.body)),
   upgrade      |-> TextOf(p, "Upgrade"),
   key          |-> TextOf(p, "Key"),
   version      |-> TextOf(p, "Version"),
   protocols    |-> TextOf(p, "Protocols"),
   origin       |-> ValueOf(p, "Origin", ""),
   wantsMethod  |-> ValueOf(p, "Request-Method", ""),
   wantsHeaders |-> ValueOf(p, "Request-Headers", ""),
   wantsNetwork |-> HeaderOf(p, "Request-Network") = <<"true">>,
   noneMatch    |-> ValueOf(p, "None-Match", <<>>),
   since        |-> ValueOf(p, "Since", -1),
   hasRange     |-> HeaderOf(p, "Range") # <<>>,
   range        |-> ValueOf(p, "Range", <<>>),
   id           |-> ValueOf(p, "Request-Id", "new id"),
   accepts      |-> ValueOf(p, "Accept-Encoding", {}),
   connection   |-> TextOf(p, "Connection"),
   bodySize     |-> Len(p.body)]

(* wants_close_, for the versions of HTTP that keep a connection. *)
WantsClose(req, res) ==
  \/ req.connection = <<"close">>
  \/ req.connection # <<"keep-alive">> /\ HeaderIn(res, "Connection", "") = "close"

(* compression: the encoding a buffered body of enough units gets. *)
Encoding(c, req, res) ==
  IF ~c.compress \/ res.kind # "Buffered" \/ res.body = <<>> \/ Len(res.body) < MinSize
       \/ HasHeader(res, "Content-Encoding") \/ HeaderIn(res, "Content-Type", "") = "image"
  THEN ""
  ELSE CASE "gzip" \in req.accepts                                    -> "gzip"
         [] "gzip" \notin req.accepts /\ "deflate" \in req.accepts    -> "deflate"
         [] OTHER                                                     -> ""

(* What is sent of a file that was opened: the bytes from the offset on,   *)
(* up to the length or to the end that the file has now.                   *)
BytesOf(file, res) ==
  LET there == {n \in 1..res.length : res.offset + n <= file.size}
  IN [n \in there |-> <<file.version, res.offset + n - 1>>]

(* What serialize_response_ puts on the wire, and the file after it.  The  *)
(* length is the server's own, whatever a handler has set.                 *)
Serialize(c, req, res, file) ==
  LET encoding == Encoding(c, req, res)
      bytes == CASE res.kind = "File" -> BytesOf(file, res)
                 [] res.kind = "Buffered" /\ encoding # "" -> <<encoding>>
                 [] res.kind = "Buffered" /\ encoding = "" -> res.body
                 [] OTHER -> <<>>
      own   == [n \in {"Connection"} |-> CASE res.kind = "Pulse" -> "Upgrade"
                                          [] res.kind = "Stream" \/ WantsClose(req, res) -> "close"
                                          [] OTHER -> "keep-alive"]
      sized == CASE res.kind = "Buffered" -> "Content-Length" :> Len(bytes)
                 [] res.kind = "File"     -> "Content-Length" :> res.length
                 [] OTHER                 -> <<>>
      given == IF res.cookies = <<>> THEN <<>> ELSE "Set-Cookie" :> res.cookies
      rest  == Restrict(res.headers, DOMAIN res.headers \ {"Content-Length", "Connection"})
      typed == IF res.kind = "Buffered" /\ bytes # <<>> /\ ~HasHeader(res, "Content-Type")
               THEN "Content-Type" :> "text" ELSE <<>>
      packed == CASE encoding = ""                                -> <<>>
                  [] encoding # "" /\ HasHeader(res, "Vary")      -> "Content-Encoding" :> encoding
                  [] OTHER -> ("Content-Encoding" :> encoding) @@ ("Vary" :> {"Accept-Encoding"})
  IN [status  |-> IF res.status = 0 THEN 200 ELSE res.status,
      headers |-> own @@ sized @@ given @@ packed @@ typed @@ rest,
      body    |-> IF req.method = "HEAD" THEN <<>> ELSE bytes]

ErrorReply(status) ==
  Serialize([compress |-> FALSE], [method |-> "GET", accepts |-> {}, connection |-> <<"close">>],
            Send(SetStatus(NewResponse, status), <<"error">>), Missing)

-----------------------------------------------------------------------------
Init ==
  /\ conf \in Scenarios
  /\ disk = conf.disk
  /\ wire = conf.wire
  /\ buf = <<>>
  /\ parser = NewParser
  /\ decoded = <<>>
  /\ replies = <<>>
  /\ closed = FALSE
  /\ client = <<>>

(* The next units reach the worker: all of them, or any number of them. *)
Arrive ==
  /\ buf = <<>> /\ wire # <<>> /\ ~closed
  /\ \E n \in IF conf.whole THEN {Len(wire)} ELSE 1..Len(wire) :
       /\ buf' = SubSeq(wire, 1, n)
       /\ wire' = From(wire, n + 1)
  /\ UNCHANGED <<conf, disk, parser, decoded, replies, closed, client>>

(* process_input_ feeds its parser. *)
Parse ==
  /\ buf # <<>> /\ parser.state \notin {"Complete", "Error"} /\ ~closed
  /\ \E step \in {Consume(parser, buf)} :
       parser' = step.parser /\ buf' = From(buf, step.n + 1)
  /\ UNCHANGED <<conf, disk, wire, decoded, replies, closed, client>>

(* process_input_ on a parser in error: queue_error_response_, and no more.   *)
Refuse ==
  /\ parser.state = "Error" /\ ~closed
  /\ replies' = Append(replies, [ran |-> <<>>, req |-> <<>>, out |-> ErrorReply(parser.status)])
  /\ closed' = TRUE
  /\ UNCHANGED <<conf, disk, wire, buf, parser, decoded, client>>

Decoded(p) == [start |-> p.start, body |-> p.body]

(* A file with something to send is opened once more when its head has     *)
(* been written; when it is gone by then, the connection ends.             *)
ToOpen(req, res) == res.kind = "File" /\ req.method # "HEAD" /\ res.length > 0

Vanished(req, res, file) == ToOpen(req, res) /\ file.kind # "file"

(* handle_request_: a path that cannot be decoded is refused, any other    *)
(* dispatched.  A static middleware looks at the disk and tries a file on  *)
(* it, which is opened for good once the head of the response is written;  *)
(* another process may replace files, or take them away, between any two   *)
(* of the three looks.                                                     *)
HandleRequest ==
  /\ parser.state = "Complete" /\ ~closed
  /\ \E req \in {RequestOf(parser)} :
       \/ /\ ~req.decodes
          /\ replies' = Append(replies, [ran |-> <<>>, req |-> req, out |-> ErrorReply(400)])
          /\ closed' = TRUE
          /\ UNCHANGED disk
       \/ /\ req.decodes
          /\ \E probed, opened \in {conf.disk, conf.later} :
             \E d \in {Dispatch(TableOf(conf.table), req, <<DiskOf(disk), DiskOf(probed)>>)} :
             \E file \in {EntryAt(DiskOf(opened), d.res.path)} :
               /\ disk' = opened
               /\ replies' = Append(replies, [ran |-> d.ran, req |-> req, res |-> d.res,
                                              out |-> Serialize(conf, req, d.res, file), sent |-> 0,
                                              looks |-> <<disk, probed, opened>>])
               /\ closed' = (\/ d.res.kind \in {"Stream", "Pulse"}
                             \/ WantsClose(req, d.res)
                             \/ Vanished(req, d.res, file))
  /\ decoded' = Append(decoded, Decoded(parser))
  /\ parser' = NewParser
  /\ UNCHANGED <<conf, wire, buf, client>>

(* The application's thread sends the next event on the stream that the    *)
(* connection has become.                                                  *)
SendEvent ==
  /\ \E i \in DOMAIN replies :
       /\ "res" \in DOMAIN replies[i] /\ replies[i].res.kind = "Stream"
       /\ replies[i].sent < Len(conf.events)
       /\ LET event == conf.events[replies[i].sent + 1]
              text  == IF event.comment # <<>> THEN CommentText(event.comment)
                       ELSE EventText(event.event, event.data, event.id)
          IN replies' = [replies EXCEPT ![i].out.body = @ \o text, ![i].sent = @ + 1]
  /\ UNCHANGED <<conf, disk, wire, buf, parser, decoded, closed, client>>

(* http_client::request reads until the end of the connection, which may   *)
(* come early, or until a read fails.                                      *)
HeadersOnWire(out) ==
  LET names == SetToSeq(DOMAIN out.headers)
  IN [i \in DOMAIN names |-> <<names[i], out.headers[names[i]]>>]

ClientReads ==
  /\ conf.client /\ closed /\ client = <<>>
  /\ LET out  == replies[1].out
         head == [status |-> out.status, headers |-> HeadersOnWire(out)]
     IN \E heads \in {<<>>, <<head>>}, n \in 0..Len(out.body), failed \in BOOLEAN :
          /\ heads = <<>> => n = 0
          /\ client' = <<[came |-> heads # <<>>, upto |-> n,
                          got |-> Understand(heads, SubSeq(out.body, 1, n), failed)]>>
  /\ UNCHANGED <<conf, disk, wire, buf, parser, decoded, replies, closed>>

(* A server of another make answers, with a body that is chunked. *)
ForeignServer ==
  /\ conf.foreign # <<>> /\ replies = <<>>
  /\ replies' = <<[ran |-> <<>>, req |-> <<>>, out |-> conf.foreign[1]]>>
  /\ closed' = TRUE
  /\ UNCHANGED <<conf, disk, wire, buf, parser, decoded, client>>

Next == Arrive \/ Parse \/ Refuse \/ HandleRequest \/ SendEvent \/ ClientReads \/ ForeignServer

Spec == Init /\ [][Next]_vars

-----------------------------------------------------------------------------
(* What has arrived, however it was cut into reads, is taken for the same  *)
(* messages, and leaves the parser in the same state, as if it had come in *)
(* one read: HttpParser keeps all it needs between two calls of consume(). *)
RECURSIVE Whole(_, _, _)

WholeFrom(step, rest, messages) ==
  IF step.parser.state = "Complete" /\ rest # <<>>
  THEN Whole(NewParser, rest, Append(messages, Decoded(step.parser)))
  ELSE [parser |-> step.parser, messages |-> messages]

WholeOf(step, data, messages) == WholeFrom(step, From(data, step.n + 1), messages)

Whole(p, data, messages) == WholeOf(Consume(p, data), data, messages)

Consumed == SubSeq(conf.wire, 1, Len(conf.wire) - Len(wire) - Len(buf))

AllOf(got) ==
  IF got.parser.state = "Complete" THEN <<NewParser, Append(got.messages, Decoded(got.parser))>>
                                   ELSE <<got.parser, got.messages>>

FragmentsDoNotMatter ==
  AllOf([parser |-> parser, messages |-> decoded]) = AllOf(Whole(NewParser, Consumed, <<>>))

Endless == -1   (* of a message with a chunk of nearly SizeMax bytes *)

(* Messages are told apart as their sender meant them: those decoded are   *)
(* the first ones sent, with the body that was sent, up to the first that  *)
(* is refused, which is refused with the status it deserves and ends the   *)
(* conversation; no more of any of them is kept than the limits allow, but *)
(* of a chunk so long that body_storage_.size() + n wraps around: it gets  *)
(* past the limit, and whatever follows is kept as its data for as long as *)
(* it comes, against http_parser.h line 50 ("exceeded limits set Error")   *)
(* and API.md line 198 ("413 on overflow").                                *)
(* conf.meant lists the messages, and last, with a status, one to be       *)
(* refused, or one that never ends.                                        *)
Framed ==
  LET last    == IF conf.meant = <<>> THEN 0 ELSE Last(conf.meant).status
      endless == last = Endless
      refused == last \notin {0, Endless}
      good    == IF refused \/ endless THEN Front(conf.meant) ELSE conf.meant
  IN /\ \A i \in DOMAIN decoded :
          i \in DOMAIN good /\ decoded[i] = [start |-> good[i].start, body |-> good[i].body]
     /\ parser.state = "Error" => refused /\ parser.status = last
     /\ wire = <<>> /\ buf = <<>> /\ conf.meant # <<>> /\ ~closed
          => parser.state = CASE Len(decoded) = Len(conf.meant)                     -> "StartLine"
                              [] Len(decoded) = Len(good) /\ refused                -> "Error"
                              [] Len(decoded) = Len(good) /\ endless                -> "ChunkData"
                              [] Len(decoded) < Len(good)                           -> "Complete"
     /\ parser.headerBytes > MaxHeaderBytes => parser.state = "Error"
     /\ Len(parser.body) > MaxBodyBytes
          => endless /\ parser.state = "ChunkData" /\ Len(parser.body) + parser.chunkRemaining >= SizeMax
     /\ Len(replies) <= Len(conf.meant) \/ conf.meant = <<>>

(* The replies that a dispatch produced. *)
Dispatched == {i \in DOMAIN replies : "res" \in DOMAIN replies[i]}

(* The names of a path match those of a pattern, of which only the last    *)
(* may stand for any number.                                               *)
CoversFixed(fixed, open, names) ==
  /\ IF open THEN Len(names) >= Len(fixed) ELSE Len(names) = Len(fixed)
  /\ \A i \in DOMAIN fixed : KindOf(fixed[i]) = "static" => names[i] = fixed[i]

CoversBy(segs, names) ==
  IF segs # <<>> /\ KindOf(Last(segs)) = "wildcard" THEN CoversFixed(Front(segs), TRUE, names)
                                                    ELSE CoversFixed(segs, FALSE, names)

Covers(pattern, path) == CoversBy(Compile(pattern), Split(path))

NamesOf(middlewares) == [i \in DOMAIN middlewares |-> middlewares[i].name]

(* All that is declared for route k, in the order it has to run in: what   *)
(* is global, what its groups have, its own, its handler.                  *)
DeclaredFor(t, k) ==
  LET route  == t.routes[k]
      groups == SelectSeq(t.groups, LAMBDA g : IsPrefix(Split(g.prefix), Split(route.pattern)))
  IN NamesOf(t.global) \o FlattenSeq([i \in DOMAIN groups |-> NamesOf(groups[i].middlewares)])
       \o NamesOf(route.middlewares) \o <<route.handler.name>>

Finishers == {"send", "json", "error", "status", "end", "redirect", "channel", "stream"}

Takes(route, method) ==
  route.method \in {"ANY", method} \/ (route.method = "GET" /\ method = "HEAD")

(* When its handler has run, the route is the one meant, and all that was  *)
(* declared before has run.                                                *)
RanRightly(t, r, k, fitting) ==
  LET handler == t.routes[k].handler
      at      == SelectInSeq(r.ran, LAMBDA name : name = handler.name)
      say     == SelectInSeq(handler.calls, LAMBDA call : call \in Finishers)
      threw   == "throw" \in Range(handler.calls)
      wrote   == {n \in 1..(say - 1) : handler.calls[n] = "write"}
      times   == Cardinality({n \in DOMAIN r.ran : r.ran[n] = handler.name})
  IN at # 0 =>
       /\ k \in fitting /\ \A l \in fitting : k <= l
       /\ SubSeq(r.ran, 1, at) = DeclaredFor(t, k)
       /\ say # 0 => times = 1
       /\ (r.res.status = 500) = threw
       /\ ~threw /\ say # 0 /\ handler.calls[say] = "end" => Len(r.res.body) = Cardinality(wrote)
       /\ ~threw /\ say # 0 /\ handler.calls[say] = "json" => r.res.body = <<"json">>

RefusedRightly(t, r, covering, fitting) ==
  LET methods == {t.routes[k].method : k \in covering}
  IN /\ (\A n \in DOMAIN t.global : t.global[n].does # "static") /\ r.res.status = 405
          => /\ covering # {} /\ fitting = {}
             /\ Range(r.res.headers["Allow"]) = methods \cup (IF "GET" \in methods THEN {"HEAD"} ELSE {})
     /\ fitting = {} /\ ToSet(r.ran) = ToSet(NamesOf(t.global)) /\ r.res.body = <<"not found">>
          => covering = {}

(* Requests reach the handler they are meant for, by the whole chain       *)
(* declared for it.  A handler runs only when its route is the first that  *)
(* covers the path and takes the method, and after everything declared     *)
(* before it has run; one that finishes the response runs once, whatever   *)
(* calls next() how often; what it said first is what is answered, unless  *)
(* it throws, which is a 500; a path that only other methods have is       *)
(* answered 405 with all of those methods.                                 *)
Routed ==
  \A i \in Dispatched :
    \E t \in {TableOf(conf.table)} :
    \E covering \in {{k \in DOMAIN t.routes : Covers(t.routes[k].pattern, replies[i].req.path)}} :
      LET fitting == {k \in covering : Takes(t.routes[k], replies[i].req.method)}
      IN /\ \A k \in DOMAIN t.routes : RanRightly(t, replies[i], k, fitting)
         /\ RefusedRightly(t, replies[i], covering, fitting)

(* The bytes of a file that a range asks for. *)
AskedBytes(range, size) ==
  {n \in 0..(size - 1) :
     IF range[1] = -1 THEN n >= size - range[2]
     ELSE n >= range[1] /\ (range[2] = -1 \/ n <= range[2])}

(* A file is answered with what the request asked of it.  A 206 is for     *)
(* exactly the bytes asked for that the file had when it was looked at,    *)
(* all of which it still had when it was tried, and says so; a 200 for the *)
(* whole of it; a 416 comes only when no byte was asked for; a 304 only    *)
(* when a validator of the request is the file's.  The last bytes of an    *)
(* empty file are answered 206 with none of them, as "bytes 0-0/0".        *)
(* What follows the head is of one version of the file, however often it   *)
(* is replaced: the bytes at the places asked for that it has when it is   *)
(* opened, be it another version than the head speaks of.  They are fewer  *)
(* than the head says only if the file has become shorter since it was     *)
(* tried; if it is gone, there are none and the connection ends.           *)
(* Nothing with a dot segment, hidden or outside the root is answered.     *)
FileHonest(r, seen, probed, opened) ==
  LET res    == r.res
      places == res.offset..(res.offset + res.length - 1)
      range  == res.headers["Content-Range"]
      said   == [n \in 1..res.length |-> <<opened.version, res.offset + n - 1>>]
  IN /\ seen.kind = "file" /\ res.headers["ETag"] = ETag(seen)
     /\ \A n \in DOMAIN res.path : res.path[n][1] \notin {".", ".."}
     /\ res.status \in {0, 200} => places = 0..(seen.size - 1)
     /\ res.status = 206 =>
          /\ places = AskedBytes(r.req.range, seen.size) /\ range[3] = seen.size
          /\ IF seen.size > 0 THEN places = range[1]..range[2]
                              ELSE range = <<0, 0, 0>> /\ r.req.range[1] = -1
     /\ places \subseteq 0..(probed.size - 1)
     /\ r.out.headers["Content-Length"] = res.length
     /\ IF r.req.method = "HEAD" \/ opened.kind # "file" THEN r.out.body = <<>>
        ELSE /\ IsPrefix(r.out.body, said)
             /\ Len(r.out.body) < res.length => res.offset + Len(r.out.body) = Max({opened.size, res.offset})
     /\ r.req.method # "HEAD" /\ res.length > 0 /\ opened.kind # "file" => closed

FilesHonest ==
  \A i \in Dispatched :
    LET r    == replies[i]
        res  == r.res
        At(n) == EntryAt(DiskOf(r.looks[n]), res.path)
    IN /\ res.kind = "File" => FileHonest(r, At(1), At(2), At(3))
       /\ res.status = 416 =>
            r.req.range \in {<<>>, <<-1, -1>>} \/ AskedBytes(r.req.range, res.headers["Content-Range"][2]) = {}
       /\ res.status = 304 => r.req.noneMatch = res.headers["ETag"]
                                \/ r.req.since >= res.headers["Last-Modified"]

(* Another origin reads an answer only if the configuration lets it: the   *)
(* origin allowed is the request's or "*", never "*" to a request with     *)
(* credentials; an answer for one origin of several says that it varies;   *)
(* a preflight the middleware answers reaches no handler.  An answer that  *)
(* allows nobody does not say that it varies, against the comment at       *)
(* cors.cpp line 76 ("response depends on Origin either way"): a cache may *)
(* give it to the origin that is allowed.                                  *)
CorsHonest ==
  \A i \in Dispatched :
    LET r == replies[i]
        t == TableOf(conf.table)
        first == t.global[1]
        o     == first.options
        value == HeaderIn(r.res, "Allow-Origin", "")
        varies == "Origin" \in HeaderIn(r.res, "Vary", {})
        handlers == {t.routes[k].handler.name : k \in DOMAIN t.routes}
    IN t.global # <<>> /\ first.does = "cors" =>
         /\ value \in {"", "*", r.req.origin}
         /\ value = "*" => HeaderIn(r.res, "Allow-Credentials", "") # "true"
         /\ value \notin {"", o.allow} => o.reflect
         /\ varies <=> value # "" /\ (o.reflect \/ o.allow # "*")
         /\ r.req.origin # "" /\ IsPreflight(r.req) /\ ~o.preflightContinue
              => ToSet(r.ran) \cap handlers = {}

(* What an EventSource makes of a stream: fields are collected line by     *)
(* line and dispatched at an empty one; an id stays until the next.        *)
EventsOf(text) ==
  LET none == [data |-> <<>>, event |-> <<>>, id |-> <<>>, got |-> <<>>]
      Line(s, line) ==
        CASE line = <<>> -> [none EXCEPT !.id = s.id, !.got = IF s.data = <<>> THEN s.got ELSE
                               Append(s.got, [event |-> s.event, data |-> Front(s.data), id |-> s.id])]
          [] line # <<>> /\ line[1] = "data"  -> [s EXCEPT !.data = @ \o PartOf(line, 4) \o <<"\n">>]
          [] line # <<>> /\ line[1] = "event" -> [s EXCEPT !.event = PartOf(line, 4)]
          [] line # <<>> /\ line[1] = "id"    -> [s EXCEPT !.id = PartOf(line, 4)]
          [] OTHER -> s
  IN FoldLeft(Line, none, Pieces(text, "\n")).got

(* The events of a stream, with the ids they have there. *)
EventsSent(events) ==
  LET named(i) == {j \in 1..i : events[j].id # <<>>}
      id(i) == IF named(i) = {} THEN <<>> ELSE events[Max(named(i))].id
      all == [i \in DOMAIN events |-> [event |-> events[i].event, data |-> events[i].data, id |-> id(i)]]
      told == SelectSeq([i \in DOMAIN events |-> i], LAMBDA i : events[i].comment = <<>>)
  IN [i \in DOMAIN told |-> all[told[i]]]

(* What one side writes is what the other side reads.  A handler finds in  *)
(* the query, the form, the cookies and the parts of a request what the    *)
(* client encoded into them, whatever marks it consists of; of parts that  *)
(* were cut short it gets none, except where the cut is right behind a     *)
(* delimiter or one mark behind it: there the parts before it pass for all *)
(* of them, against the comment at body.h lines 61-62, by which a payload  *)
(* that is malformed gives nullopt.  A connection becomes a channel        *)
(* exactly when the handshake asks for one, with the first protocol of the *)
(* client that the server knows.  An EventSource gets the events that were *)
(* sent.  conf.said is what was meant, by request: of parts also where     *)
(* each delimiter ends and how much of the text was sent.                  *)
PartsHeard(said) ==
  LET cuts == {k \in DOMAIN said.ends : said.length - said.ends[k] \in {0, 1}}
      all  == said.length >= Last(said.ends)
  IN IF all THEN <<SortedOut(said.parts)>>
     ELSE IF cuts = {} THEN <<>>
     ELSE <<SortedOut(SubSeq(said.parts, 1, Max(cuts) - 1))>>

Heard ==
  \A i \in Dispatched \cap DOMAIN conf.said :
    LET r    == replies[i]
        said == conf.said[i]
        Says(what) == what \in DOMAIN said
    IN /\ Says("query")   => r.req.query = said.query
       /\ Says("form")    => r.req.form = said.form
       /\ Says("cookies") => r.req.cookies = said.cookies
       /\ Says("parts")   => r.req.multipart = PartsHeard(said)
       /\ Says("asks")    => (r.res.kind = "Pulse") = said.asks
       /\ r.res.kind = "Pulse" => HeaderIn(r.out, "Protocol", <<>>) = said.protocol
       /\ r.res.kind = "Stream" => EventsOf(r.out.body) = EventsSent(SubSeq(conf.events, 1, r.sent))

(* http_client returns what was answered when all of it came, and fails    *)
(* with a status of 0 and an error when there is no whole head.  When the  *)
(* connection ends, or a read fails or times out, in the body, it returns  *)
(* the status and no error with what is there of the body: of a chunked    *)
(* one the chunks that are whole.  That is against http_client.h lines     *)
(* 16-17 and 45, by which a request that failed has the status 0: a caller *)
(* cannot tell such an answer from a whole one.  conf.content is what is   *)
(* in another server's body, and where each piece of it is complete.       *)
Understood ==
  client # <<>> =>
    LET got    == client[1].got
        out    == replies[1].out
        own    == [n \in DOMAIN out.body |-> [at |-> n, data |-> <<out.body[n]>>]]
        pieces == IF conf.foreign # <<>> THEN conf.content ELSE own
        there  == SelectSeq(pieces, LAMBDA piece : piece.at <= client[1].upto)
    IN IF client[1].came
       THEN got = [status |-> out.status, error |-> "",
                   body |-> FlattenSeq([n \in DOMAIN there |-> there[n].data])]
       ELSE got.status = 0 /\ got.error # "" /\ got.body = <<>>
=============================================================================
