------------------------------ MODULE MCExchange ------------------------------
(***************************************************************************)
(* Instances of Exchange: four families of scenarios, each small in all    *)
(* that it is not about.                                                   *)
(***************************************************************************)
EXTENDS Exchange

Paths == {<<"/">>, <<"/", "a">>, <<"/", "a", "/", "b">>, <<"/", "a", "/", "c", "/">>,
          <<"/", "a", "b">>, <<"/", "w">>, <<"/", "w", "/", "x", "/", "y">>,
          <<"/", "/", "a", "/", "/", "b">>}
Files == {<<"/", "s", "/", "f">>, <<"/", "s", "f">>, <<"/", "s", "/", "e">>, <<"/", "s", "/", "d">>,
          <<"/", "s", "/", "n">>, <<"/", "s", "/", ".", "h">>, <<"/", "s", "/", "..", "/", "f">>,
          <<"/", "s", "/", "out">>}
Methods == {"GET", "HEAD", "POST", "DELETE", "OPTIONS"}

Ranges == {<<>>, <<-1, -1>>, <<-1, 0>>, <<-1, 2>>, <<-1, 9>>, <<0, -1>>, <<1, 1>>, <<0, 9>>,
           <<2, 1>>, <<3, -1>>, <<2, 2>>}

X == Byte("x")
Y == Byte("y")
T == Byte("t")

MCCharOf(n) ==
  CASE n = 0 -> "NUL" [] n = 32 -> " " [] n = 37 -> "%" [] n = 38 -> "&" [] n = 43 -> "+"
    [] n = 47 -> "/" [] n = 61 -> "=" [] n = 107 -> "k" [] OTHER -> "other"

Message(method, path, headers, body) ==
  [units |-> Lines(<<Start(method, path)>>
                     \o [i \in DOMAIN headers |-> Header(headers[i][1], headers[i][2])])
               \o EOL \o body,
   start |-> Start(method, path), body |-> body, status |-> 0]

Refused(message, status) == [message EXCEPT !.status = status]

-----------------------------------------------------------------------------
(* Tables. *)
Does(name, does) == [name |-> name, does |-> does]
Says(name, calls) == [name |-> name, does |-> "handle", calls |-> calls]

Route(method, pattern, name, middlewares, calls) ==
  [method |-> method, pattern |-> pattern, middlewares |-> middlewares, handler |-> Says(name, calls)]

Table(global, groups, calls) ==
  [global |-> global, groups |-> groups, routes |->
    <<Route("GET", <<"/", "a", "/", ":", "x">>, "param", <<Does("own", "next")>>, calls),
      Route("POST", <<"/", "a", "/", "b">>, "exact", <<>>, calls),
      Route("GET", <<"/", "a", "/", "b">>, "shadowed", <<>>, calls),
      Route("ANY", <<"/", "w", "/", "*", "rest", "/", "z">>, "rest", <<>>, calls),
      Route("POST", <<"/", "a", "b">>, "boundary", <<>>, calls),
      Route("GET", GroupPattern(<<"/", "a", "/">>, <<"/">>), "group", <<>>, calls),
      Route("GET", <<"/">>, "root", <<>>, calls)>>]

Groups == <<[prefix |-> <<"/", "a">>, middlewares |-> <<Does("members", "next")>>],
            [prefix |-> <<"/", "a", "/", "b">>, middlewares |-> <<Does("inner", "next twice")>>],
            [prefix |-> <<"/", "w", "/">>, middlewares |-> <<[name |-> "limit", does |-> "body limit",
                                                            limit |-> 1]>>]>>

Globals == <<<<>>, <<Does("rid", "request id"), Does("twice", "next twice")>>,
             <<[name |-> "late", does |-> "after", calls |-> <<"created", "send">>]>>,
             <<Says("silent", <<>>), Does("rid", "request id")>>,
             <<Does("rid", "request id"), Says("early", <<"write", "status">>)>>>>

Calls == <<<<"send", "json">>, <<"write", "write", "end", "json">>, <<"json", "throw">>, <<"write">>,
           <<"write", "throw">>, <<"created", "error">>, <<"redirect", "end">>, <<"json", "created">>>>

Middleware(does, options) == <<[name |-> does, does |-> does, options |-> options]>>

MCTableOf(t) ==
  CASE t[1] = "plain"  -> Table(<<>>, <<>>, Calls[t[2]])
    [] t[1] = "routes" -> Table(Globals[t[2]], Groups, Calls[t[3]])
    [] t[1] = "cors"   -> Table(Middleware("cors", t[2]), <<>>, Calls[2])
    [] t[1] = "static" -> Table(Middleware("static", t[2]), <<>>, Calls[1])
    [] t[1] = "does"   -> Table(<<>>, <<>>, t[2])

(* Files, and what becomes of them between the looks at them. *)
Entry(kind, size, time, version) == [kind |-> kind, size |-> size, time |-> time, version |-> version]

MCDiskOf(d) ==
  LET f == CASE d = 1 -> Entry("file", 3, 5, 1) [] d = 2 -> Entry("file", 1, 6, 7)
             [] d = 3 -> Entry("file", 5, 6, 8) [] OTHER -> Missing
  IN (<<<<"f">>>> :> f) @@ (<<<<"e">>>> :> Entry("file", 0, 5, 2))
       @@ (<<<<"d">>>> :> Entry("dir", 0, 5, 3)) @@ (<<<<"d">>, <<"index">>>> :> Entry("file", 2, 5, 4))
       @@ (<<<<".", "h">>>> :> Entry("file", 2, 5, 5)) @@ (<<<<"out">>>> :> Entry("outside", 2, 5, 6))

Base == [wire |-> <<>>, meant |-> <<>>, table |-> <<"plain", 1>>, compress |-> FALSE, disk |-> 1,
         later |-> 1, whole |-> TRUE, client |-> FALSE, foreign |-> <<>>, content |-> <<>>,
         said |-> <<>>, events |-> <<>>]

Sends(base, messages) ==
  [base EXCEPT !.wire = FlattenSeq([i \in DOMAIN messages |-> messages[i].units]),
               !.meant = [i \in DOMAIN messages |-> [start |-> messages[i].start,
                           body |-> messages[i].body, status |-> messages[i].status]]]

-----------------------------------------------------------------------------
(* Framing: one or two messages cut anywhere, the last of them possibly    *)
(* one to be refused.                                                      *)
Chunked == <<<<"Transfer-Encoding", "chunked">>>>

(* A chunk that wraps around past the limit, and what follows it. *)
Unending ==
  [Message("POST", <<"/">>, Chunked, <<Size(1), LF, X, LF, Size(SizeMax - 1), LF>> \o [i \in 1..(MaxBodyBytes + 1) |-> Y])
     EXCEPT !.status = Endless]

Good == {
  Message("GET", <<"/">>, <<>>, <<>>),
  [Message("GET", <<"/">>, <<>>, <<>>) EXCEPT !.units = <<CR, LF, LF>> \o @],
  Message("POST", <<"/", "a", "/", "b">>, <<<<"Content-Length", 2>>>>, <<X, Y>>),
  Message("POST", <<"/">>, <<<<"Content-Length", 0>>>>, <<>>),
  [Message("POST", <<"/">>, Chunked, <<Size(1), CR, LF, X, CR, LF, Size(1), LF, Y, CR, CR, LF,
                                     Size(0), CR, LF, T, CR, LF, CR, LF>>) EXCEPT !.body = <<X, Y>>]}

Bad == {
  Refused([Message("GET", <<"/">>, <<>>, <<>>) EXCEPT !.units = <<BadStart(501), CR, LF>>], 501),
  Refused([Message("GET", <<"/">>, <<>>, <<>>) EXCEPT !.units = <<BadStart(505), CR, LF>>], 505),
  Refused([Message("GET", <<"/">>, <<>>, <<>>) EXCEPT !.units = <<X, Y, LF>>], 400),
  Refused([Message("GET", <<"/">>, <<>>, <<>>) EXCEPT !.units = [i \in 1..26 |-> X]], 431),
  Refused([Message("GET", <<"/">>, <<>>, <<>>) EXCEPT !.units =
             <<Start("GET", <<"/">>), LF, X, LF>>], 400),
  Refused(Message("POST", <<"/">>, <<<<"Content-Length", MaxBodyBytes + 1>>>>, <<X>>), 413),
  Refused(Message("POST", <<"/">>, <<<<"Content-Length", BadNumber>>>>, <<>>), 400),
  Refused(Message("POST", <<"/">>, <<<<"Content-Length", 1>>, <<"Content-Length", 1>>>>, <<X>>), 400),
  Refused(Message("POST", <<"/">>, Append(Chunked, <<"Content-Length", 1>>), <<X>>), 400),
  Refused(Message("POST", <<"/">>, <<<<"Transfer-Encoding", "gzip">>>>, <<X>>), 501),
  Refused(Message("POST", <<"/">>, Chunked, <<Size(MaxBodyBytes + 1), CR, LF, X>>), 413),
  Refused(Message("POST", <<"/">>, Chunked, <<Size(2), CR, LF, X, Y, CR, LF, Size(MaxBodyBytes - 1), LF, X>>), 413),
  Refused(Message("POST", <<"/">>, Chunked, <<Size(1), CR, LF, X, Y, CR, LF>>), 400),
  Refused(Message("POST", <<"/">>, Chunked, <<X, LF>>), 400),
  Refused(Message("POST", <<"/">>, Chunked, <<Size(1), CR, CR, LF>>), 400),
  Refused(Message("POST", <<"/">>, Chunked, <<Size(0), LF, T, T, T, T, LF>>), 400)}

Full ==
  LET body == [i \in 1..MaxBodyBytes |-> X]
  IN {Message("POST", <<"/">>, <<<<"Content-Length", MaxBodyBytes>>>>, body),
      [Message("POST", <<"/">>, Chunked, <<Size(MaxBodyBytes), CR, LF>> \o body \o <<CR, LF, Size(0), CR, LF, CR, LF>>)
         EXCEPT !.body = body]}

Framing ==
  {Sends([Base EXCEPT !.whole = FALSE], ms) :
     ms \in {<<m>> : m \in Good \cup Bad \cup Full \cup {Unending}} \cup Good \X (Good \cup Bad)}

(* Routing: every method on every path of one table, with what comes       *)
(* before it and what its handlers do.                                     *)
Routing ==
  {Sends([Base EXCEPT !.table = <<"routes", g, c>>, !.compress = TRUE], <<m>>) :
     g \in DOMAIN Globals, c \in DOMAIN Calls,
     m \in {Message(me, p, <<>>, <<>>) : me \in Methods, p \in Paths}
             \cup {Message("POST", p, <<<<"Accept-Encoding", {"gzip"}>>, <<"Request-Id", "id">>,
                                       <<"Content-Length", 2>>>>, <<X, Y>>) : p \in Paths}
             \cup {Message("GET", p, <<>>, <<>>) : p \in {<<"/", "%">>, <<"/", "%", "2">>, <<"/", "%", "0", "0">>,
                      <<"/", "a", "%", "2", "f", "b">>, <<"/", "w", "%", "2", "B", "+", "?", "q">>}}}

(* Cross-origin requests, simple ones and preflights. *)
CorsOptions ==
  {[reflect |-> r, allow |-> a, credentials |-> c, methods |-> m, headers |-> h, expose |-> m,
    maxAge |-> x, preflightContinue |-> p, privateNetwork |-> c] :
     r \in BOOLEAN, a \in {"*", "o1"}, c \in BOOLEAN, m \in {"", "listed"}, h \in {"", "listed"},
     x \in {0, 9}, p \in BOOLEAN}

Preflight == <<<<"Request-Method", "POST">>, <<"Request-Headers", "h">>, <<"Request-Network", "true">>>>

CrossOrigin ==
  {Sends([Base EXCEPT !.table = <<"cors", o>>, !.compress = TRUE],
         <<Message(m, <<"/", "w">>, os \o hs, <<>>)>>) :
     o \in CorsOptions, m \in {"GET", "OPTIONS"},
     os \in {<<>>, <<<<"Origin", "o1">>>>, <<<<"Origin", "o2">>>>},
     hs \in {<<>>, Preflight, <<<<"Accept-Encoding", {"deflate"}>>>>}}

(* Files that may be replaced between the three looks at them.            *)
StaticOptions ==
  {[mount |-> <<"/", "s">>, fallthrough |-> f, autoIndex |-> i, listing |-> l, allowHidden |-> FALSE,
    indexNames |-> <<<<"none">>, <<"index">>>>, etag |-> TRUE, lastModified |-> TRUE, maxAge |-> IF f THEN 9 ELSE 0] :
     f \in BOOLEAN, i \in BOOLEAN, l \in BOOLEAN}

Serving ==
  {Sends([Base EXCEPT !.table = <<"static", o>>, !.later = l],
         <<Message(m, p, hs, <<>>)>>) :
     o \in StaticOptions, l \in 1..4, m \in {"GET", "HEAD", "POST"},
     p \in Files \cup {<<"/", "a">>}, hs \in {<<>>, <<<<"None-Match", <<3, 5>>>>>>, <<<<"Since", 4>>>>,
                                              <<<<"Since", 5>>>>} \cup {<<<<"Range", r>>>> : r \in Ranges}}

(* http_client at both ends of the exchange. *)
Urls == {<<"http://", "host", "/", "w">>, <<"http://", "user", "@", "host", ":", "80", "/", "a", "/", "b">>,
         <<"https://", "host">>}

Asked ==
  {Get(u, h) : u \in Urls, h \in {<<>>, <<<<"Connection", <<"keep-alive">>>>, <<"User-Agent", "mine">>>>}}
    \cup {[Get(u, <<>>) EXCEPT !.method = "HEAD"] : u \in Urls}
    \cup {Post(u, b, h) : u \in Urls, b \in {<<>>, <<X, Y>>},
                          h \in {<<>>, <<<<"Content-Type", "json">>>>, <<<<"Content-Length", 2>>>>}}

Meaningful(req) == req.body = <<>> => \A i \in DOMAIN req.headers : req.headers[i] # <<"Content-Length", 2>>

Asking ==
  {[Base EXCEPT !.client = TRUE, !.wire = Written(r), !.table = <<"plain", 2>>,
                !.meant = <<[start |-> Start(r.method, ParseUrl(r.url).target), body |-> r.body,
                             status |-> 0]>>] : r \in {r \in Asked : Meaningful(r)}}

Answer(headers, body) == [status |-> 200, headers |-> headers, body |-> body]

Foreign ==
  {[Base EXCEPT !.client = TRUE, !.foreign = <<f[1]>>, !.content = f[2]] : f \in {
     <<Answer("Transfer-Encoding" :> "chunked",
              <<Size(1), CR, LF, X, CR, LF, Size(2), CR, LF, Y, T, CR, LF, Size(0), CR, LF, CR, LF>>),
       <<[at |-> 4, data |-> <<X>>], [at |-> 11, data |-> <<Y, T>>]>>>>,
     <<Answer("Content-Length" :> 2, <<X, Y, T>>), <<[at |-> 1, data |-> <<X>>], [at |-> 2, data |-> <<Y>>]>>>>,
     <<Answer(<<>>, <<X, Y>>), <<[at |-> 1, data |-> <<X>>], [at |-> 2, data |-> <<Y>>]>>>>}}

-----------------------------------------------------------------------------
(* Formats: what a client writes, and what it means by it.                 *)
Code == (" " :> 32) @@ ("%" :> 37) @@ ("&" :> 38) @@ ("+" :> 43) @@ ("=" :> 61) @@ ("k" :> 107)
Digits == <<"0", "1", "2", "3", "4", "5", "6", "7", "8", "9">>
Hex == [upper |-> Digits \o <<"A", "B", "C", "D", "E", "F">>,
        lower |-> Digits \o <<"a", "b", "c", "d", "e", "f">>]

Escape(mark, style) ==
  IF mark = " " /\ style = "lower" THEN <<"+">>
  ELSE IF mark = "k" /\ style = "lower" THEN <<"k">>
  ELSE <<"%", Hex[style][(Code[mark] \div 16) + 1], Hex[style][(Code[mark] % 16) + 1]>>

Escaped(text, style) == FlattenSeq([i \in DOMAIN text |-> Escape(text[i], style)])

Joined(texts, sep) == FlattenSeq([i \in DOMAIN texts |-> IF i = 1 THEN texts[i] ELSE sep \o texts[i]])

FormText(pairs, style) ==
  Joined([i \in DOMAIN pairs |-> Escaped(pairs[i][1], style) \o <<"=">> \o Escaped(pairs[i][2], style)], <<"&">>)

Units(text) == [i \in DOMAIN text |-> CASE text[i] = "\r" -> CR [] text[i] = "\n" -> LF [] OTHER -> Byte(text[i])]

Says1(base, said, message) == Sends([base EXCEPT !.said = <<said>>], <<message>>)

Handling(calls) == [Base EXCEPT !.table = <<"does", calls>>]

PostText(type, text) ==
  Message("POST", <<"/", "a", "/", "b">>, <<<<"Media-Type", type>>, <<"Content-Length", Len(text)>>>>, Units(text))

Pairs ==
  {<<<<k, v>>>> : k \in {<<"k">>, <<"%">>, <<"=", "k">>, <<" ">>}, v \in SeqOf(DOMAIN Code, 2)}
    \cup {<<<<<<"k">>, v>>, <<<<"k">>, w>>, <<<<"k", "&">>, v>>>> : v \in SeqOf({"k", "="}, 1), w \in SeqOf({"k", "+"}, 1)}

Raw == {<<<<"k", "=", "%", "4">>, <<<<"k">>, <<"%", "4">>>>>>, <<<<"&", "&", "k">>, <<<<"k">>, <<>>>>>>,
        <<<<"k", "=", "=", "%", "g", "0">>, <<<<"k">>, <<"=", "%", "g", "0">>>>>>}

Forms == {<<FormText(pairs, style), MapOf(pairs)>> : pairs \in Pairs, style \in {"upper", "lower"}}
           \cup {<<r[1], MapOf(<<r[2]>>)>> : r \in Raw}

Filling ==
  {Says1(Handling(<<"send">>), [query |-> f[2]],
         Message("GET", <<"/", "?">> \o f[1], <<>>, <<>>)) : f \in Forms}
    \cup {Says1(Handling(<<"send">>), [form |-> f[2]], PostText(<<"form">>, f[1])) : f \in {f \in Forms : f[1] # <<>>}}

(* Parts, whole and cut short anywhere. *)
MCPart(name, filename, type, data) == [name |-> name, filename |-> filename, type |-> type, data |-> data]

PartText(p) ==
  <<"-", "-", "B", "\r", "\n", "Content-Disposition", ":", " ", "form-data", ";", "name", "=", "\"">>
    \o p.name \o <<"\"">>
    \o (IF p.filename = <<>> THEN <<>> ELSE <<";", " ", "filename", "=", "\"">> \o p.filename \o <<"\"">>)
    \o EndOfLine \o (IF p.type = <<>> THEN <<>> ELSE <<"Content-Type", ":">> \o p.type \o EndOfLine)
    \o EndOfLine \o p.data \o EndOfLine

PartsText(parts) ==
  FlattenSeq([i \in DOMAIN parts |-> PartText(parts[i])]) \o <<"-", "-", "B", "-", "-", "\r", "\n">>

Contents == {<<>>, <<"x">>, <<"\r", "\n">>, <<"\r", "\n", "-", "-">>, <<"-", "-", "B">>, <<"\r", "\r", "\n", "\n">>,
             <<"Content-Type", ":", "x">>}

PartLists ==
  {<<MCPart(<<"k">>, f, t, d)>> : f \in {<<>>, <<"f", " ", "=", "g">>}, t \in {<<>>, <<"text">>}, d \in Contents}
    \cup {<<MCPart(<<"k">>, f, <<>>, d), MCPart(<<"k">>, <<>>, <<>>, <<"x">>)>> : f \in {<<>>, <<"f">>}, d \in Contents}
    \cup {<<>>, <<MCPart(<<>>, <<>>, <<>>, <<"x">>)>>}

Types == {<<"multipart/form-data", ";", " ", "boundary=", "B">>,
          <<"multipart/form-data", ";", "x", "boundary=", "A", ";", " ", "boundary=", "\"", "B", "\"", ";", "x">>}

SentParts(parts, n) ==
  [parts |-> parts, length |-> n,
   ends |-> [k \in 1..(Len(parts) + 1) |->
               3 + Len(FlattenSeq([i \in 1..(k - 1) |-> PartText(parts[i])]))]]

Uploading ==
  {Says1(Handling(<<"json">>), SentParts(parts, Len(PartsText(parts))), PostText(type, PartsText(parts))) :
     parts \in PartLists, type \in Types}
    \cup UNION {{Says1(Handling(<<"json">>), SentParts(parts, n),
                      PostText(<<"multipart/form-data", ";", "boundary=", "B", ";">>, SubSeq(PartsText(parts), 1, n))) :
                  n \in 1..Len(PartsText(parts))} : parts \in {parts \in PartLists : Len(parts) = 2}}

(* A browser brings back the cookies it was given. *)
MCGivenCookies ==
  <<[NewCookie(<<"id">>, <<"v", "=", "w">>) EXCEPT !.path = <<"/">>, !.maxAge = <<"9">>, !.secure = TRUE,
                                                   !.sameSite = <<"Lax">>],
    [NewCookie(<<"theme">>, <<>>) EXCEPT !.domain = <<"host">>, !.httpOnly = TRUE]>>

SentBack(text) == Pieces(text, ";")[1]

Jar == Joined([i \in DOMAIN MCGivenCookies |-> SentBack(CookieText(MCGivenCookies[i]))], <<";", " ">>)

CookieHeaders ==
  {<<Jar, MapOf([i \in DOMAIN MCGivenCookies |-> <<MCGivenCookies[i].name, MCGivenCookies[i].value>>])>>,
   <<<<"=", "bad", ";", " ", ";", " ", "good", "=", "1", ";", "alsobad">>, MapOf(<<<<<<"good">>, <<"1">>>>>>)>>,
   <<<<"a", " ", "=", " ", "\"", "b", " ", "\"", " ", ";", "a", "=", "\"">>, MapOf(<<<<<<"a">>, <<"\"">>>>>>)>>}

Returning ==
  {Sends([Handling(<<calls, "send">>) EXCEPT !.said = <<[query |-> <<>>], [cookies |-> h[2]]>>],
         <<Message("GET", <<"/">>, <<>>, <<>>), Message("GET", <<"/">>, <<<<"Cookie", h[1]>>>>, <<>>)>>) :
     calls \in {"log in", "log out"}, h \in CookieHeaders}

(* Handshakes. *)
ProtocolLists == {ps \in SeqOf({"p1", "p2", "p3"}, 2) : TRUE}
Known(ps) == SelectSeq(ps, LAMBDA p : p \in {"p1", "p2"})

ProtocolHeaders(ps) ==
  {IF ps = <<>> THEN <<>> ELSE <<<<"Protocols", Joined([i \in DOMAIN ps |-> <<ps[i]>>], <<",", " ">>)>>>>,
   [i \in DOMAIN ps |-> <<"Protocols", <<ps[i]>>>>]}

Upgrading ==
  UNION {{Says1(Handling(calls),
         [asks |-> u = "websocket" /\ c # <<"keep-alive">> /\ k # <<>> /\ v # <<<<"Version", <<"12">>>>>>,
          protocol |-> IF Known(ps) = <<>> THEN <<>> ELSE <<Known(ps)[1]>>],
         Message("GET", <<"/">>, <<<<"Upgrade", <<u>>>>, <<"Connection", c>>>> \o k \o v \o h, <<>>)) :
       h \in ProtocolHeaders(ps)} :
     calls \in {<<"channel">>, <<"send", "channel">>}, u \in {"websocket", "h2c"},
     c \in {<<"Upgrade">>, <<"keep-alive", ",", " ", "Upgrade">>, <<"keep-alive">>},
     k \in {<<>>, <<<<"Key", <<"key">>>>>>}, v \in {<<>>, <<<<"Version", <<"13">>>>>>, <<<<"Version", <<"12">>>>>>},
     ps \in ProtocolLists}

(* Event streams. *)
Event(event, data, id) == [event |-> event, data |-> data, id |-> id, comment |-> <<>>]

Events ==
  {Event(<<>>, d, <<>>) : d \in SeqOf({"x", "\n", "data"}, 2)}
    \cup {Event(e, <<":", "\n">>, i) : e \in {<<>>, <<"tick">>}, i \in {<<>>, <<"7">>}}
    \cup {[Event(<<>>, <<>>, <<>>) EXCEPT !.comment = <<"ping">>]}

Streaming ==
  {[Sends(Handling(<<"stream">>), <<Message(m, <<"/">>, <<>>, <<>>)>>) EXCEPT !.said = <<<<>>>>, !.events = es] :
     m \in {"GET"}, es \in Events \X Events}

MCScenarios == Framing \cup Routing \cup CrossOrigin \cup Serving \cup Asking \cup Foreign
                 \cup Filling \cup Uploading \cup Returning \cup Upgrading \cup Streaming
===============================================================================
