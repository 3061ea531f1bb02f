-------------------------------- MODULE Router --------------------------------
(***************************************************************************)
(* Router::dispatch: the chain of global middlewares, the routing stage at *)
(* its end, and the chain of the matched route, which share one response   *)
(* and one index each.  A middleware is a closure that may call next() as  *)
(* often as it likes; calling it again goes on with what is left.          *)
(*                                                                         *)
(* A pattern is written like a path (see StaticFiles), with words in       *)
(* Params for ":name" and words in Wildcards for "*name" at the front of a *)
(* name.  A middleware is a record whose `does' says what its closure does.*)
(***************************************************************************)
EXTENDS StaticFiles, Cors

CONSTANTS Params, Wildcards,
          Subprotocols,  (* the pulse::Options::subprotocols of a handler  *)
          GivenCookies   (* the cookies a handler sets                     *)

MethodOrder == <<"GET", "POST", "PUT", "PATCH", "DELETE", "HEAD", "OPTIONS">>

(* compile_pattern_: a wildcard eats what follows it. *)
KindOf(name) ==
  CASE name[1] \in Params -> "param" [] name[1] \in Wildcards -> "wildcard" [] OTHER -> "static"

Compile(pattern) ==
  LET names == Split(pattern)
      wild  == SelectInSeq(names, LAMBDA name : KindOf(name) = "wildcard")
  IN IF wild = 0 THEN names ELSE SubSeq(names, 1, wild)

(* match_and_bind_: how the names of a path match the segments of a        *)
(* pattern, with what is bound so far.                                     *)
NoMatch == [matches |-> FALSE, params |-> <<>>]

RECURSIVE Bind(_, _, _)
Bind(parts, segs, params) ==
  CASE segs = <<>> -> [matches |-> parts = <<>>, params |-> params]
    [] segs # <<>> /\ parts = <<>> ->
         IF KindOf(segs[1]) = "wildcard" THEN [matches |-> TRUE, params |-> (segs[1] :> <<>>) @@ params]
                                         ELSE NoMatch
    [] OTHER ->
         CASE KindOf(segs[1]) = "static" ->
                IF parts[1] = segs[1] THEN Bind(Tail(parts), Tail(segs), params) ELSE NoMatch
           [] KindOf(segs[1]) = "param" ->
                Bind(Tail(parts), Tail(segs), (segs[1] :> parts[1]) @@ params)
           [] KindOf(segs[1]) = "wildcard" -> Bind(<<>>, Tail(segs), (segs[1] :> parts) @@ params)

MatchAndBind(path, pattern) ==
  LET segs == Compile(pattern)
  IN IF segs = <<>> THEN [matches |-> path \in {<<>>, <<"/">>}, params |-> <<>>]
     ELSE Bind(Split(path), segs, <<>>)

(* prefix_matches_, at a path boundary. *)
PrefixAnywhere(pattern, prefix) == IsPrefix(prefix, pattern)

PrefixMatches(pattern, prefix) ==
  LET p == IF prefix # <<>> /\ Last(prefix) = "/" THEN Front(prefix) ELSE prefix
  IN p = <<>> \/ (IsPrefix(p, pattern) /\ (pattern = p \/ pattern[Len(p) + 1] = "/"))

(* RouteGroup::AddRoute: prefix and pattern are put end to end. *)
GroupPattern(prefix, pattern) ==
  (IF prefix # <<>> /\ Last(prefix) = "/" /\ pattern # <<>> /\ Head(pattern) = "/"
   THEN Front(prefix) ELSE prefix) \o pattern

-----------------------------------------------------------------------------
(* The state of one dispatch: the response so far, what has run (history), *)
(* whether something was thrown, the two indices and `handled'.            *)
Dispatching(res) ==
  [res |-> res, ran |-> <<>>, threw |-> FALSE, global |-> 0, local |-> 0, handled |-> FALSE]

Ran(d, name) == [d EXCEPT !.ran = Append(@, name)]

MethodOk(route, method) ==
  route.method \in {"ANY", method} \/ (method = "HEAD" /\ route.method = "GET")

MatchingRoutes(table, path) ==
  SelectSeq(table.routes, LAMBDA r : MatchAndBind(path, r.pattern).matches)

(* The methods of the Allow header, in the order of the enumeration, with  *)
(* the HEAD that a GET route also answers.                                 *)
Allowed(routes) ==
  LET methods == {routes[i].method : i \in DOMAIN routes} \ {"ANY"}
      sorted  == SelectSeq(MethodOrder, LAMBDA m : m \in methods)
  IN IF "GET" \in methods /\ "HEAD" \notin methods THEN Append(sorted, "HEAD") ELSE sorted

(* The chain of a matched route: the groups its pattern falls under, in    *)
(* order, its own middlewares, its handler.                                *)
ChainOf(table, route) ==
  LET under == SelectSeq(table.groups, LAMBDA g : PrefixMatches(route.pattern, g.prefix))
  IN FlattenSeq([i \in DOMAIN under |-> under[i].middlewares])
       \o route.middlewares \o <<route.handler>>

(* pulse::upgrade and sse::upgrade *)
AsksForPulse(req) ==
  /\ req.upgrade = <<"websocket">> /\ HasToken(req.connection, "Upgrade")
  /\ req.key # <<>> /\ req.version \in {<<>>, <<"13">>}

(* accept_key: a digest, which tells keys apart. *)
AcceptKey(key) == <<"digest of", key>>

PulseUpgrade(res, req) ==
  LET protocol  == IF Subprotocols = {} THEN <<>> ELSE PickSubprotocol(req.protocols, Subprotocols)
      switching == SetHeader(SetHeader(SetStatus(res, 101), "Upgrade", "websocket"), "Accept", AcceptKey(req.key))
  IN IF ~AsksForPulse(req) THEN Send(SetStatus(res, 400), <<"upgrade failed">>)
     ELSE Mark(IF protocol = <<>> THEN switching ELSE SetHeader(switching, "Protocol", protocol), "Pulse")

SseUpgrade(res) == Mark(SetHeader(SetStatus(res, 200), "Content-Type", "event-stream"), "Stream")

SetCookies(res) == FoldLeft(LAMBDA r, c : SetCookie(r, CookieText(c)), res, GivenCookies)

ClearCookies(res) ==
  FoldLeft(LAMBDA r, c : SetCookie(r, ExpiredText(c.name, c.path)), res, GivenCookies)

(* One call of a handler on the response. *)
CallResponse(d, call, req) ==
  IF d.threw THEN d
  ELSE IF call = "throw" THEN [d EXCEPT !.threw = TRUE]
  ELSE [d EXCEPT !.res =
    CASE call = "send"     -> Send(@, <<"sent">>)
      [] call = "json"     -> Json(@, <<"json">>)
      [] call = "error"    -> JsonError(@, 422)
      [] call = "status"   -> SendStatus(@, 403)
      [] call = "write"    -> Write(@, <<"chunk">>)
      [] call = "end"      -> End(@)
      [] call = "redirect" -> Redirect(@, "elsewhere")
      [] call = "created"  -> SetStatus(@, 201)
      [] call = "log in"   -> SetCookies(@)
      [] call = "log out"  -> ClearCookies(@)
      [] call = "channel"  -> PulseUpgrade(@, req)
      [] call = "stream"   -> SseUpgrade(@)]

CallHandler(d, calls, req) == FoldLeft(LAMBDA e, call : CallResponse(e, call, req), d, calls)

(* What a middleware does before it calls next(), and how often it does    *)
(* call it.                                                                *)
Calling(d, times) == [d |-> d, times |-> times]

Cont(d, step) == Calling([d EXCEPT !.res = step.res], IF step.next THEN 1 ELSE 0)

Entered(d, mw, req, disks) ==
  CASE mw.does \in {"next", "after"} -> Calling(d, 1)
    [] mw.does = "next twice"        -> Calling(d, 2)
    [] mw.does = "handle"            -> Calling(CallHandler(d, mw.calls, req), 0)
    [] mw.does = "request id"        -> Calling([d EXCEPT !.res = SetHeader(@, "Request-Id", req.id)], 1)
    [] mw.does = "body limit"        ->
         IF req.bodySize <= mw.limit THEN Calling(d, 1)
         ELSE Calling([d EXCEPT !.res = Send(SetStatus(@, 413), <<"too large">>)], 0)
    [] mw.does = "cors"              -> Cont(d, CorsMiddleware(mw.options, req, d.res))
    [] mw.does = "static"            -> Cont(d, StaticMiddleware(mw.options, req, d.res, disks[1], disks[2]))

Left(d, mw, req) == IF mw.does = "after" THEN CallHandler(d, mw.calls, req) ELSE d

(* CallNext(d): what next() does in dispatch d, at the global level when there *)
(* is no chain, else at the level of the matched route.  Run(d, mw): what  *)
(* a middleware does with it.                                              *)
RECURSIVE CallNext(_, _, _, _, _)
RECURSIVE CallTimes(_, _, _, _, _, _)

CallTimes(d, times, table, req, chain, disks) ==
  IF times = 0 THEN d
  ELSE CallTimes(CallNext(d, table, req, chain, disks), times - 1, table, req, chain, disks)

RunFrom(entered, mw, table, req, chain, disks) ==
  Left(CallTimes(entered.d, entered.times, table, req, chain, disks), mw, req)

Run(d, mw, table, req, chain, disks) ==
  RunFrom(Entered(Ran(d, mw.name), mw, req, disks), mw, table, req, chain, disks)

(* The routing stage: the first route that matches path and method, 405    *)
(* when only the path matches, nothing when nothing does.                  *)
RouteTo(d, matching, table, req, disks) ==
  LET first   == SelectInSeq(matching, LAMBDA r : MethodOk(r, req.method))
      refused == Send(SetHeader(SetStatus(d.res, 405), "Allow", Allowed(matching)), <<"not allowed">>)
  IN CASE matching = <<>>                -> d
       [] matching # <<>> /\ first = 0   -> [d EXCEPT !.handled = TRUE, !.res = refused]
       [] OTHER                          ->
            CallNext([d EXCEPT !.handled = TRUE, !.local = 0], table, req, ChainOf(table, matching[first]), disks)

Terminal(d, table, req, disks) == RouteTo(d, MatchingRoutes(table, req.path), table, req, disks)

CallNext(d, table, req, chain, disks) ==
  CASE d.threw \/ d.res.ended -> d
    [] ~(d.threw \/ d.res.ended) /\ chain = <<>> ->
         IF d.global < Len(table.global)
         THEN Run([d EXCEPT !.global = @ + 1], table.global[d.global + 1], table, req, chain, disks)
         ELSE Terminal(d, table, req, disks)
    [] OTHER ->
         IF d.local >= Len(chain) THEN d
         ELSE Run([d EXCEPT !.local = @ + 1], chain[d.local + 1], table, req, chain, disks)

(* Router::dispatch, and what handle_request_ makes of its outcome: a      *)
(* fresh 500 after an exception, 404 when nothing handled the request, an  *)
(* end for a handler that forgot.                                          *)
Outcome(d) ==
  IF d.threw THEN [d EXCEPT !.res = Send(SetStatus(NewResponse, 500), <<"error">>)]
  ELSE IF ~(d.handled \/ d.res.ended) THEN [d EXCEPT !.res = Send(SetStatus(@, 404), <<"not found">>)]
  ELSE [d EXCEPT !.res = End(@)]

Dispatch(table, req, disks) == Outcome(CallNext(Dispatching(NewResponse), table, req, <<>>, disks))
=============================================================================
