------------------------------- MODULE Connection -------------------------------
(***************************************************************************)
(* One HTTP connection of Socketify from accept to close, on the worker    *)
(* that owns it: Worker::run's dispatch of its epoll events, the TLS       *)
(* handshake, on_readable_, process_input_, handle_request_, flush_output_ *)
(* with file streaming, update_interest_, set_deadline_, sweep_deadlines_  *)
(* and close_conn_.  The client, the kernel and the clock act between the  *)
(* worker's system calls.                                                  *)
(*                                                                         *)
(* A request travels in one or two pieces (a head in two reads, or a head  *)
(* and a body) and is known by its number and its kind; a reply is a token *)
(* on the wire, and a file's body as many tokens as it has chunks.  When a *)
(* request upgrades the connection, PushChannel takes over.                *)
(***************************************************************************)
EXTENDS Naturals, Sequences

CONSTANTS
  Kinds,          (* kinds of requests the client may send *)
  PipelineAfter,  (* kinds after which it may send more at any time *)
  MaxRequests,    (* bound: requests the client sends *)
  FileLen,        (* chunks a file body has *)
  SndCap,         (* tokens the socket's send buffer holds *)
  Tls,            (* whether the server speaks TLS: a subset of BOOLEAN *)
  HsFlights,      (* messages the client owes to a TLS handshake *)
  HsWants         (* {"write"} if a handshake may stall on a full socket *)

AllKinds ==
  {"plain",       \* GET: the head in one piece
   "split",       \* GET: the head in two pieces
   "post",        \* POST: a head and a body
   "expect",      \* POST with Expect: 100-continue
   "close",       \* GET with Connection: close
   "file",        \* GET answered with a file
   "shrunk",      \* the same, but the file loses its last chunk once it is open
   "gone",        \* the same, but the file vanishes before it is opened
   "badpath",     \* GET with a malformed path
   "bad",         \* bytes that are not a request
   "upgrade"}     \* GET answered with an SSE stream or a WebSocket

ASSUME ConnectionAssumption ==
  /\ Kinds \subseteq AllKinds /\ PipelineAfter \subseteq Kinds
  /\ MaxRequests \in Nat \ {0} /\ FileLen \in Nat \ {0} /\ SndCap \in Nat \ {0}
  /\ Tls \subseteq BOOLEAN /\ HsFlights \in Nat \ {0} /\ HsWants \subseteq {"write"}

Requests == 1 .. MaxRequests

VARIABLES
  \* Worker::run
  pc,             (* where the worker stands *)
  ret,            (* where flush_output_ returns to *)
  ev,             (* flags epoll_wait reported *)
  \* Connection
  phase,          (* "Handshake", "Http" or "Push" *)
  alive,          (* in conns_ *)
  in,             (* received pieces that are not consumed *)
  parser,         (* HttpParser: its state and the request it stands in *)
  sent100,
  inRequest,      (* in_request *)
  closeAfter,     (* close_after *)
  out,            (* unsent tokens of Connection::out *)
  file,           (* the file being streamed: file, file_off, file_end *)
  mask,           (* events registered with epoll *)
  registered,     (* registered_write *)
  deadline,       (* which timeout the deadline was computed from *)
  due,            (* the deadline has passed *)
  cause,          (* why the connection was closed *)
  handled,        (* how many requests handle_request_ was given *)
  \* client and kernel
  script,         (* kinds of the requests the client has begun *)
  piece,          (* how many pieces of the last one it has sent *)
  hsSent,         (* handshake messages it has sent *)
  hsRead,         (* handshake messages SSL_accept has read *)
  arrived,        (* pieces in the receive buffer *)
  wire,           (* every token the kernel took for the client *)
  unread,         (* how many of them the client has not read *)
  peer            (* "open", "fin" or "rst" *)

workerVars   == <<pc, ret, ev>>
parseVars    == <<in, parser, sent100, inRequest>>
outputVars   == <<closeAfter, out, file>>
interestVars == <<mask, registered>>
timerVars    == <<deadline, due>>
clientVars   == <<script, piece, hsSent>>
kernelVars   == <<arrived, wire, unread, peer>>

vars == <<workerVars, phase, alive, cause, handled, parseVars, outputVars, interestVars,
          timerVars, clientVars, hsRead, kernelVars>>

NoFile == [req |-> 0, off |-> 0, end |-> 0]
Fresh  == [state |-> "StartLine", req |-> 0]

Token(i, what)  == [req |-> i, part |-> what, n |-> 0]
Chunk(i, n)     == [req |-> i, part |-> "chunk", n |-> n]
Tokens == [req : 0 .. MaxRequests, part : {"continue", "reply", "error", "chunk"},
           n : 0 .. FileLen]

FilePending == file.off < file.end

(* Connection::has_pending_output *)
Pending == out # <<>> \/ FilePending

Init ==
  /\ pc = "wait" /\ ret = "sweep" /\ ev = {}
  /\ phase \in {IF tls THEN "Handshake" ELSE "Http" : tls \in Tls}
  /\ alive = TRUE /\ cause = "none" /\ handled = 0
  /\ in = <<>> /\ parser = Fresh /\ sent100 = FALSE /\ inRequest = FALSE
  /\ closeAfter = FALSE /\ out = <<>> /\ file = NoFile
  /\ mask = {"in"} /\ registered = FALSE
  /\ deadline = "idle" /\ due = FALSE
  /\ script = <<>> /\ piece = 0
  /\ hsSent = (IF phase = "Handshake" THEN 0 ELSE HsFlights) /\ hsRead = hsSent
  /\ arrived = <<>> /\ wire = <<>> /\ unread = 0 /\ peer = "open"

-----------------------------------------------------------------------------
(* The client and the kernel.                                              *)

NPieces(kind) == IF kind \in {"split", "post", "expect"} THEN 2 ELSE 1

Chunks(kind) == IF kind \in {"file", "shrunk"} THEN FileLen ELSE 0

Has(i, what) == \E k \in DOMAIN wire : wire[k].req = i /\ wire[k].part = what

HasFile(i) == \A n \in 1 .. Chunks(script[i]) : \E k \in DOMAIN wire : wire[k] = Chunk(i, n)

(* A request has its final reply, and all of it. *)
Replied(i) == Has(i, "error") \/ (Has(i, "reply") /\ HasFile(i))

(* More may follow request i once its reply is in, while it is still on    *)
(* its way, so that one read will bring both, or, for some kinds, always.  *)
MayFollow(i) ==
  \/ script[i] \in PipelineAfter
  \/ unread = 0 /\ Replied(i)
  \/ \E k \in DOMAIN arrived : arrived[k].req = i

(* The client goes on with a request it has begun, ... *)
SendRest ==
  /\ alive /\ peer = "open"
  /\ script # <<>> /\ piece < NPieces(script[Len(script)])
  /\ \A i \in 1 .. Len(script) - 1 : MayFollow(i)
  /\ piece' = piece + 1
  /\ arrived' = Append(arrived, [req |-> Len(script), n |-> piece + 1])
  /\ UNCHANGED <<workerVars, phase, alive, cause, handled, parseVars, outputVars,
                 interestVars, timerVars, script, hsSent, hsRead, wire, unread, peer>>

(* ... or begins the next one.  After an upgrade it would speak another    *)
(* protocol.                                                               *)
SendRequest(kind) ==
  /\ alive /\ peer = "open" /\ hsSent = HsFlights
  /\ Len(script) < MaxRequests
  /\ script # <<>> => /\ piece = NPieces(script[Len(script)])
                      /\ script[Len(script)] # "upgrade"
  /\ \A i \in DOMAIN script : MayFollow(i)
  /\ script' = Append(script, kind)
  /\ piece' = 1
  /\ arrived' = Append(arrived, [req |-> Len(script) + 1, n |-> 1])
  /\ UNCHANGED <<workerVars, phase, alive, cause, handled, parseVars, outputVars,
                 interestVars, timerVars, hsSent, hsRead, wire, unread, peer>>

SendHandshake ==
  /\ alive /\ peer = "open" /\ hsSent < HsFlights
  /\ hsSent' = hsSent + 1
  /\ UNCHANGED <<workerVars, phase, alive, cause, handled, parseVars, outputVars,
                 interestVars, timerVars, script, piece, hsRead, kernelVars>>

ClientReads ==
  /\ alive /\ unread > 0
  /\ unread' = unread - 1
  /\ UNCHANGED <<workerVars, phase, alive, cause, handled, parseVars, outputVars,
                 interestVars, timerVars, clientVars, hsRead, arrived, wire, peer>>

ClientLeaves(how) ==
  /\ alive /\ peer = "open"
  /\ peer' = how
  /\ UNCHANGED <<workerVars, phase, alive, cause, handled, parseVars, outputVars,
                 interestVars, timerVars, clientVars, hsRead, arrived, wire, unread>>

(* The deadline passes.  It is only looked at by the sweep that ends a     *)
(* round of the loop.                                                      *)
Tick ==
  /\ alive /\ pc \in {"wait", "sweep"} /\ phase # "Push"
  /\ ~due
  /\ due' = TRUE
  /\ UNCHANGED <<workerVars, phase, alive, cause, handled, parseVars, outputVars,
                 interestVars, deadline, clientVars, hsRead, kernelVars>>

-----------------------------------------------------------------------------
(* The event loop.                                                         *)

SocketHasRoom == unread < SndCap

Ready ==
  {f \in {"readable", "writable", "error"} :
     \/ /\ f = "readable" /\ "in" \in mask
        /\ arrived # <<>> \/ hsRead < hsSent \/ peer # "open"
     \/ f = "writable" /\ "out" \in mask /\ (SocketHasRoom \/ peer = "rst")
     \/ f = "error" /\ peer # "open"}

(* epoll_wait; with no event it returns after 500 ms. *)
Wait ==
  /\ pc = "wait" /\ alive
  /\ ev' = Ready
  /\ pc' = IF Ready = {} THEN "sweep" ELSE "dispatch"
  /\ UNCHANGED <<ret, phase, alive, cause, handled, parseVars, outputVars, interestVars,
                 timerVars, clientVars, hsRead, kernelVars>>

(* Where a handler goes when it is done; its locals are dead. *)
Goto(where) ==
  /\ pc' = where
  /\ ev' = IF where \in {"wait", "sweep"} THEN {} ELSE ev
  /\ ret' = IF where \in {"process", "flush"} THEN ret ELSE "sweep"

(* close_conn_ *)
CloseConn(why) ==
  /\ alive' = FALSE /\ cause' = why
  /\ in' = <<>> /\ out' = <<>> /\ file' = NoFile
  /\ mask' = {} /\ registered' = FALSE /\ due' = FALSE
  /\ Goto(IF ret = "swept" THEN "wait" ELSE "sweep")
  /\ UNCHANGED <<phase, handled, parser, sent100, inRequest, closeAfter, deadline,
                 clientVars, hsRead, kernelVars>>

DispatchError ==
  /\ pc = "dispatch" /\ "error" \in ev
  /\ CloseConn("peer")

(* Fault: EPOLLOUT stays armed once it was. *)
NeverDisarmed(wantWrite) ==
  IF wantWrite /\ ~registered
  THEN mask' = {"in", "out"} /\ registered' = TRUE
  ELSE UNCHANGED interestVars

(* update_interest_: tell epoll only when the wish to write has changed. *)
UpdateInterest(wantWrite) ==
  IF wantWrite # registered
  THEN /\ mask' = {"in"} \cup (IF wantWrite THEN {"out"} ELSE {})
       /\ registered' = wantWrite
  ELSE UNCHANGED interestVars

(* set_deadline_ *)
SetDeadline(busy, state) ==
  /\ deadline' = IF ~busy THEN "idle" ELSE IF state = "Body" THEN "body" ELSE "header"
  /\ due' = FALSE

(* handshake() reads what the client sent.  It wants more, may find the    *)
(* socket full, or is done.                                                *)
HandshakeWants ==
  /\ pc = "dispatch" /\ "error" \notin ev /\ phase = "Handshake"
  /\ hsRead' = hsSent
  /\ \/ hsSent < HsFlights /\ mask' = {"in"}
     \/ "write" \in HsWants /\ mask' = {"out"}
  /\ Goto("sweep")
  /\ UNCHANGED <<phase, alive, cause, handled, parseVars, outputVars, registered, timerVars,
                 clientVars, kernelVars>>

HandshakeDone ==
  /\ pc = "dispatch" /\ "error" \notin ev /\ phase = "Handshake" /\ hsSent = HsFlights
  /\ hsRead' = hsSent
  /\ phase' = "Http"
  /\ SetDeadline(inRequest, parser.state)
  /\ UpdateInterest(Pending)
  /\ Goto("sweep")
  /\ UNCHANGED <<alive, cause, handled, parseVars, outputVars, clientVars, kernelVars>>

HandshakeFails ==
  /\ pc = "dispatch" /\ "error" \notin ev /\ phase = "Handshake" /\ peer # "open"
  /\ CloseConn("peer")

DispatchIo ==
  /\ pc = "dispatch" /\ "error" \notin ev /\ phase = "Http"
  /\ pc' = IF "writable" \in ev /\ Pending THEN "flush" ELSE "read"
  /\ ret' = "read"
  /\ UNCHANGED <<ev, phase, alive, cause, handled, parseVars, outputVars, interestVars,
                 timerVars, clientVars, hsRead, kernelVars>>

-----------------------------------------------------------------------------
(* on_readable_                                                            *)

ReadNothing ==
  /\ pc = "read"
  /\ "readable" \notin ev \/ (arrived = <<>> /\ peer = "open")
  /\ Goto("sweep")
  /\ UNCHANGED <<phase, alive, cause, handled, parseVars, outputVars, interestVars,
                 timerVars, clientVars, hsRead, kernelVars>>

ReadData ==
  /\ pc = "read" /\ "readable" \in ev /\ arrived # <<>> /\ peer = "open"
  /\ in' = in \o arrived /\ arrived' = <<>>
  /\ pc' = "process" /\ ret' = "sweep"
  /\ UNCHANGED <<ev, phase, alive, cause, handled, parser, sent100, inRequest, outputVars,
                 interestVars, timerVars, clientVars, hsRead, wire, unread, peer>>

(* The peer closed or reset its side after epoll_wait returned: drop the   *)
(* connection, data included, unless output is pending.                    *)
ReadEndDrops ==
  /\ pc = "read" /\ "readable" \in ev /\ peer # "open" /\ ~Pending
  /\ CloseConn("peer")

ReadEndKeeps ==
  /\ pc = "read" /\ "readable" \in ev /\ peer # "open" /\ Pending
  /\ closeAfter' = TRUE
  /\ in' = in \o arrived /\ arrived' = <<>>
  /\ IF arrived # <<>> THEN pc' = "process" /\ ret' = "sweep" /\ UNCHANGED ev
                       ELSE Goto("sweep")
  /\ UNCHANGED <<phase, alive, cause, handled, parser, sent100, inRequest, out, file,
                 interestVars, timerVars, clientVars, hsRead, wire, unread, peer>>

-----------------------------------------------------------------------------
(* process_input_ and handle_request_: one turn of the loop.               *)

(* HttpParser after a piece. *)
ParserAfter(p) ==
  LET kind == script[p.req]
  IN IF kind = "bad" THEN "Error"
     ELSE IF p.n = NPieces(kind) THEN "Complete"
     ELSE IF kind = "split" THEN "Headers" ELSE "Body"

Stopping(k) == ParserAfter(in[k]) \in {"Complete", "Error"}

(* consume() takes the pieces up to the first that completes a request or  *)
(* is an error, or all; none once the parser has failed.                   *)
Used ==
  IF parser.state = "Error" THEN 0
  ELSE CHOOSE k \in 0 .. Len(in) :
         /\ \A j \in 1 .. k - 1 : ~Stopping(j)
         /\ k = Len(in) \/ (k > 0 /\ Stopping(k))

Parsed == IF Used = 0 THEN parser
          ELSE [state |-> ParserAfter(in[Used]), req |-> in[Used].req]

(* Fault: what the parser has used stays in the input. *)
NothingErased == in

Rest == SubSeq(in, Used + 1, Len(in))

(* The loop is left: set_deadline_, flush_output_. *)
LeaveLoop(busy, state) == SetDeadline(busy, state) /\ Goto("flush")

ProcessError ==
  /\ pc = "process" /\ Parsed.state = "Error"
  /\ in' = Rest /\ parser' = Parsed /\ inRequest' = (inRequest \/ Used > 0)
  /\ out' = Append(out, Token(Parsed.req, "error"))
  /\ closeAfter' = TRUE
  /\ LeaveLoop(inRequest', "Error")
  /\ UNCHANGED <<phase, alive, cause, handled, sent100, file, interestVars, clientVars,
                 hsRead, kernelVars>>

ProcessPartial ==
  /\ pc = "process" /\ Parsed.state \notin {"Complete", "Error"}
  /\ in' = Rest /\ parser' = Parsed /\ inRequest' = (inRequest \/ Used > 0)
  /\ sent100' = (sent100 \/ Parsed.state = "Body")
  /\ out' = IF ~sent100 /\ Parsed.state = "Body" /\ script[Parsed.req] = "expect"
            THEN Append(out, Token(Parsed.req, "continue")) ELSE out
  /\ LeaveLoop(inRequest', Parsed.state)
  /\ UNCHANGED <<phase, alive, cause, handled, closeAfter, file, interestVars, clientVars,
                 hsRead, kernelVars>>

(* handle_request_ on request i: what is queued, whether the connection    *)
(* closes after it, and the file that is opened.  A file that cannot be    *)
(* opened leaves no file open at all.                                      *)
ReplyTo(i) == Token(i, IF script[i] = "badpath" THEN "error" ELSE "reply")
Closing(i) == script[i] \in {"close", "gone", "badpath"}
FileFor(i) == CASE script[i] \in {"file", "shrunk"} -> [req |-> i, off |-> 0, end |-> FileLen]
                [] script[i] = "gone"               -> NoFile
                [] OTHER                            -> file

(* Fault: the loop goes on although a file is to be sent first. *)
FileForgotten == closeAfter' \/ in' = <<>>

(* After a request the loop goes on, unless the connection closes, a file  *)
(* is to be sent first, or there is no more input.                         *)
LoopEnds == closeAfter' \/ file'.off < file'.end \/ in' = <<>>

HandleRequest ==
  /\ pc = "process" /\ Parsed.state = "Complete" /\ script[Parsed.req] # "upgrade"
  /\ in' = Rest
  /\ handled' = handled + 1
  /\ out' = Append(out, ReplyTo(Parsed.req))
  /\ closeAfter' = (closeAfter \/ Closing(Parsed.req))
  /\ file' = FileFor(Parsed.req)
  /\ parser' = [Fresh EXCEPT !.req = Parsed.req] /\ sent100' = FALSE /\ inRequest' = FALSE
  /\ IF LoopEnds THEN LeaveLoop(FALSE, "StartLine")
                 ELSE Goto("process") /\ UNCHANGED timerVars
  /\ UNCHANGED <<phase, alive, cause, interestVars, clientVars, hsRead, kernelVars>>

(* An upgrade: adopt_sse_ or adopt_pulse_; PushChannel goes on. *)
HandleUpgrade ==
  /\ pc = "process" /\ Parsed.state = "Complete" /\ script[Parsed.req] = "upgrade"
  /\ in' = Rest
  /\ handled' = handled + 1
  /\ out' = Append(out, ReplyTo(Parsed.req))
  /\ parser' = [Fresh EXCEPT !.req = Parsed.req] /\ sent100' = FALSE /\ inRequest' = FALSE
  /\ phase' = "Push" /\ deadline' = "never" /\ due' = FALSE
  /\ Goto("pushed")
  /\ UNCHANGED <<alive, cause, closeAfter, file, interestVars, clientVars, hsRead, kernelVars>>

-----------------------------------------------------------------------------
(* flush_output_                                                           *)

WriteOut ==
  /\ pc = "flush" /\ out # <<>> /\ peer # "rst" /\ SocketHasRoom
  /\ wire' = Append(wire, Head(out)) /\ unread' = unread + 1
  /\ out' = Tail(out)
  /\ UNCHANGED <<workerVars, phase, alive, cause, handled, parseVars, closeAfter, file,
                 interestVars, timerVars, clientVars, hsRead, arrived, peer>>

(* How much of the file there really is. *)
FileSize == IF script[file.req] = "shrunk" THEN FileLen - 1 ELSE FileLen

WriteFile ==
  /\ pc = "flush" /\ out = <<>> /\ FilePending /\ file.off < FileSize
  /\ peer # "rst" /\ SocketHasRoom
  /\ wire' = Append(wire, Chunk(file.req, file.off + 1)) /\ unread' = unread + 1
  /\ file' = [file EXCEPT !.off = @ + 1]
  /\ UNCHANGED <<workerVars, phase, alive, cause, handled, parseVars, closeAfter, out,
                 interestVars, timerVars, clientVars, hsRead, arrived, peer>>

(* The socket is asked to take bytes. *)
Writing == pc = "flush" /\ (out # <<>> \/ (FilePending /\ file.off < FileSize))

(* A sweep whose flush stalls gives the connection another header_timeout. *)
WriteStalls ==
  /\ Writing /\ peer # "rst" /\ ~SocketHasRoom
  /\ UpdateInterest(TRUE)
  /\ Goto(IF ret = "swept" THEN "wait" ELSE ret)
  /\ IF ret = "swept" THEN deadline' = "header" /\ due' = FALSE ELSE UNCHANGED timerVars
  /\ UNCHANGED <<phase, alive, cause, handled, parseVars, outputVars, clientVars, hsRead,
                 kernelVars>>

WriteFails ==
  /\ Writing /\ peer = "rst"
  /\ CloseConn("error")

(* Everything is written, or sendfile found the end of the file too early. *)
Written == pc = "flush" /\ ~Writing

FlushCloses ==
  /\ Written /\ closeAfter
  /\ CloseConn("done")

(* Fault: requests that wait in the input are not taken up again. *)
FlushForgetsInput ==
  /\ Written /\ ~closeAfter
  /\ file' = IF FilePending THEN file ELSE NoFile
  /\ SetDeadline(inRequest, parser.state)
  /\ UpdateInterest(FilePending)
  /\ Goto(ret)
  /\ UNCHANGED <<phase, alive, cause, handled, parseVars, closeAfter, out, clientVars,
                 hsRead, kernelVars>>

FlushGoesOn ==
  /\ Written /\ ~closeAfter
  /\ file' = IF FilePending THEN file ELSE NoFile
  /\ SetDeadline(inRequest, parser.state)
  /\ UpdateInterest(FilePending)
  /\ Goto(IF in # <<>> THEN "process" ELSE ret)
  /\ UNCHANGED <<phase, alive, cause, handled, parseVars, closeAfter, out, clientVars,
                 hsRead, kernelVars>>

-----------------------------------------------------------------------------
(* sweep_deadlines_, run when 250 ms have passed since the last one.       *)

SweepSkips ==
  /\ pc = "sweep"
  /\ Goto("wait")
  /\ UNCHANGED <<phase, alive, cause, handled, parseVars, outputVars, interestVars,
                 timerVars, clientVars, hsRead, kernelVars>>

(* Fault: a request is answered although output is still waiting. *)
AnswersAgain == inRequest /\ phase = "Http"

(* A request that came in part is answered with 408. *)
TimesOutRequest == inRequest /\ phase = "Http" /\ ~Pending

SweepAnswers ==
  /\ pc = "sweep" /\ alive /\ due /\ TimesOutRequest
  /\ out' = Append(out, Token(parser.req, "error"))
  /\ closeAfter' = TRUE
  /\ pc' = "flush" /\ ret' = "swept"
  /\ UNCHANGED <<ev, phase, alive, cause, handled, parseVars, file, interestVars, timerVars,
                 clientVars, hsRead, kernelVars>>

SweepCloses ==
  /\ pc = "sweep" /\ alive /\ due /\ ~TimesOutRequest
  /\ CloseConn("timeout")

-----------------------------------------------------------------------------
Serve ==
  \/ DispatchError \/ HandshakeWants \/ HandshakeDone \/ HandshakeFails \/ DispatchIo
  \/ ReadNothing \/ ReadData \/ ReadEndDrops \/ ReadEndKeeps
  \/ ProcessError \/ ProcessPartial \/ HandleRequest \/ HandleUpgrade
  \/ WriteOut \/ WriteFile \/ WriteStalls \/ WriteFails \/ FlushCloses \/ FlushGoesOn

Sweep == SweepAnswers \/ SweepCloses

Client ==
  \/ SendRest \/ SendHandshake \/ ClientReads
  \/ \E kind \in Kinds : SendRequest(kind)
  \/ \E how \in {"fin", "rst"} : ClientLeaves(how)

(* The connection is gone, or PushChannel has it. *)
Finished == (pc = "pushed" \/ (pc = "wait" /\ ~alive)) /\ UNCHANGED vars

Next == Wait \/ Serve \/ SweepSkips \/ Sweep \/ Client \/ Tick \/ Finished

Spec == Init /\ [][Next]_vars

(* The worker runs; a sweep that is due every 250 ms comes again and       *)
(* again; the client reads what it is sent.  Nothing makes it send.        *)
Fairness ==
  /\ WF_vars(Wait \/ Serve \/ SweepSkips \/ Sweep)
  /\ SF_vars(Sweep)
  /\ WF_vars(ClientReads)

FairSpec == Spec /\ Fairness

-----------------------------------------------------------------------------
(* Properties.                                                             *)

Pieces == [req : Requests, n : 1 .. 2]

(* Every variable has its type. *)
TypeOK ==
  /\ pc \in {"wait", "dispatch", "read", "process", "flush", "sweep", "pushed"}
  /\ ret \in {"read", "sweep", "swept"}
  /\ ev \subseteq {"readable", "writable", "error"}
  /\ phase \in {"Handshake", "Http", "Push"} /\ alive \in BOOLEAN
  /\ cause \in {"none", "peer", "error", "done", "timeout"}
  /\ handled \in 0 .. MaxRequests
  /\ in \in Seq(Pieces) /\ sent100 \in BOOLEAN /\ inRequest \in BOOLEAN
  /\ parser \in [state : {"StartLine", "Headers", "Body", "Error"}, req : 0 .. MaxRequests]
  /\ closeAfter \in BOOLEAN /\ out \in Seq(Tokens)
  /\ file \in [req : 0 .. MaxRequests, off : 0 .. FileLen, end : 0 .. FileLen]
  /\ mask \subseteq {"in", "out"} /\ registered \in BOOLEAN
  /\ deadline \in {"idle", "header", "body", "never"} /\ due \in BOOLEAN
  /\ script \in Seq(Kinds) /\ piece \in 0 .. 2
  /\ hsSent \in 0 .. HsFlights /\ hsRead \in 0 .. hsSent
  /\ arrived \in Seq(Pieces) /\ wire \in Seq(Tokens) /\ unread \in 0 .. SndCap
  /\ peer \in {"open", "fin", "rst"}

Rank(token) ==
  CASE token.part = "continue" -> 0 [] token.part = "reply" -> 1 [] OTHER -> 1 + token.n

(* The client can tell which reply belongs to which request: replies come  *)
(* in the order of the requests, each once and whole, with its 100 before  *)
(* it and its file behind it, before the next one starts, although one     *)
(* read may bring many requests and any write may stall.  An error reply   *)
(* (400, 408) may stand in a reply's place, or be repeated.                *)
WireInOrder ==
  \A k \in DOMAIN wire :
    /\ \A j \in 1 .. k - 1 :
         /\ wire[j].req <= wire[k].req
         /\ wire[j].req = wire[k].req /\ "error" \notin {wire[j].part, wire[k].part}
              => Rank(wire[j]) < Rank(wire[k])
    /\ \A i \in 1 .. wire[k].req - 1 :
         \E j \in 1 .. k - 1 :
           /\ wire[j].req = i
           /\ wire[j].part = "error" \/ Rank(wire[j]) = 1 + Chunks(script[i])

(* A connection that is closed because it was to close after a reply has   *)
(* first sent all of every reply it owed; and while the worker sleeps,     *)
(* unconsumed input and a close that is still to come both wait for        *)
(* output, whose end takes them up (the tail of flush_output_).            *)
NothingLeftBehind ==
  /\ ~alive /\ cause = "done" => \A i \in 1 .. handled : Replied(i)
  /\ pc = "wait" /\ alive /\ phase = "Http" /\ (in # <<>> \/ closeAfter) => Pending

(* A handshake that wanted to write has left only output watched for, and  *)
(* registered_write does not know of it: until a reply is stalled, which   *)
(* takes a request, the connection hears nothing.                          *)
Deaf == mask = {"out"} /\ ~registered

(* While the worker sleeps, what epoll watches for and the deadline are    *)
(* those of what the connection waits for: input always, room for output   *)
(* exactly when there is output, and the timeout of a body, a head or a    *)
(* request when no output is owed.                                         *)
WaitsRight ==
  pc = "wait" /\ alive /\ phase = "Http" /\ ~Deaf =>
    /\ mask = {"in"} \cup (IF Pending THEN {"out"} ELSE {})
    /\ ~Pending => deadline = IF ~inRequest THEN "idle"
                              ELSE IF parser.state = "Body" THEN "body" ELSE "header"

Sent(i) == Len(script) > i \/ (Len(script) = i /\ piece = NPieces(script[i]))

(* A request that was sent is answered in full, or its connection ends, is *)
(* upgraded or is deaf.                                                    *)
Answered ==
  \A i \in Requests :
    Sent(i) ~> (~alive \/ phase = "Push" \/ Deaf \/ (i <= Len(script) /\ Replied(i)))

(* A deadline that has passed is acted on: the connection closes, or       *)
(* activity that came first has moved the deadline, or a request in part   *)
(* got its 408.  When that 408 stalls the sweep grants one header_timeout   *)
(* more: server.cpp:922 moves the deadline, although the comment above it  *)
(* says that it stays in the past and the next sweep closes for good.      *)
(* That is granted once: a connection that is to close is not answered     *)
(* again, and when its deadline passes it closes, or the client has sent   *)
(* something.                                                              *)
DeadlineActs ==
  /\ due ~> ~due
  /\ [][ret # "swept" /\ ret' = "swept" => ~closeAfter]_vars
  /\ [][due /\ closeAfter /\ ~due' => ~alive' \/ pc = "process" \/ ret = "swept"]_vars
=============================================================================
