--------------------------------- MODULE Rooms ---------------------------------
(***************************************************************************)
(* What threads share above one Pulse channel: pulse::Hub with its rooms,  *)
(* pulse_easy::App with the connections it retains, pulse_media::Hub with  *)
(* its own tables, and the fragmented sends of a channel.  Any thread may  *)
(* call any of them; the connection of a channel is closed by its worker,  *)
(* which runs the close handlers one after the other.  A step is what is   *)
(* done under one hold of one mutex.                                       *)
(*                                                                         *)
(* What becomes of a frame that a channel has accepted is the subject of   *)
(* PushChannel.  pulse_media keys its tables by the address of a channel,  *)
(* and an address is used again when nothing refers to the channel.        *)
(***************************************************************************)
EXTENDS Integers, SequencesExt, FiniteSets

CONSTANTS
  Threads,    (* application threads and workers that call the API         *)
  Chans,      (* channels, each opened at most once                        *)
  RoomNames,  (* rooms of the hub, a finite number                         *)
  Addrs,      (* addresses a Channel::Impl may have                        *)
  Streams,    (* what pulse_media tells the streams of a room apart by:    *)
              (* voice, video or image, and the number of the stream       *)
  WorkerOf,   (* the worker of each channel's connection                   *)
  Ops,        (* what threads do, of AllOps                                *)
  MaxOps,     (* bound: calls that the threads make in all                 *)
  MaxCalls,   (* bound: calls that one thread makes                        *)
  Pieces,     (* fragments of a message sent as a stream, at least 2       *)
  None        (* no room, no address, no channel, no stream                *)

AllOps == {"join", "leave", "leaveAll", "prune", "broadcast", "broadcastAll", "mediaJoin",
           "mediaLeave", "mediaSend", "send", "stream", "release"}

ASSUME RoomsAssumption ==
  /\ Ops \subseteq AllOps /\ MaxOps \in Nat /\ MaxCalls \in Nat
  /\ Pieces \in Nat \ {0, 1}
  /\ IsFiniteSet(RoomNames)
  /\ None \notin RoomNames \cup Addrs \cup Chans \cup (RoomNames \X Streams)

VARIABLES
  phase,      (* of a channel: "new", "bound" while the handler of its     *)
              (* request runs, "open" on its connection, "firing" its      *)
              (* close handlers, "gone", or "lost": never on a connection  *)
  addr,       (* the address of a channel                                  *)
  closed,     (* Impl::closed                                              *)
  closeFired, (* Impl::close_fired                                         *)
  onClose,    (* Impl::on_close: "easy" and "media" hooks                  *)
  hooks,      (* the copy of it that is being run                          *)
  onBinary,   (* Impl::on_binary is media's                                *)
  fragActive, fragFirst, (* Impl::out_frag_active, out_frag_first          *)
  queue,      (* every frame a channel accepted                            *)
  rooms,      (* pulse::Hub::rooms_                                        *)
  live,       (* pulse_easy::App::live_                                    *)
  attached, channelRooms, seqCounters, (* pulse_media::Hub's tables        *)
  pc, call,   (* where a thread is, and in which call                      *)
  calls,      (* calls a thread has made                                   *)
  late,       (* history: channels joined after their handlers were taken, *)
              (* or after the App had released them                        *)
  stale       (* history: addresses a late join left in media's tables     *)

chanVars  == <<phase, addr, closed, closeFired, onClose, hooks, onBinary>>
fragVars  == <<fragActive, fragFirst>>
mediaVars == <<attached, channelRooms, seqCounters>>
history   == <<late, stale>>
vars == <<chanVars, fragVars, queue, rooms, live, mediaVars, pc, call, calls, history>>

(* What pulse_media keys its counters by. *)
Keys == RoomNames \X Streams

Idle == [does |-> "none", chan |-> None, room |-> None, key |-> None, todo |-> <<>>,
         frame |-> None, piece |-> 0]

(* Something refers to the channel, so that its memory is not free: the    *)
(* Response of its request or its Connection, the App, a room, or the copy *)
(* that a call holds.                                                      *)
Referenced(c) ==
  \/ phase[c] \in {"bound", "open", "firing"} \/ c \in live
  \/ \E r \in RoomNames : c \in Range(rooms[r])
  \/ \E t \in Threads : c = call[t].chan \/ c \in Range(call[t].todo)

Frame(t, op, fin) ==
  [by |-> t, n |-> calls[t], op |-> op, fin |-> fin, key |-> call[t].key, seq |-> call[t].piece]

(* Channel::Impl::enqueue *)
Enqueue(c, frame) == queue' = IF closed[c] THEN queue ELSE [queue EXCEPT ![c] = Append(@, frame)]

Init ==
  /\ phase = [c \in Chans |-> "new"]
  /\ addr = [c \in Chans |-> None]
  /\ closed = [c \in Chans |-> FALSE]
  /\ closeFired = [c \in Chans |-> FALSE]
  /\ onClose = [c \in Chans |-> <<>>]
  /\ hooks = [c \in Chans |-> <<>>]
  /\ onBinary = [c \in Chans |-> FALSE]
  /\ fragActive = [c \in Chans |-> FALSE]
  /\ fragFirst = [c \in Chans |-> TRUE]
  /\ queue = [c \in Chans |-> <<>>]
  /\ rooms = [r \in RoomNames |-> <<>>]
  /\ live = {}
  /\ attached = {}
  /\ channelRooms = [a \in Addrs |-> None]
  /\ seqCounters = [k \in Keys |-> 0]
  /\ pc = [t \in Threads |-> "idle"]
  /\ call = [t \in Threads |-> Idle]
  /\ calls = [t \in Threads |-> 0]
  /\ late = {} /\ stale = {}

-----------------------------------------------------------------------------
(* The life of a channel. *)

(* App::bind's handler: upgrade, adopt and wire_channel_.  No one else has *)
(* the channel yet.                                                        *)
Open(c) ==
  /\ phase[c] = "new"
  /\ \E a \in Addrs :
       /\ \A d \in Chans : addr[d] = a => ~Referenced(d)
       /\ addr' = [addr EXCEPT ![c] = a]
  /\ phase' = [phase EXCEPT ![c] = "bound"]
  /\ onClose' = [onClose EXCEPT ![c] = <<"easy">>]
  /\ live' = live \cup {c}
  /\ UNCHANGED <<closed, closeFired, hooks, onBinary, fragVars, queue, rooms, mediaVars, pc, call, calls, history>>

(* The route's own handler has returned: adopt_pulse_ gives the channel to *)
(* the connection.                                                         *)
Adopt(c) ==
  /\ phase[c] = "bound"
  /\ phase' = [phase EXCEPT ![c] = "open"]
  /\ UNCHANGED <<addr, closed, closeFired, onClose, hooks, onBinary, fragVars, queue, rooms, live, mediaVars, pc, call, calls, history>>

(* It threw: handle_request_ answers with another Response, and no         *)
(* connection is ever going to run the handlers that the channel has.      *)
HandlerThrows(c) ==
  /\ phase[c] = "bound"
  /\ phase' = [phase EXCEPT ![c] = "lost"]
  /\ stale' = IF addr[c] \in attached THEN stale \cup {addr[c]} ELSE stale
  /\ UNCHANGED <<addr, closed, closeFired, onClose, hooks, onBinary, fragVars, queue, rooms, live, mediaVars, pc, call, calls, late>>

(* feed_bytes on what is no frame: the channel is closed to senders, and   *)
(* its handlers are not told before the connection goes, which may first   *)
(* have to write what it owes.                                             *)
Refuse(c) ==
  /\ phase[c] = "open" /\ ~closed[c]
  /\ closed' = [closed EXCEPT ![c] = TRUE]
  /\ UNCHANGED <<phase, addr, closeFired, onClose, hooks, onBinary, fragVars, queue, rooms, live, mediaVars, pc, call, calls, history>>

(* The worker takes the close handlers: feed_bytes on the peer's close     *)
(* frame, unless the channel is closed, or release_pulse_ when the         *)
(* connection goes, which closes it to senders.                            *)
FireClose(c) ==
  /\ phase[c] = "open"
  /\ closed' \in {closed, [closed EXCEPT ![c] = TRUE]}
  /\ closeFired' = [closeFired EXCEPT ![c] = TRUE]
  /\ hooks' = [hooks EXCEPT ![c] = onClose[c]]
  /\ phase' = [phase EXCEPT ![c] = "firing"]
  /\ UNCHANGED <<addr, onClose, onBinary, fragVars, queue, rooms, live, mediaVars, pc, call, calls, history>>

(* What erase-remove leaves of a room: those of some, in their order. *)
Keep(members, some) ==
  LET kept[n \in 0 .. Len(members)] ==
        IF n = 0 THEN <<>>
        ELSE IF members[n] \in some THEN Append(kept[n - 1], members[n]) ELSE kept[n - 1]
  IN kept[Len(members)]

Without(members, c) == Keep(members, Chans \ {c})

(* Hub::leave_all *)
LeaveAll(c) == [r \in RoomNames |-> Without(rooms[r], c)]

(* release_id_, called by App's own close handler: first the connection is *)
(* taken out of live_, then it leaves its rooms, if it was still there.    *)
RunEasyHook(c) ==
  /\ phase[c] = "firing" /\ hooks[c] # <<>> /\ Head(hooks[c]) = "easy"
  /\ IF c \in live
     THEN /\ live' = live \ {c}
          /\ hooks' = [hooks EXCEPT ![c] = <<"rooms">> \o Tail(@)]
     ELSE /\ hooks' = [hooks EXCEPT ![c] = Tail(@)]
          /\ UNCHANGED live
  /\ UNCHANGED <<phase, addr, closed, closeFired, onClose, onBinary, fragVars, queue, rooms, mediaVars, pc, call, calls, history>>

RunEasyRooms(c) ==
  /\ phase[c] = "firing" /\ hooks[c] # <<>> /\ Head(hooks[c]) = "rooms"
  /\ rooms' = LeaveAll(c)
  /\ hooks' = [hooks EXCEPT ![c] = Tail(@)]
  /\ UNCHANGED <<phase, addr, closed, closeFired, onClose, onBinary, fragVars, queue, live, mediaVars, pc, call, calls, history>>

(* The close handler of pulse_media::Hub, all under its mutex.  Fault: it  *)
(* forgets the room but not that the address was attached.                 *)
RunMediaHookHalf(c) ==
  /\ phase[c] = "firing" /\ hooks[c] # <<>> /\ Head(hooks[c]) = "media"
  /\ channelRooms' = [channelRooms EXCEPT ![addr[c]] = None]
  /\ rooms' = LeaveAll(c)
  /\ hooks' = [hooks EXCEPT ![c] = Tail(@)]
  /\ UNCHANGED <<phase, addr, closed, closeFired, onClose, onBinary, fragVars, queue, live, attached, seqCounters, pc, call, calls, history>>

RunMediaHook(c) ==
  /\ phase[c] = "firing" /\ hooks[c] # <<>> /\ Head(hooks[c]) = "media"
  /\ channelRooms' = [channelRooms EXCEPT ![addr[c]] = None]
  /\ attached' = attached \ {addr[c]}
  /\ stale' = stale \ {addr[c]}
  /\ rooms' = LeaveAll(c)
  /\ hooks' = [hooks EXCEPT ![c] = Tail(@)]
  /\ UNCHANGED <<phase, addr, closed, closeFired, onClose, onBinary, fragVars, queue, live, seqCounters, pc, call, calls, late>>

(* The handlers have run and the connection lets go of the channel.        *)
(* Fault: it lets go of it without having told them.                       *)
GoneUnfired(c) ==
  /\ phase[c] = "open"
  /\ phase' = [phase EXCEPT ![c] = "gone"]
  /\ closed' = [closed EXCEPT ![c] = TRUE]
  /\ UNCHANGED <<addr, closeFired, onClose, hooks, onBinary, fragVars, queue, rooms, live, mediaVars, pc, call, calls, history>>

Gone(c) ==
  /\ phase[c] = "firing" /\ hooks[c] = <<>>
  /\ phase' = [phase EXCEPT ![c] = "gone"]
  /\ closed' = [closed EXCEPT ![c] = TRUE]
  /\ UNCHANGED <<addr, closeFired, onClose, hooks, onBinary, fragVars, queue, rooms, live, mediaVars, pc, call, calls, history>>

-----------------------------------------------------------------------------
(* What threads do.  A call begins on a channel that something refers to. *)
Begin(t, does) ==
  /\ does \in Ops
  /\ pc[t] = "idle" /\ FoldFunction(+, 0, calls) < MaxOps /\ calls[t] < MaxCalls
  /\ calls' = [calls EXCEPT ![t] = @ + 1]

Return(t) == pc' = [pc EXCEPT ![t] = "idle"] /\ call' = [call EXCEPT ![t] = Idle]

(* The handlers of the channel have been taken, or will never be. *)
PastHandlers(c) == closeFired[c] \/ phase[c] = "lost"

(* A join that the close handlers of the channel cannot undo. *)
JoinedLate(c) == late' = IF closeFired[c] \/ c \notin live THEN late \cup {c} ELSE late

(* Connection::join and Hub::join: nothing asks whether it is a member     *)
(* already, or alive.                                                      *)
Join(t) ==
  /\ Begin(t, "join")
  /\ \E c \in Chans, r \in RoomNames :
       /\ Referenced(c)
       /\ rooms' = [rooms EXCEPT ![r] = Append(@, c)]
       /\ JoinedLate(c)
       /\ UNCHANGED <<chanVars, fragVars, queue, live, mediaVars, pc, call, stale>>

Leave(t) ==
  /\ Begin(t, "leave")
  /\ \E c \in Chans, r \in RoomNames :
       /\ Referenced(c)
       /\ rooms' = [rooms EXCEPT ![r] = Without(@, c)]
       /\ UNCHANGED <<chanVars, fragVars, queue, live, mediaVars, pc, call, history>>

LeaveEverything(t) ==
  /\ Begin(t, "leaveAll")
  /\ \E c \in Chans :
       /\ Referenced(c)
       /\ rooms' = LeaveAll(c)
       /\ UNCHANGED <<chanVars, fragVars, queue, live, mediaVars, pc, call, history>>

(* Hub::prune looks at every member's own lock under the hub's. *)
Prune(t) ==
  \E r \in RoomNames :
    /\ Begin(t, "prune")
    /\ rooms' = [rooms EXCEPT ![r] = Keep(@, {c \in Chans : ~closed[c]})]
    /\ UNCHANGED <<chanVars, fragVars, queue, live, mediaVars, pc, call, history>>

(* App::release, in two holds as in RunEasyHook. *)
Release(t) ==
  \E c \in live :
    /\ Begin(t, "release")
    /\ live' = live \ {c}
    /\ pc' = [pc EXCEPT ![t] = "release"]
    /\ call' = [call EXCEPT ![t] = [Idle EXCEPT !.does = "release", !.chan = c]]
    /\ UNCHANGED <<chanVars, fragVars, queue, rooms, mediaVars, history>>

ReleaseRooms(t) ==
  /\ pc[t] = "release"
  /\ rooms' = LeaveAll(call[t].chan)
  /\ Return(t)
  /\ UNCHANGED <<chanVars, fragVars, queue, live, mediaVars, calls, history>>

(* Hub::broadcast_frame, and broadcast_text to every room: a copy of the   *)
(* members, then one send after the other.                                 *)
Everyone == FlattenSeq([i \in 1..Cardinality(RoomNames) |-> rooms[SetToSeq(RoomNames)[i]]])

Broadcast(t) ==
  \E r \in RoomNames, does \in {"broadcast", "broadcastAll"} :
    /\ Begin(t, does)
    /\ pc' = [pc EXCEPT ![t] = "deliver"]
    /\ call' = [call EXCEPT ![t] = [Idle EXCEPT !.does = does, !.room = r,
                  !.todo = IF does = "broadcast" THEN rooms[r] ELSE Everyone]]
    /\ UNCHANGED <<chanVars, fragVars, queue, rooms, live, mediaVars, history>>

Deliver(t) ==
  /\ pc[t] = "deliver"
  /\ IF call[t].todo = <<>>
     THEN Return(t) /\ UNCHANGED queue
     ELSE /\ Enqueue(Head(call[t].todo), Frame(t, "data", TRUE))
          /\ call' = [call EXCEPT ![t].todo = Tail(@)]
          /\ UNCHANGED pc
  /\ UNCHANGED <<chanVars, fragVars, rooms, live, mediaVars, calls, history>>

-----------------------------------------------------------------------------
(* pulse_media::Hub.  join attaches, joins the room and notes it, each in  *)
(* a hold of its own; attach marks the address first.                      *)
MediaJoin(t) ==
  /\ Begin(t, "mediaJoin")
  /\ \E c \in Chans, r \in RoomNames :
       /\ Referenced(c)
       /\ pc' = [pc EXCEPT ![t] = IF addr[c] \in attached THEN "mediaRoom" ELSE "mediaBinary"]
       /\ attached' = attached \cup {addr[c]}
       /\ call' = [call EXCEPT ![t] = [Idle EXCEPT !.does = "mediaJoin", !.chan = c, !.room = r]]
       /\ UNCHANGED <<chanVars, fragVars, queue, rooms, live, channelRooms, seqCounters, history>>

MediaBinary(t) ==
  /\ pc[t] = "mediaBinary"
  /\ onBinary' = [onBinary EXCEPT ![call[t].chan] = TRUE]
  /\ pc' = [pc EXCEPT ![t] = "mediaHook"]
  /\ UNCHANGED <<phase, addr, closed, closeFired, onClose, hooks, fragVars, queue, rooms, live, mediaVars, call, calls, history>>

MediaHook(t) ==
  LET c == call[t].chan
  IN /\ pc[t] = "mediaHook"
     /\ onClose' = [onClose EXCEPT ![c] = Append(@, "media")]
     /\ pc' = [pc EXCEPT ![t] = "mediaRoom"]
     /\ JoinedLate(c)
     /\ stale' = IF PastHandlers(c) THEN stale \cup {addr[c]} ELSE stale
     /\ UNCHANGED <<phase, addr, closed, closeFired, hooks, onBinary, fragVars, queue, rooms, live, mediaVars, call, calls>>

MediaRoom(t) ==
  /\ pc[t] = "mediaRoom"
  /\ rooms' = [rooms EXCEPT ![call[t].room] = Append(@, call[t].chan)]
  /\ pc' = [pc EXCEPT ![t] = "mediaNote"]
  /\ JoinedLate(call[t].chan)
  /\ UNCHANGED <<chanVars, fragVars, queue, live, mediaVars, call, calls, stale>>

MediaNote(t) ==
  LET c == call[t].chan
  IN /\ pc[t] = "mediaNote"
     /\ channelRooms' = [channelRooms EXCEPT ![addr[c]] = call[t].room]
     /\ JoinedLate(c)
     /\ stale' = IF PastHandlers(c) THEN stale \cup {addr[c]} ELSE stale
     /\ Return(t)
     /\ UNCHANGED <<chanVars, fragVars, queue, rooms, live, attached, seqCounters, calls>>

MediaLeave(t) ==
  /\ Begin(t, "mediaLeave")
  /\ \E c \in Chans, r \in RoomNames :
       /\ Referenced(c)
       /\ channelRooms' = [channelRooms EXCEPT ![addr[c]] = IF @ = r THEN None ELSE @]
       /\ pc' = [pc EXCEPT ![t] = "mediaLeave"]
       /\ call' = [call EXCEPT ![t] = [Idle EXCEPT !.does = "mediaLeave", !.chan = c, !.room = r]]
       /\ UNCHANGED <<chanVars, fragVars, queue, rooms, live, attached, seqCounters, history>>

MediaLeaveRoom(t) ==
  /\ pc[t] = "mediaLeave"
  /\ rooms' = [rooms EXCEPT ![call[t].room] = Without(@, call[t].chan)]
  /\ Return(t)
  /\ UNCHANGED <<chanVars, fragVars, queue, live, mediaVars, calls, history>>

(* next_seq_, then the broadcast of what is packed with it.  Fault: the    *)
(* number is taken before it is counted up.                                *)
MediaCall(t, k) ==
  /\ Begin(t, "mediaSend")
  /\ pc' = [pc EXCEPT ![t] = "mediaCopy"]
  /\ call' = [call EXCEPT ![t] = [Idle EXCEPT !.does = "mediaSend", !.room = k[1], !.key = k,
                                   !.piece = seqCounters[k] + 1]]

MediaSendEarly(t) ==
  \E k \in Keys :
    MediaCall(t, k) /\ UNCHANGED <<chanVars, fragVars, queue, rooms, live, mediaVars, history>>

MediaSend(t) ==
  \E k \in Keys :
    /\ MediaCall(t, k)
    /\ seqCounters' = [seqCounters EXCEPT ![k] = @ + 1]
    /\ UNCHANGED <<chanVars, fragVars, queue, rooms, live, attached, channelRooms, history>>

MediaCopy(t) ==
  /\ pc[t] = "mediaCopy"
  /\ call' = [call EXCEPT ![t].todo = rooms[call[t].room]]
  /\ pc' = [pc EXCEPT ![t] = "deliver"]
  /\ UNCHANGED <<chanVars, fragVars, queue, rooms, live, mediaVars, calls, history>>

-----------------------------------------------------------------------------
(* send_text, and the other calls that queue one whole frame. *)
Send(t) ==
  /\ Begin(t, "send")
  /\ \E c \in Chans :
       /\ Referenced(c)
       /\ Enqueue(c, [Frame(t, "data", TRUE) EXCEPT !.n = calls[t] + 1])
       /\ UNCHANGED <<chanVars, fragVars, rooms, live, mediaVars, pc, call, history>>

(* send_text_stream: begin_fragment_ refuses a second stream, but the last *)
(* write_fragment_ gives the channel free before its frame is queued.      *)
Stream(t) ==
  /\ Begin(t, "stream")
  /\ \E c \in Chans :
       /\ Referenced(c)
       /\ IF closed[c] \/ fragActive[c]
          THEN UNCHANGED <<pc, call, fragVars>>
          ELSE /\ fragActive' = [fragActive EXCEPT ![c] = TRUE]
               /\ fragFirst' = [fragFirst EXCEPT ![c] = TRUE]
               /\ pc' = [pc EXCEPT ![t] = "fragment"]
               /\ call' = [call EXCEPT ![t] = [Idle EXCEPT !.does = "stream", !.chan = c, !.piece = 1]]
       /\ UNCHANGED <<chanVars, queue, rooms, live, mediaVars, history>>

WriteFragment(t) ==
  LET c    == call[t].chan
      last == call[t].piece = Pieces
  IN /\ pc[t] = "fragment"
     /\ IF fragActive[c]
        THEN /\ fragFirst' = [fragFirst EXCEPT ![c] = FALSE]
             /\ fragActive' = [fragActive EXCEPT ![c] = ~last]
             /\ call' = [call EXCEPT ![t].frame = Frame(t, IF fragFirst[c] THEN "data" ELSE "more", last)]
             /\ pc' = [pc EXCEPT ![t] = "queue"]
        ELSE Return(t) /\ UNCHANGED fragVars
     /\ UNCHANGED <<chanVars, queue, rooms, live, mediaVars, calls, history>>

QueueFragment(t) ==
  LET c == call[t].chan
  IN /\ pc[t] = "queue"
     /\ Enqueue(c, call[t].frame)
     /\ IF closed[c] \/ call[t].piece = Pieces
        THEN Return(t)
        ELSE /\ call' = [call EXCEPT ![t] = [Idle EXCEPT !.does = "stream", !.chan = c,
                                                         !.piece = call[t].piece + 1]]
             /\ pc' = [pc EXCEPT ![t] = "fragment"]
     /\ UNCHANGED <<chanVars, fragVars, rooms, live, mediaVars, calls, history>>

-----------------------------------------------------------------------------
WorkerStep(c) ==
  \/ Open(c) \/ Adopt(c) \/ HandlerThrows(c) \/ Refuse(c)
  \/ FireClose(c) \/ RunEasyHook(c) \/ RunEasyRooms(c) \/ RunMediaHook(c) \/ Gone(c)

ThreadStep(t) ==
  \/ Join(t) \/ Leave(t) \/ LeaveEverything(t) \/ Prune(t) \/ Release(t) \/ ReleaseRooms(t)
  \/ Broadcast(t) \/ Deliver(t)
  \/ MediaJoin(t) \/ MediaBinary(t) \/ MediaHook(t) \/ MediaRoom(t) \/ MediaNote(t)
  \/ MediaLeave(t) \/ MediaLeaveRoom(t) \/ MediaSend(t) \/ MediaCopy(t)
  \/ Send(t) \/ Stream(t) \/ WriteFragment(t) \/ QueueFragment(t)

(* A worker does nothing else while a request's handler or close handlers  *)
(* run on it.                                                              *)
WorkerFree(c) ==
  \A d \in Chans \ {c} :
    WorkerOf[d] = WorkerOf[c] => phase[d] # "bound" /\ (phase[d] = "firing" => hooks[d] = <<>>)

Next ==
  \/ \E c \in Chans : WorkerFree(c) /\ WorkerStep(c)
  \/ \E t \in Threads : ThreadStep(t)

Spec == Init /\ [][Next]_vars

-----------------------------------------------------------------------------
Hooks  == {"easy", "rooms", "media"}
Frames == [by : Threads, n : Nat, op : {"data", "more"}, fin : BOOLEAN,
           key : Keys \cup {None}, seq : Nat]
Calls  == [does : AllOps \cup {"none"}, chan : Chans \cup {None}, room : RoomNames \cup {None},
           key : Keys \cup {None}, todo : Seq(Chans), frame : Frames \cup {None}, piece : Nat]
Places == {"idle", "release", "deliver", "mediaBinary", "mediaHook", "mediaRoom", "mediaNote",
           "mediaLeave", "mediaCopy", "fragment", "queue"}

TypeOK ==
  /\ phase \in [Chans -> {"new", "bound", "open", "lost", "firing", "gone"}]
  /\ addr \in [Chans -> Addrs \cup {None}]
  /\ \A c \in Chans : (addr[c] = None) = (phase[c] = "new")
  /\ closed \in [Chans -> BOOLEAN] /\ closeFired \in [Chans -> BOOLEAN]
  /\ \A c \in Chans : closeFired[c] = (phase[c] \in {"firing", "gone"})
  /\ onClose \in [Chans -> Seq(Hooks)] /\ hooks \in [Chans -> Seq(Hooks)]
  /\ onBinary \in [Chans -> BOOLEAN]
  /\ fragActive \in [Chans -> BOOLEAN] /\ fragFirst \in [Chans -> BOOLEAN]
  /\ queue \in [Chans -> Seq(Frames)]
  /\ rooms \in [RoomNames -> Seq(Chans)]
  /\ live \subseteq Chans /\ late \subseteq Chans
  /\ attached \subseteq Addrs /\ stale \subseteq Addrs
  /\ channelRooms \in [Addrs -> RoomNames \cup {None}]
  /\ seqCounters \in [Keys -> Nat]
  /\ pc \in [Threads -> Places] /\ call \in [Threads -> Calls] /\ calls \in [Threads -> Nat]
  /\ \A t \in Threads : (pc[t] = "idle") = (call[t] = Idle)

InCall(c) == \E t \in Threads : call[t].chan = c

(* The tables tell the truth about every channel, however calls of other   *)
(* threads fall between the holds of its close handlers.  "State is        *)
(* retained until close or release" (pulse_easy.h): once they have run, it *)
(* is retained nowhere and in no room, and its address is free of it in    *)
(* the tables of pulse_media.  "Wire binary dispatch" (pulse_media.h): a   *)
(* channel taken for attached dispatches its binary frames and leaves when *)
(* it closes, whatever channel had its address before.  What is left out   *)
(* are joins that came when the handlers had already been taken, or after  *)
(* a release.  A channel whose request's handler threw never closes: the   *)
(* App keeps it until a release, and pulse_media's tables keep its address *)
(* for good, so that a later channel there is taken for attached.          *)
GoneMeansGone(c) ==
  phase[c] = "gone" /\ c \notin late =>
    /\ c \notin live
    /\ \A r \in RoomNames : c \notin Range(rooms[r])
    /\ (\A d \in Chans \ {c} : addr[d] # addr[c]) =>
         addr[c] \notin attached /\ channelRooms[addr[c]] = None

AttachedMeansWired(c) ==
  phase[c] \in {"bound", "open"} /\ addr[c] \in attached /\ addr[c] \notin stale =>
    onBinary[c] /\ "media" \in Range(onClose[c])

TablesTrue == \A c \in Chans : ~InCall(c) => GoneMeansGone(c) /\ AttachedMeansWired(c)

SameCall(f, g) == f.by = g.by /\ f.n = g.n

(* What a member receives of one thread comes in the order in which that   *)
(* thread sent it, piece by piece.  Media frames of two threads may come   *)
(* in another order than that of their numbers, which are drawn before the *)
(* broadcast begins (pulse_media.cpp), but no two frames of a room that    *)
(* one counter numbers have the same.  And between two fragments of a      *)
(* message that are not its last, what is there of other streams is at     *)
(* most their last fragment, whose sender had given the channel free       *)
(* before it queued it.                                                    *)
FramesInOrder ==
  \A c \in Chans : \A i, j \in DOMAIN queue[c] :
    LET f == queue[c][i]
        g == queue[c][j]
    IN i < j =>
         /\ f.by = g.by => f.n < g.n \/ (f.n = g.n /\ f.seq <= g.seq)
         /\ f.key # None /\ f.key = g.key /\ f.seq = g.seq => SameCall(f, g)
         /\ ~f.fin /\ ~g.fin /\ SameCall(f, g) =>
              \A k \in i .. j : queue[c][k].fin \/ SameCall(f, queue[c][k])

(* "Thread-safe: send_text / ... / send_*_stream" (API.md): a peer can put *)
(* the messages together again, since what follows a fragment that is not  *)
(* the last is the next of the same message.                               *)
StreamsWhole ==
  \A c \in Chans : \A i \in 1..(Len(queue[c]) - 1) :
    ~queue[c][i].fin => queue[c][i + 1].op = "more" /\ SameCall(queue[c][i], queue[c][i + 1])
================================================================================
