---------------------------- MODULE ConnectionProofs ----------------------------
(***************************************************************************)
(* Proofs of what Connection promises, for any number of requests of any   *)
(* kinds, any file length and any socket buffer.                           *)
(***************************************************************************)
EXTENDS Connection, WellFoundedInduction, TLAPS

-----------------------------------------------------------------------------
(* Steps.                                                                  *)

Connecting == DispatchError \/ HandshakeWants \/ HandshakeDone \/ HandshakeFails \/ DispatchIo
Reading    == ReadNothing \/ ReadData \/ ReadEndDrops \/ ReadEndKeeps
Processing == ProcessError \/ ProcessPartial \/ HandleRequest \/ HandleUpgrade
Flushing   == WriteOut \/ WriteFile \/ WriteStalls \/ WriteFails \/ FlushCloses \/ FlushGoesOn
Sweeping   == SweepSkips \/ SweepAnswers \/ SweepCloses

LEMMA StepKinds ==
  ASSUME [Next]_vars
  PROVE  \/ Wait \/ Connecting \/ Reading \/ Processing \/ Flushing \/ Sweeping
         \/ Client \/ Tick \/ UNCHANGED vars
BY DEF Next, Serve, Sweep, Finished, Connecting, Reading, Processing, Flushing, Sweeping

-----------------------------------------------------------------------------
(* Flags.                                                                  *)

Flags ==
  /\ alive \in BOOLEAN /\ sent100 \in BOOLEAN /\ inRequest \in BOOLEAN
  /\ closeAfter \in BOOLEAN /\ registered \in BOOLEAN /\ due \in BOOLEAN

LEMMA FlagsKept == Flags /\ [Next]_vars => Flags'
<1> SUFFICES ASSUME Flags, [Next]_vars PROVE Flags'
  OBVIOUS
<1> USE DEF Flags, parseVars, outputVars, interestVars, timerVars, workerVars
<1>1. CASE Wait
  BY <1>1, Zenon DEF Wait
<1>2. CASE Connecting
  <2>1. CASE DispatchError \/ HandshakeFails
    BY <2>1, Zenon DEF DispatchError, HandshakeFails, CloseConn
  <2>2. CASE HandshakeWants
    BY <2>2, Zenon DEF HandshakeWants
  <2>3. CASE HandshakeDone
    BY <2>3, Zenon DEF HandshakeDone, SetDeadline, UpdateInterest, Pending, FilePending
  <2>4. CASE DispatchIo
    BY <2>4, Zenon DEF DispatchIo
  <2> QED
    BY <1>2, <2>1, <2>2, <2>3, <2>4 DEF Connecting
<1>3. CASE Reading
  BY <1>3, Zenon DEF Reading, ReadNothing, ReadData, ReadEndDrops, ReadEndKeeps, CloseConn
<1>4. CASE Processing
  <2>1. CASE ProcessError
    BY <2>1, Zenon DEF ProcessError, LeaveLoop, SetDeadline
  <2>2. CASE ProcessPartial
    BY <2>2, Zenon DEF ProcessPartial, LeaveLoop, SetDeadline
  <2>3. CASE HandleRequest
    BY <2>3, Zenon DEF HandleRequest, LeaveLoop, SetDeadline, Closing
  <2>4. CASE HandleUpgrade
    BY <2>4, Zenon DEF HandleUpgrade
  <2> QED
    BY <1>4, <2>1, <2>2, <2>3, <2>4 DEF Processing
<1>5. CASE Flushing
  <2>1. CASE WriteOut \/ WriteFile
    BY <2>1, Zenon DEF WriteOut, WriteFile
  <2>2. CASE WriteStalls
    BY <2>2, Zenon DEF WriteStalls, UpdateInterest
  <2>3. CASE WriteFails \/ FlushCloses
    BY <2>3, Zenon DEF WriteFails, FlushCloses, CloseConn
  <2>4. CASE FlushGoesOn
    <3>1. FilePending \in BOOLEAN
      BY SMT DEF FilePending
    <3> QED
      BY <2>4, <3>1, Zenon DEF FlushGoesOn, SetDeadline, UpdateInterest
  <2> QED
    BY <1>5, <2>1, <2>2, <2>3, <2>4 DEF Flushing
<1>6. CASE Sweeping
  BY <1>6, Zenon DEF Sweeping, SweepSkips, SweepAnswers, SweepCloses, CloseConn
<1>7. CASE Client \/ Tick
  BY <1>7, Zenon DEF Client, SendRest, SendHandshake, ClientReads, SendRequest, ClientLeaves, Tick
<1>8. CASE UNCHANGED vars
  BY <1>8, Zenon DEF vars
<1> QED
  BY <1>1, <1>2, <1>3, <1>4, <1>5, <1>6, <1>7, <1>8, StepKinds

-----------------------------------------------------------------------------
(* Where the worker stands.                                                *)

Resting == {"wait", "dispatch", "read", "sweep"}

Control ==
  /\ pc \in {"wait", "dispatch", "read", "process", "flush", "sweep", "pushed"}
  /\ ret \in {"read", "sweep", "swept"}
  /\ ev \subseteq {"readable", "writable", "error"}
  /\ phase \in {"Handshake", "Http", "Push"}
  /\ cause \in {"none", "peer", "error", "done", "timeout"}
  /\ deadline \in {"idle", "header", "body", "never"}
  /\ peer \in {"open", "fin", "rst"}

(* A flush that a sweep asked for closes the connection or stalls; a       *)
(* closed connection is not served.                                        *)
Places ==
  /\ ret = "swept" => pc = "flush" /\ closeAfter
  /\ ~alive => pc \in {"wait", "sweep"}
  /\ phase = "Push" => pc = "pushed"
  /\ phase = "Handshake" => pc \in {"wait", "dispatch", "sweep"}

LEMMA ControlKept == Control /\ Places /\ [Next]_vars => Control' /\ Places'
<1> SUFFICES ASSUME Control, Places, [Next]_vars PROVE Control' /\ Places'
  OBVIOUS
<1> USE DEF Control, Places, parseVars, outputVars, interestVars, timerVars, workerVars, kernelVars,
            clientVars, Goto
<1>1. CASE Wait
  BY <1>1 DEF Wait, Ready
<1>2. CASE Connecting
  <2>1. CASE DispatchError
    BY <2>1 DEF DispatchError, CloseConn
  <2>2. CASE HandshakeWants
    BY <2>2 DEF HandshakeWants
  <2>3. CASE HandshakeDone
    BY <2>3 DEF HandshakeDone, SetDeadline
  <2>4. CASE DispatchIo
    BY <2>4 DEF DispatchIo
  <2>5. CASE HandshakeFails
    BY <2>5 DEF HandshakeFails, CloseConn
  <2> QED
    BY <1>2, <2>1, <2>2, <2>3, <2>4, <2>5 DEF Connecting
<1>3. CASE Reading
  <2>1. CASE ReadNothing
    BY <2>1 DEF ReadNothing
  <2>2. CASE ReadData
    BY <2>2 DEF ReadData
  <2>3. CASE ReadEndDrops
    BY <2>3 DEF ReadEndDrops, CloseConn
  <2>4. CASE ReadEndKeeps
    BY <2>4 DEF ReadEndKeeps
  <2> QED
    BY <1>3, <2>1, <2>2, <2>3, <2>4 DEF Reading
<1>4. CASE Processing
  <2>1. CASE ProcessError
    BY <2>1 DEF ProcessError, LeaveLoop, SetDeadline
  <2>2. CASE ProcessPartial
    BY <2>2 DEF ProcessPartial, LeaveLoop, SetDeadline
  <2>3. CASE HandleRequest
    BY <2>3 DEF HandleRequest, LeaveLoop, SetDeadline
  <2>4. CASE HandleUpgrade
    BY <2>4 DEF HandleUpgrade
  <2> QED
    BY <1>4, <2>1, <2>2, <2>3, <2>4 DEF Processing
<1>5. CASE Flushing
  <2>1. CASE WriteOut
    BY <2>1 DEF WriteOut
  <2>2. CASE WriteFile
    BY <2>2 DEF WriteFile
  <2>3. CASE WriteStalls
    BY <2>3 DEF WriteStalls, Writing
  <2>4. CASE WriteFails
    BY <2>4 DEF WriteFails, Writing, CloseConn
  <2>5. CASE FlushCloses
    BY <2>5 DEF FlushCloses, Written, CloseConn
  <2>6. CASE FlushGoesOn
    BY <2>6 DEF FlushGoesOn, Written, SetDeadline
  <2> QED
    BY <1>5, <2>1, <2>2, <2>3, <2>4, <2>5, <2>6 DEF Flushing
<1>6. CASE Sweeping
  <2>1. CASE SweepSkips
    BY <2>1 DEF SweepSkips
  <2>2. CASE SweepAnswers
    BY <2>2 DEF SweepAnswers, TimesOutRequest
  <2>3. CASE SweepCloses
    BY <2>3 DEF SweepCloses, CloseConn
  <2> QED
    BY <1>6, <2>1, <2>2, <2>3 DEF Sweeping
<1>7. CASE Client \/ Tick
  <2>1. CASE SendRest \/ SendHandshake
    BY <2>1 DEF SendRest, SendHandshake
  <2>2. CASE ClientReads \/ Tick
    BY <2>2 DEF ClientReads, Tick
  <2>3. CASE \E kind \in Kinds : SendRequest(kind)
    BY <2>3 DEF SendRequest
  <2>4. CASE \E how \in {"fin", "rst"} : ClientLeaves(how)
    BY <2>4 DEF ClientLeaves
  <2> QED
    BY <1>7, <2>1, <2>2, <2>3, <2>4 DEF Client
<1>8. CASE UNCHANGED vars
  BY <1>8 DEF vars
<1> QED
  BY <1>1, <1>2, <1>3, <1>4, <1>5, <1>6, <1>7, <1>8, StepKinds

-----------------------------------------------------------------------------
(* What the worker waits for.                                              *)

(* During the handshake nothing else has begun.                            *)
Idle ==
  phase = "Handshake" =>
    /\ in = <<>> /\ out = <<>> /\ file = NoFile /\ parser = Fresh
    /\ ~closeAfter /\ ~registered /\ ~inRequest /\ ~sent100 /\ deadline = "idle"

(* What epoll watches for, as registered_write has it or a handshake left  *)
(* it.  A closed connection has nothing.                                   *)
Interest ==
  IF ~alive THEN mask = {} /\ out = <<>> /\ file = NoFile
  ELSE IF registered THEN mask = {"in", "out"} ELSE mask = {"in"} \/ mask = {"out"}

Right == IF ~inRequest THEN "idle" ELSE IF parser.state = "Body" THEN "body" ELSE "header"

(* Between two handlers.                                                   *)
AtRest ==
  alive /\ phase = "Http" /\ pc \in Resting =>
    /\ registered <=> Pending
    /\ ~Pending => deadline = Right
    /\ in # <<>> \/ closeAfter => Pending

Waiting == Idle /\ Interest /\ AtRest

LEMMA NothingPends == ~(NoFile.off < NoFile.end)
BY DEF NoFile

LEMMA UpdatesInterest ==
  ASSUME Flags, Interest, alive, NEW b \in BOOLEAN, UpdateInterest(b)
  PROVE  (registered' <=> b) /\ (IF registered' THEN mask' = {"in", "out"} ELSE mask' = {"in"} \/ mask' = {"out"})
<1>1. CASE b = registered
  <2>1. registered' = registered /\ mask' = mask
    BY <1>1, Zenon DEF UpdateInterest, interestVars
  <2> QED
    BY <1>1, <2>1, Zenon DEF Interest
<1>2. CASE b # registered
  <2>1. registered' = b /\ mask' = {"in"} \cup (IF b THEN {"out"} ELSE {})
    BY <1>2, Zenon DEF UpdateInterest
  <2>2. CASE b
    <3>1. mask' = {"in"} \cup {"out"} /\ registered'
      BY <2>1, <2>2, Zenon
    <3> QED
      BY <2>2, <3>1
  <2>3. CASE ~b
    <3>1. mask' = {"in"} \cup {} /\ ~registered'
      BY <2>1, <2>3, Zenon
    <3> QED
      BY <2>3, <3>1
  <2> QED
    BY <2>2, <2>3
<1> QED
  BY <1>1, <1>2

LEMMA ClosedWaits ==
  ASSUME NEW why, CloseConn(why), Idle
  PROVE  Waiting'
<1>1. ~alive' /\ in' = <<>> /\ out' = <<>> /\ file' = NoFile /\ ~registered' /\ mask' = {}
      /\ UNCHANGED <<phase, parser, closeAfter, inRequest, sent100, deadline>>
  BY Zenon DEF CloseConn
<1> QED
  BY <1>1 DEF Waiting, Idle, Interest, AtRest

LEMMA WaitingKept ==
  Flags /\ Control /\ Places /\ Waiting /\ [Next]_vars => Waiting'
<1> SUFFICES ASSUME Flags, Control, Places, Waiting, [Next]_vars PROVE Waiting'
  OBVIOUS
<1>a. Idle /\ Interest /\ AtRest
  BY DEF Waiting
<1> USE DEF parseVars, outputVars, interestVars, timerVars, workerVars, kernelVars, clientVars
<1>1. CASE Wait
  BY <1>1, <1>a DEF Wait, Waiting, Idle, Interest, AtRest, Right, Pending, FilePending, Resting
<1>2. CASE Connecting
  <2>1. CASE DispatchError \/ HandshakeFails
    BY <1>a, <2>1, ClosedWaits DEF DispatchError, HandshakeFails
  <2>2. CASE HandshakeWants
    <3>1. phase = "Handshake" /\ alive /\ (mask' = {"in"} \/ mask' = {"out"})
          /\ UNCHANGED <<phase, alive, parseVars, outputVars, registered, deadline>>
      BY <2>2 DEF HandshakeWants, Places
    <3> QED
      BY <1>a, <3>1 DEF Waiting, Idle, Interest, AtRest
  <2>3. CASE HandshakeDone
    <3>1. phase = "Handshake" /\ phase' = "Http" /\ alive /\ UpdateInterest(Pending)
          /\ SetDeadline(inRequest, parser.state)
          /\ UNCHANGED <<alive, parseVars, outputVars>>
      BY <2>3, Zenon DEF HandshakeDone, Places
    <3>2. ~Pending /\ ~Pending'
      BY <1>a, <3>1, NothingPends DEF Idle, Pending, FilePending
    <3>3. Pending \in BOOLEAN
      BY Zenon DEF Pending
    <3>4. ~registered' /\ (mask' = {"in"} \/ mask' = {"out"})
      BY <1>a, <3>1, <3>2, <3>3, UpdatesInterest, Zenon
    <3>5. deadline' = Right'
      BY <1>a, <3>1 DEF SetDeadline, Right, Idle
    <3>6. in' = <<>> /\ ~closeAfter'
      BY <1>a, <3>1, Zenon DEF Idle
    <3> QED
      BY <3>1, <3>2, <3>4, <3>5, <3>6 DEF Waiting, Idle, Interest, AtRest
  <2>4. CASE DispatchIo
    BY <1>a, <2>4 DEF DispatchIo, Waiting, Idle, Interest, AtRest, Right, Pending, FilePending, Resting
  <2> QED
    BY <1>2, <2>1, <2>2, <2>3, <2>4 DEF Connecting
<1>3. CASE Reading
  <2>1. CASE ReadNothing
    BY <1>a, <2>1 DEF ReadNothing, Waiting, Idle, Interest, AtRest, Right, Pending, FilePending, Resting
  <2>2. CASE ReadData
    BY <1>a, <2>2 DEF ReadData, Waiting, Idle, Interest, AtRest, Resting, Places
  <2>3. CASE ReadEndDrops
    BY <1>a, <2>3, ClosedWaits DEF ReadEndDrops
  <2>4. CASE ReadEndKeeps
    <3>1. /\ pc = "read" /\ Pending /\ phase # "Handshake" /\ alive
          /\ UNCHANGED <<phase, alive, parser, inRequest, out, file, mask, registered, deadline>>
      BY <2>4 DEF ReadEndKeeps, Places
    <3>2. Pending'
      BY <3>1 DEF Pending, FilePending
    <3> QED
      BY <1>a, <3>1, <3>2 DEF Waiting, Idle, Interest, AtRest, Resting
  <2> QED
    BY <1>3, <2>1, <2>2, <2>3, <2>4 DEF Reading
<1>4. CASE Processing
  <2>1. /\ phase' # "Handshake" /\ pc' \notin Resting /\ alive /\ UNCHANGED <<alive, mask, registered>>
    <3>1. CASE ProcessError
      BY <3>1 DEF ProcessError, LeaveLoop, Goto, Places, Resting
    <3>2. CASE ProcessPartial
      BY <3>2 DEF ProcessPartial, LeaveLoop, Goto, Places, Resting
    <3>3. CASE HandleRequest
      BY <3>3 DEF HandleRequest, LeaveLoop, Goto, Places, Resting
    <3>4. CASE HandleUpgrade
      BY <3>4 DEF HandleUpgrade, Goto, Places, Resting
    <3> QED
      BY <1>4, <3>1, <3>2, <3>3, <3>4 DEF Processing
  <2> QED
    BY <1>a, <2>1 DEF Waiting, Idle, Interest, AtRest
<1>5. CASE Flushing
  <2>1. CASE WriteOut
    BY <1>a, <2>1 DEF WriteOut, Waiting, Idle, Interest, AtRest, Resting, Places
  <2>2. CASE WriteFile
    BY <1>a, <2>2 DEF WriteFile, Waiting, Idle, Interest, AtRest, Resting, Places
  <2>3. CASE WriteStalls
    <3>1. /\ phase # "Handshake" /\ alive /\ UpdateInterest(TRUE)
          /\ UNCHANGED <<phase, alive, parseVars, outputVars>>
      BY <2>3 DEF WriteStalls, Writing, Places
    <3>2. Pending'
      BY <2>3, <3>1 DEF WriteStalls, Writing, Pending, FilePending
    <3>3. registered' /\ mask' = {"in", "out"}
      BY <1>a, <3>1, UpdatesInterest, Zenon
    <3> QED
      BY <3>1, <3>2, <3>3 DEF Waiting, Idle, Interest, AtRest
  <2>4. CASE WriteFails \/ FlushCloses
    BY <1>a, <2>4, ClosedWaits DEF WriteFails, FlushCloses
  <2>5. CASE FlushGoesOn
    <3>1. /\ phase # "Handshake" /\ alive /\ UpdateInterest(FilePending) /\ ~closeAfter
          /\ SetDeadline(inRequest, parser.state)
          /\ out = <<>> /\ file' = IF FilePending THEN file ELSE NoFile
          /\ UNCHANGED <<phase, alive, parseVars, closeAfter, out>>
      BY <2>5, Zenon DEF FlushGoesOn, Written, Writing, Places
    <3>2. Pending' <=> FilePending
      BY <3>1, NothingPends DEF Pending, FilePending
    <3>3. FilePending \in BOOLEAN
      BY SMT DEF FilePending
    <3>4. /\ registered' <=> Pending'
          /\ IF registered' THEN mask' = {"in", "out"} ELSE mask' = {"in"} \/ mask' = {"out"}
      BY <1>a, <3>1, <3>2, <3>3, UpdatesInterest, Zenon
    <3>5. deadline' = Right'
      BY <3>1 DEF SetDeadline, Right
    <3>6. pc' \in Resting => in' = <<>>
      BY <2>5 DEF FlushGoesOn, Goto, Resting
    <3> QED
      BY <3>1, <3>4, <3>5, <3>6 DEF Waiting, Idle, Interest, AtRest
  <2> QED
    BY <1>5, <2>1, <2>2, <2>3, <2>4, <2>5 DEF Flushing
<1>6. CASE Sweeping
  <2>1. CASE SweepSkips
    BY <1>a, <2>1 DEF SweepSkips, Waiting, Idle, Interest, AtRest, Right, Pending, FilePending, Resting
  <2>2. CASE SweepAnswers
    BY <1>a, <2>2 DEF SweepAnswers, TimesOutRequest, Waiting, Idle, Interest, AtRest, Resting
  <2>3. CASE SweepCloses
    BY <1>a, <2>3, ClosedWaits DEF SweepCloses
  <2> QED
    BY <1>6, <2>1, <2>2, <2>3 DEF Sweeping
<1>7. UNCHANGED <<pc, phase, alive, parseVars, outputVars, interestVars, deadline>> => Waiting'
  BY <1>a DEF Waiting, Idle, Interest, AtRest, Right, Pending, FilePending
<1>8. CASE Client \/ Tick
  BY <1>7, <1>8 DEF Client, SendRest, SendHandshake, ClientReads, SendRequest, ClientLeaves, Tick
<1>9. CASE UNCHANGED vars
  BY <1>7, <1>9 DEF vars
<1> QED
  BY <1>1, <1>2, <1>3, <1>4, <1>5, <1>6, <1>8, <1>9, StepKinds

-----------------------------------------------------------------------------
(* Pieces.  What the client has sent and the parser has not taken is the   *)
(* run of pieces from the one the parser expects to the last one sent.     *)

NextPiece(kinds, p) ==
  IF p.n < NPieces(kinds[p.req]) THEN [req |-> p.req, n |-> p.n + 1]
                                 ELSE [req |-> p.req + 1, n |-> 1]

(* The one to be sent next, when n pieces of the last request are sent.    *)
NextSent(kinds, n) ==
  IF kinds = <<>> THEN [req |-> 1, n |-> 1] ELSE NextPiece(kinds, [req |-> Len(kinds), n |-> n])

Expected == [req |-> handled + 1, n |-> IF parser.state = "StartLine" THEN 1 ELSE 2]

First(s, next) == IF s = <<>> THEN next ELSE s[1]

(* Each piece of s is followed by the one that comes after it, and the     *)
(* last one by next.                                                       *)
Flows(kinds, s, next) ==
  \A k \in 1 .. Len(s) : NextPiece(kinds, s[k]) = IF k < Len(s) THEN s[k + 1] ELSE next

Ordered ==
  alive /\ parser.state # "Error" =>
    /\ Flows(script, arrived, NextSent(script, piece))
    /\ Flows(script, in, First(arrived, NextSent(script, piece)))
    /\ First(in, First(arrived, NextSent(script, piece))) = Expected

(* Where the parser stands.                                                *)
Standing ==
  /\ IF script = <<>> THEN piece = 0 ELSE piece \in 1 .. NPieces(script[Len(script)])
  /\ \A k \in 1 .. Len(in) : in[k].req <= Len(script)
  /\ \A k \in 1 .. Len(arrived) : arrived[k].req <= Len(script)
  /\ handled <= Len(script)
  /\ pc = "process" => in # <<>>
  /\ parser.state = "StartLine" => ~inRequest /\ ~sent100
  /\ parser.state # "StartLine" => parser.req = handled + 1 /\ handled + 1 <= Len(script)
  /\ parser.state \in {"Headers", "Body"} => NPieces(script[handled + 1]) = 2

Data ==
  /\ in \in Seq(Pieces) /\ arrived \in Seq(Pieces)
  /\ script \in Seq(Kinds) /\ Len(script) <= MaxRequests /\ piece \in 0 .. 2
  /\ handled \in 0 .. MaxRequests
  /\ parser \in [state : {"StartLine", "Headers", "Body", "Error"}, req : 0 .. MaxRequests]
  /\ hsSent \in 0 .. HsFlights /\ hsRead \in 0 .. hsSent

Output ==
  /\ out \in Seq(Tokens) /\ wire \in Seq(Tokens) /\ unread \in 0 .. SndCap
  /\ file \in [req : 0 .. MaxRequests, off : 0 .. FileLen, end : 0 .. FileLen]

LEMMA PieceFields == \A p \in Pieces : p = [req |-> p.req, n |-> p.n] /\ p.req \in Requests /\ p.n \in 1 .. 2
BY DEF Pieces

LEMMA PieceCounts == \A kind : NPieces(kind) \in {1, 2}
BY DEF NPieces

(* What one call of consume() does.                                        *)
LEMMA Consumed ==
  ASSUME Data, Standing, Ordered, alive, pc = "process", parser.state # "Error"
  PROVE  /\ Used \in 1 .. Len(in) /\ in[Used].req = handled + 1 /\ handled + 1 <= Len(script)
         /\ Parsed = [state |-> ParserAfter(in[Used]), req |-> handled + 1]
         /\ Stopping(Used) \/
              /\ Used = Len(in) /\ in[Used] = [req |-> handled + 1, n |-> 1]
              /\ NPieces(script[handled + 1]) = 2
<1>1. in \in Seq(Pieces) /\ Len(in) \in Nat /\ Len(in) > 0 /\ handled \in Nat
  BY DEF Data, Standing
<1>2. in[1] = Expected /\ in[1].req = handled + 1 /\ handled + 1 <= Len(script)
  <2>1. in[1] = Expected
    BY <1>1 DEF Ordered, First
  <2> QED
    BY <1>1, <2>1 DEF Expected, Standing
<1> DEFINE P(k) == /\ \A j \in 1 .. k - 1 : ~Stopping(j)
                   /\ k = Len(in) \/ (k > 0 /\ Stopping(k))
<1>3. Used = CHOOSE k \in 0 .. Len(in) : P(k)
  BY DEF Used
<1> HIDE DEF P
<1>4. ASSUME NEW u \in 1 .. Len(in), P(u), \A k \in 0 .. Len(in) : P(k) => k = u
      PROVE  Used = u
  BY <1>1, <1>3, <1>4
<1>5. CASE Stopping(1)
  <2>1. P(1) /\ \A k \in 0 .. Len(in) : P(k) => k = 1
    BY <1>1, <1>5 DEF P
  <2>2. Used = 1
    BY <1>1, <1>4, <2>1
  <2> QED
    BY <1>1, <1>2, <1>5, <2>2 DEF Parsed
<1>6. CASE ~Stopping(1)
  <2>1. in[1].n # NPieces(script[handled + 1]) /\ script[handled + 1] # "bad"
    BY <1>2, <1>6 DEF Stopping, ParserAfter
  <2>2. in[1] = [req |-> handled + 1, n |-> 1] /\ NPieces(script[handled + 1]) = 2
    <3>1. parser.state \in {"StartLine", "Headers", "Body"}
      BY DEF Data
    <3>2. CASE parser.state = "StartLine"
      BY <1>2, <2>1, <3>2, PieceCounts DEF Expected
    <3>3. CASE parser.state \in {"Headers", "Body"}
      BY <1>2, <2>1, <3>3 DEF Expected, Standing
    <3> QED
      BY <3>1, <3>2, <3>3
  <2>3. CASE Len(in) = 1
    <3>1. P(1) /\ \A k \in 0 .. Len(in) : P(k) => k = 1
      BY <1>1, <2>3, <1>6 DEF P
    <3>2. Used = 1
      BY <1>1, <1>4, <3>1
    <3> QED
      BY <1>1, <1>2, <2>2, <2>3, <3>2 DEF Parsed
  <2>4. CASE Len(in) > 1
    <3>1. in[2] = [req |-> handled + 1, n |-> 2]
      <4>1. Flows(script, in, First(arrived, NextSent(script, piece)))
        BY DEF Ordered
      <4>2. NextPiece(script, in[1]) = in[2]
        BY <1>1, <2>4, <4>1 DEF Flows
      <4> QED
        BY <1>1, <2>2, <4>2 DEF NextPiece
    <3>2. Stopping(2)
      BY <2>1, <2>2, <3>1 DEF Stopping, ParserAfter
    <3>3. P(2) /\ \A k \in 0 .. Len(in) : P(k) => k = 2
      <4>1. P(2)
        BY <1>1, <1>6, <2>4, <3>2 DEF P
      <4>2. ASSUME NEW k \in 0 .. Len(in), P(k) PROVE k = 2
        <5>1. k # 0 /\ k # 1
          BY <1>1, <1>6, <2>4, <4>2 DEF P
        <5>2. ~(k > 2)
          BY <3>2, <4>2 DEF P
        <5> QED
          BY <5>1, <5>2
      <4> QED
        BY <4>1, <4>2
    <3>4. Used = 2
      BY <1>1, <1>4, <2>4, <3>3
    <3> QED
      BY <1>1, <1>2, <2>4, <3>1, <3>2, <3>4 DEF Parsed
  <2> QED
    <3>1. \A k \in Nat : k > 0 => k = 1 \/ k > 1
      OBVIOUS
    <3>2. Len(in) = 1 \/ Len(in) > 1
      BY <1>1, <3>1
    <3> QED
      BY <2>3, <2>4, <3>2, Zenon
<1> QED
  BY <1>5, <1>6

LEMMA FlowsAppend ==
  ASSUME NEW kinds, NEW s \in Seq(Pieces), NEW p \in Pieces, NEW next,
         Flows(kinds, s, p), NextPiece(kinds, p) = next
  PROVE  Flows(kinds, Append(s, p), next) /\ First(Append(s, p), next) = First(s, p)
<1>1. /\ Append(s, p) \in Seq(Pieces) /\ Len(Append(s, p)) = Len(s) + 1 /\ Len(s) \in Nat
      /\ \A k \in 1 .. Len(s) : Append(s, p)[k] = s[k]
      /\ Append(s, p)[Len(s) + 1] = p
  OBVIOUS
<1>2. First(Append(s, p), next) = First(s, p)
  BY <1>1 DEF First
<1>3. ASSUME NEW k \in 1 .. Len(s) + 1
      PROVE  NextPiece(kinds, Append(s, p)[k]) =
               IF k < Len(s) + 1 THEN Append(s, p)[k + 1] ELSE next
  <2>1. CASE k = Len(s) + 1
    BY <1>1, <2>1
  <2>2. CASE k = Len(s)
    BY <1>1, <2>2 DEF Flows
  <2>3. CASE k < Len(s)
    BY <1>1, <2>3 DEF Flows
  <2> QED
    BY <1>1, <2>1, <2>2, <2>3
<1> QED
  BY <1>1, <1>2, <1>3 DEF Flows

LEMMA FlowsConcat ==
  ASSUME NEW kinds, NEW s \in Seq(Pieces), NEW t \in Seq(Pieces), NEW next,
         Flows(kinds, s, First(t, next)), Flows(kinds, t, next)
  PROVE  Flows(kinds, s \o t, next) /\ First(s \o t, next) = First(s, First(t, next))
<1>1. /\ s \o t \in Seq(Pieces) /\ Len(s \o t) = Len(s) + Len(t)
      /\ Len(s) \in Nat /\ Len(t) \in Nat
      /\ \A k \in 1 .. Len(s) : (s \o t)[k] = s[k]
      /\ \A k \in Len(s) + 1 .. Len(s) + Len(t) : (s \o t)[k] = t[k - Len(s)]
  OBVIOUS
<1>2. /\ s = <<>> <=> Len(s) = 0
      /\ t = <<>> <=> Len(t) = 0
      /\ s \o t = <<>> <=> Len(s) + Len(t) = 0
  BY <1>1
<1>3. First(s \o t, next) = First(s, First(t, next))
  <2>1. CASE Len(s) > 0
    BY <1>1, <1>2, <2>1 DEF First
  <2>2. CASE Len(s) = 0 /\ Len(t) > 0
    BY <1>1, <1>2, <2>2 DEF First
  <2>3. CASE Len(s) = 0 /\ Len(t) = 0
    BY <1>1, <1>2, <2>3 DEF First
  <2> QED
    BY <1>1, <2>1, <2>2, <2>3
<1>4. ASSUME NEW k \in 1 .. Len(s) + Len(t)
      PROVE  NextPiece(kinds, (s \o t)[k]) =
               IF k < Len(s) + Len(t) THEN (s \o t)[k + 1] ELSE next
  <2>1. CASE k < Len(s)
    BY <1>1, <2>1 DEF Flows
  <2>2. CASE k = Len(s)
    BY <1>1, <1>2, <2>2 DEF Flows, First
  <2>3. CASE k > Len(s)
    <3>1. (s \o t)[k] = t[k - Len(s)] /\ k - Len(s) \in 1 .. Len(t)
      BY <1>1, <2>3
    <3>2. k < Len(s) + Len(t) => (s \o t)[k + 1] = t[(k - Len(s)) + 1]
      BY <1>1, <2>3
    <3> QED
      BY <1>1, <2>3, <3>1, <3>2 DEF Flows
  <2> QED
    BY <1>1, <2>1, <2>2, <2>3
<1> QED
  BY <1>1, <1>3, <1>4 DEF Flows

LEMMA FlowsDrop ==
  ASSUME NEW kinds, NEW s \in Seq(Pieces), NEW u \in 1 .. Len(s), NEW r \in Seq(Pieces), NEW next,
         Len(r) = Len(s) - u, \A k \in 1 .. Len(r) : r[k] = s[u + k], Flows(kinds, s, next)
  PROVE  Flows(kinds, r, next) /\ First(r, next) = NextPiece(kinds, s[u])
<1>2. Len(r) \in Nat /\ (r = <<>> <=> Len(r) = 0) /\ Len(s) \in Nat
  <2>1. \A q \in Seq(Pieces) : Len(q) \in Nat /\ (q = <<>> <=> Len(q) = 0)
    OBVIOUS
  <2> QED
    BY <2>1
<1>3. Flows(kinds, r, next)
  <2>1. ASSUME NEW k \in 1 .. Len(r)
        PROVE  NextPiece(kinds, r[k]) = IF k < Len(r) THEN r[k + 1] ELSE next
    <3>1. u + k \in 1 .. Len(s) /\ r[k] = s[u + k] /\ (k < Len(r) <=> u + k < Len(s))
      BY <1>2
    <3>2. k < Len(r) => r[k + 1] = s[(u + k) + 1]
      <4>1. ASSUME k < Len(r) PROVE k + 1 \in 1 .. Len(r) /\ u + (k + 1) = (u + k) + 1
        BY <1>2, <4>1
      <4> QED
        BY <4>1
    <3>3. NextPiece(kinds, s[u + k]) = IF u + k < Len(s) THEN s[(u + k) + 1] ELSE next
      BY <3>1 DEF Flows
    <3> QED
      BY <3>1, <3>2, <3>3
  <2> QED
    BY <2>1 DEF Flows
<1>4. First(r, next) = NextPiece(kinds, s[u])
  BY <1>2 DEF First, Flows
<1> QED
  BY <1>3, <1>4

(* A request more does not change what comes after the earlier pieces.     *)
LEMMA FlowsLater ==
  ASSUME NEW kinds \in Seq(Kinds), NEW kind \in Kinds, NEW s \in Seq(Pieces), NEW next,
         \A k \in 1 .. Len(s) : s[k].req <= Len(kinds), Flows(kinds, s, next)
  PROVE  Flows(Append(kinds, kind), s, next)
<1>1. ASSUME NEW i \in 1 .. Len(kinds) PROVE Append(kinds, kind)[i] = kinds[i]
  OBVIOUS
<1>2. ASSUME NEW k \in 1 .. Len(s) PROVE s[k].req \in 1 .. Len(kinds)
  BY PieceFields DEF Requests
<1>3. ASSUME NEW k \in 1 .. Len(s) PROVE NextPiece(Append(kinds, kind), s[k]) = NextPiece(kinds, s[k])
  BY <1>1, <1>2 DEF NextPiece
<1> QED
  BY <1>3 DEF Flows

-----------------------------------------------------------------------------
(* The input.                                                              *)

Core == Flags /\ Control /\ Places /\ Waiting

Arrivals == Data /\ Standing /\ Ordered

inputVars == <<in, arrived, script, piece, parser, inRequest, sent100, handled>>

LEMMA UsedByError ==
  ASSUME Data, parser.state = "Error"
  PROVE  Used = 0 /\ Parsed = parser /\ Rest = in
<1>1. Used = 0
  BY DEF Used
<1>2. in \in Seq(Pieces)
  BY DEF Data
<1>3. SubSeq(in, 1, Len(in)) = in
  BY <1>2
<1> QED
  BY <1>1, <1>3 DEF Parsed, Rest

LEMMA InputUntouched ==
  ASSUME Arrivals, UNCHANGED inputVars, alive' = alive,
         hsSent' \in 0 .. HsFlights, hsRead' \in 0 .. hsSent', pc' = "process" => in # <<>>
  PROVE  Arrivals'
BY DEF Arrivals, Data, Standing, Ordered, Expected, inputVars

LEMMA InputDropped ==
  ASSUME Arrivals, Places, NEW why, CloseConn(why)
  PROVE  Arrivals'
<1>1. /\ ~alive' /\ in' = <<>> /\ pc' # "process"
      /\ UNCHANGED <<arrived, script, piece, parser, inRequest, sent100, handled, hsSent, hsRead>>
  BY Zenon DEF CloseConn, Goto, clientVars, kernelVars
<1>2. in' \in Seq(Pieces) /\ Len(in') = 0
  BY <1>1
<1>3. Data' /\ Standing'
  BY <1>1, <1>2 DEF Arrivals, Data, Standing
<1> QED
  BY <1>1, <1>3 DEF Arrivals, Ordered

(* What has arrived is read.                                               *)
LEMMA InputRead ==
  ASSUME Arrivals, in' = in \o arrived, arrived' = <<>>, alive' = alive,
         UNCHANGED <<script, piece, parser, inRequest, sent100, handled, hsSent, hsRead>>,
         pc' = "process" => arrived # <<>>
  PROVE  Arrivals'
<1> USE DEF Arrivals
<1> DEFINE next == NextSent(script, piece)
<1>1. in \in Seq(Pieces) /\ arrived \in Seq(Pieces) /\ Len(in) \in Nat /\ Len(arrived) \in Nat
  BY DEF Data
<1>2. /\ in' \in Seq(Pieces) /\ Len(in') = Len(in) + Len(arrived)
      /\ \A k \in 1 .. Len(in) : in'[k] = in[k]
      /\ \A k \in Len(in) + 1 .. Len(in) + Len(arrived) : in'[k] = arrived[k - Len(in)]
      /\ arrived' \in Seq(Pieces) /\ Len(arrived') = 0
      /\ arrived # <<>> => in' # <<>>
  BY <1>1
<1>3. Data'
  BY <1>2 DEF Data
<1>4. Standing'
  <2>1. ASSUME NEW k \in 1 .. Len(in') PROVE in'[k].req <= Len(script)
    <3>1. CASE k <= Len(in)
      BY <1>1, <1>2, <3>1 DEF Standing
    <3>2. CASE k > Len(in)
      <4>1. k - Len(in) \in 1 .. Len(arrived) /\ in'[k] = arrived[k - Len(in)]
        BY <1>1, <1>2, <3>2
      <4> QED
        BY <4>1 DEF Standing
    <3> QED
      BY <1>1, <1>2, <3>1, <3>2
  <2> QED
    BY <1>2, <2>1 DEF Standing
<1>5. ASSUME alive, parser.state # "Error"
      PROVE  /\ Flows(script, in', next) /\ Flows(script, arrived', next)
             /\ First(in', next) = Expected
  <2>1. Flows(script, arrived, next) /\ Flows(script, in, First(arrived, next))
        /\ First(in, First(arrived, next)) = Expected
    BY <1>5 DEF Ordered
  <2>2. Flows(script, in', next) /\ First(in', next) = Expected
    BY <1>1, <2>1, FlowsConcat
  <2>3. Flows(script, arrived', next)
    BY <1>2 DEF Flows
  <2> QED
    BY <2>2, <2>3
<1>6. Expected' = Expected /\ next' = next
  BY DEF Expected
<1>7. First(arrived', next) = next
  BY DEF First
<1> QED
  BY <1>3, <1>4, <1>5, <1>6, <1>7 DEF Ordered

(* The client goes on.                                                     *)
LEMMA MorePieces ==
  ASSUME Arrivals, ConnectionAssumption, SendRest
  PROVE  Arrivals'
<1> USE DEF Arrivals
<1> DEFINE p == [req |-> Len(script), n |-> piece + 1]
           next == NextSent(script, piece)
           after == NextSent(script, piece + 1)
<1>1. /\ script # <<>> /\ piece < NPieces(script[Len(script)])
      /\ piece' = piece + 1 /\ arrived' = Append(arrived, p)
      /\ UNCHANGED <<in, script, parser, inRequest, sent100, handled, hsSent, hsRead, pc, alive>>
  BY DEF SendRest, parseVars, workerVars
<1>2. /\ script \in Seq(Kinds) /\ Len(script) \in 1 .. MaxRequests /\ piece \in 1 .. 2
      /\ piece + 1 \in 1 .. 2 /\ piece + 1 <= NPieces(script[Len(script)])
      /\ in \in Seq(Pieces) /\ arrived \in Seq(Pieces)
  <2>1. /\ script \in Seq(Kinds) /\ in \in Seq(Pieces) /\ arrived \in Seq(Pieces)
        /\ Len(script) <= MaxRequests /\ MaxRequests \in Nat
    BY ConnectionAssumption DEF Data, ConnectionAssumption
  <2>2. Len(script) \in 1 .. MaxRequests
    BY <1>1, <2>1
  <2>3. piece \in 1 .. NPieces(script[Len(script)])
    BY <1>1 DEF Standing
  <2>4. NPieces(script[Len(script)]) \in {1, 2}
    BY PieceCounts
  <2>5. piece \in 1 .. 2 /\ piece + 1 \in 1 .. 2 /\ piece + 1 <= NPieces(script[Len(script)])
    BY <1>1, <2>3, <2>4
  <2> QED
    BY <2>1, <2>2, <2>5
<1>3. p \in Pieces
  BY <1>2 DEF Pieces, Requests
<1>4. next = p
  BY <1>1, <1>2 DEF NextSent, NextPiece
<1>5. NextPiece(script, p) = after
  BY <1>1, <1>2 DEF NextSent
<1>6. arrived' \in Seq(Pieces) /\ Len(arrived') = Len(arrived) + 1
      /\ (\A k \in 1 .. Len(arrived) : arrived'[k] = arrived[k]) /\ arrived'[Len(arrived) + 1] = p
  BY <1>1, <1>2, <1>3
<1>7. Data'
  BY <1>1, <1>2, <1>6 DEF Data
<1>8. Standing'
  <2>1. ASSUME NEW k \in 1 .. Len(arrived') PROVE arrived'[k].req <= Len(script)
    <3>1. CASE k = Len(arrived) + 1
      BY <1>2, <1>6, <3>1
    <3>2. CASE k # Len(arrived) + 1
      <4>1. k \in 1 .. Len(arrived)
        BY <1>2, <1>6, <3>2
      <4> QED
        BY <1>6, <4>1 DEF Standing
    <3> QED
      BY <3>1, <3>2
  <2> QED
    BY <1>1, <1>2, <2>1 DEF Standing
<1>9. ASSUME alive, parser.state # "Error"
      PROVE  /\ Flows(script, arrived', after) /\ First(arrived', after) = First(arrived, next)
             /\ Flows(script, in, First(arrived, next)) /\ First(in, First(arrived, next)) = Expected
  <2>1. Flows(script, arrived, next) /\ Flows(script, in, First(arrived, next))
        /\ First(in, First(arrived, next)) = Expected
    BY <1>9 DEF Ordered
  <2> QED
    BY <1>1, <1>2, <1>3, <1>4, <1>5, <2>1, FlowsAppend
<1>10. Expected' = Expected /\ NextSent(script', piece') = after
  BY <1>1 DEF Expected
<1> QED
  BY <1>1, <1>7, <1>8, <1>9, <1>10 DEF Ordered

(* The client begins a request.                                            *)
LEMMA MoreRequests ==
  ASSUME Arrivals, NEW kind \in Kinds, SendRequest(kind)
  PROVE  Arrivals'
<1> USE DEF Arrivals
<1> DEFINE p == [req |-> Len(script) + 1, n |-> 1]
           next == NextSent(script, piece)
           after == NextSent(script', 1)
<1>1. /\ Len(script) < MaxRequests
      /\ script # <<>> => piece = NPieces(script[Len(script)])
      /\ script' = Append(script, kind) /\ piece' = 1 /\ arrived' = Append(arrived, p)
      /\ UNCHANGED <<in, parser, inRequest, sent100, handled, hsSent, hsRead, pc, alive>>
  BY DEF SendRequest, parseVars, workerVars
<1>2. /\ script \in Seq(Kinds) /\ Len(script) \in Nat /\ MaxRequests \in Nat
      /\ in \in Seq(Pieces) /\ arrived \in Seq(Pieces)
  BY <1>1, ConnectionAssumption DEF Data, ConnectionAssumption
<1>3. p \in Pieces
  BY <1>1, <1>2 DEF Pieces, Requests
<1>4. next = p
  <2>1. CASE script = <<>>
    <3>1. Len(script) = 0
      BY <2>1
    <3> QED
      BY <2>1, <3>1 DEF NextSent
  <2>2. CASE script # <<>>
    <3>1. piece = NPieces(script[Len(script)]) /\ ~(piece < piece)
      BY <1>1, <2>2 DEF Data
    <3> QED
      BY <2>2, <3>1, Zenon DEF NextSent, NextPiece
  <2> QED
    BY <2>1, <2>2
<1>5. /\ script' \in Seq(Kinds) /\ Len(script') = Len(script) + 1 /\ script' # <<>>
      /\ \A i \in 1 .. Len(script) : script'[i] = script[i]
  BY <1>1, <1>2
<1>6. NextPiece(script', p) = after
  BY <1>2, <1>5 DEF NextSent
<1>7. arrived' \in Seq(Pieces) /\ Len(arrived') = Len(arrived) + 1
      /\ (\A k \in 1 .. Len(arrived) : arrived'[k] = arrived[k]) /\ arrived'[Len(arrived) + 1] = p
  BY <1>1, <1>2, <1>3
<1>8. Data'
  BY <1>1, <1>2, <1>5, <1>7 DEF Data
<1>9. Standing'
  <2>1. ASSUME NEW k \in 1 .. Len(arrived') PROVE arrived'[k].req <= Len(script')
    <3>1. CASE k = Len(arrived) + 1
      BY <1>2, <1>5, <1>7, <3>1
    <3>2. CASE k # Len(arrived) + 1
      <4>1. k \in 1 .. Len(arrived) /\ Len(arrived) \in Nat
        BY <1>2, <1>7, <3>2
      <4>2. arrived[k] \in Pieces /\ arrived[k].req <= Len(script)
        BY <1>2, <4>1 DEF Standing
      <4>3. arrived[k].req \in Nat
        BY <4>2, PieceFields DEF Requests
      <4> QED
        BY <1>2, <1>5, <1>7, <4>1, <4>2, <4>3
    <3> QED
      BY <3>1, <3>2
  <2>2. ASSUME NEW k \in 1 .. Len(in) PROVE in[k].req <= Len(script')
    <3>1. in[k] \in Pieces /\ in[k].req <= Len(script)
      BY <1>2 DEF Standing
    <3> QED
      BY <1>2, <1>5, <3>1, PieceFields DEF Requests
  <2>3. 1 \in 1 .. NPieces(script'[Len(script')])
    BY PieceCounts
  <2>4. handled \in Nat /\ handled <= Len(script) /\ handled <= Len(script')
    BY <1>2, <1>5 DEF Data, Standing
  <2>5. handled + 1 <= Len(script) => handled + 1 <= Len(script') /\ script'[handled + 1] = script[handled + 1]
    BY <1>2, <1>5, <2>4
  <2> QED
    BY <1>1, <1>5, <2>1, <2>2, <2>3, <2>4, <2>5 DEF Standing
<1>10. ASSUME alive, parser.state # "Error"
      PROVE  /\ Flows(script', arrived', after) /\ First(arrived', after) = First(arrived, next)
             /\ Flows(script', in, First(arrived, next)) /\ First(in, First(arrived, next)) = Expected
  <2>1. Flows(script, arrived, next) /\ Flows(script, in, First(arrived, next))
        /\ First(in, First(arrived, next)) = Expected
    BY <1>10 DEF Ordered
  <2>2. \A k \in 1 .. Len(arrived) : arrived[k].req <= Len(script)
    BY DEF Standing
  <2>3. \A k \in 1 .. Len(in) : in[k].req <= Len(script)
    BY DEF Standing
  <2>4. Flows(script', arrived, p)
    BY <1>1, <1>2, <1>4, <2>1, <2>2, FlowsLater
  <2>5. Flows(script', in, First(arrived, next))
    BY <1>1, <1>2, <2>1, <2>3, FlowsLater
  <2> QED
    BY <1>1, <1>2, <1>3, <1>4, <1>6, <2>1, <2>4, <2>5, FlowsAppend
<1>11. Expected' = Expected /\ NextSent(script', piece') = after
  BY <1>1 DEF Expected
<1> QED
  BY <1>1, <1>8, <1>9, <1>10, <1>11 DEF Ordered

(* What one turn of the loop leaves of the input.                          *)
LEMMA InputConsumed ==
  ASSUME Arrivals, alive, pc = "process", parser.state # "Error", in' = Rest
  PROVE  /\ in' \in Seq(Pieces) /\ \A k \in 1 .. Len(in') : in'[k].req <= Len(script)
         /\ Flows(script, in', First(arrived, NextSent(script, piece)))
         /\ First(in', First(arrived, NextSent(script, piece))) = NextPiece(script, in[Used])
<1> DEFINE then == First(arrived, NextSent(script, piece))
<1>1. Used \in 1 .. Len(in) /\ in \in Seq(Pieces) /\ Len(in) \in Nat
  BY Consumed DEF Arrivals, Data
<1>2. Flows(script, in, then)
  BY DEF Arrivals, Ordered
<1>3. /\ in' \in Seq(Pieces) /\ Len(in') = Len(in) - Used
      /\ \A k \in 1 .. Len(in') : in'[k] = in[Used + k]
  BY <1>1 DEF Rest
<1>5. Flows(script, in', then) /\ First(in', then) = NextPiece(script, in[Used])
  <2> HIDE DEF then
  <2> QED
    <3>1. PICK r : r = in'
      OBVIOUS
    <3>2. r \in Seq(Pieces) /\ Len(r) = Len(in) - Used
      BY <1>3, <3>1
    <3>3. \A k \in 1 .. Len(r) : r[k] = in[Used + k]
      BY <1>3, <3>1
    <3>a. PICK s : s = in
      OBVIOUS
    <3>b. PICK u : u = Used
      OBVIOUS
    <3>c. /\ s \in Seq(Pieces) /\ u \in 1 .. Len(s) /\ Len(r) = Len(s) - u
          /\ \A k \in 1 .. Len(r) : r[k] = s[u + k]
      BY <1>1, <3>2, <3>3, <3>a, <3>b
    <3>d. Flows(script, s, then)
      BY <1>2, <3>a
    <3>4. Flows(script, r, then)
      BY <3>2, <3>c, <3>d, FlowsDrop
    <3>5. First(r, then) = NextPiece(script, in[Used])
      <4>1. First(r, then) = NextPiece(script, s[u])
        BY <3>2, <3>c, <3>d, FlowsDrop
      <4> QED
        BY <3>a, <3>b, <4>1
    <3> QED
      BY <3>1, <3>4, <3>5
<1>4. ASSUME NEW k \in 1 .. Len(in') PROVE in'[k].req <= Len(script)
  <2>1. Used + k \in 1 .. Len(in)
    BY <1>1, <1>3
  <2> QED
    BY <1>3, <2>1 DEF Arrivals, Standing
<1> QED
  BY <1>3, <1>4, <1>5

(* A request is complete.                                                  *)
LEMMA RequestTaken ==
  ASSUME Arrivals, ConnectionAssumption, alive, pc = "process", Parsed.state = "Complete",
         in' = Rest, parser' = [Fresh EXCEPT !.req = Parsed.req], sent100' = FALSE, inRequest' = FALSE,
         handled' = handled + 1, alive' = alive,
         UNCHANGED <<script, piece, arrived, hsSent, hsRead>>,
         pc' = "process" => in' # <<>>
  PROVE  Arrivals' /\ Parsed.req = handled + 1 /\ handled + 1 \in 1 .. Len(script)
<1> DEFINE next == First(arrived, NextSent(script, piece))
<1>0. /\ handled \in Nat /\ script \in Seq(Kinds) /\ Len(script) \in Nat /\ Len(script) <= MaxRequests
      /\ MaxRequests \in Nat
  BY ConnectionAssumption DEF Arrivals, Data, ConnectionAssumption
<1>1. parser.state # "Error"
  BY UsedByError DEF Arrivals
<1>2. /\ Used \in 1 .. Len(in) /\ in[Used].req = handled + 1 /\ handled + 1 <= Len(script)
      /\ Parsed = [state |-> ParserAfter(in[Used]), req |-> handled + 1]
  BY <1>1, Consumed DEF Arrivals
<1>3. in[Used].n = NPieces(script[handled + 1])
  <2>1. ParserAfter(in[Used]) = "Complete"
    BY <1>2
  <2> QED
    BY <1>2, <2>1, Zenon DEF ParserAfter
<1>4. NextPiece(script, in[Used]) = [req |-> handled + 1 + 1, n |-> 1]
  <2>1. in[Used].n \in Nat
    BY <1>3, PieceCounts
  <2> QED
    BY <1>2, <1>3, <2>1 DEF NextPiece
<1>5. parser' = [state |-> "StartLine", req |-> handled + 1]
  BY <1>2 DEF Fresh
<1>6. /\ in' \in Seq(Pieces) /\ \A k \in 1 .. Len(in') : in'[k].req <= Len(script)
      /\ Flows(script, in', next) /\ First(in', next) = [req |-> handled + 1 + 1, n |-> 1]
  BY <1>1, <1>4, InputConsumed
<1>7. Data'
  <2>1. handled + 1 \in 0 .. MaxRequests
    BY <1>0, <1>2
  <2>2. parser' \in [state : {"StartLine", "Headers", "Body", "Error"}, req : 0 .. MaxRequests]
    <3>1. \A h \in 0 .. MaxRequests :
            [state |-> "StartLine", req |-> h] \in
              [state : {"StartLine", "Headers", "Body", "Error"}, req : 0 .. MaxRequests]
      OBVIOUS
    <3> QED
      BY <1>5, <2>1, <3>1, Zenon
  <2> QED
    BY <1>6, <2>1, <2>2 DEF Data, Arrivals
<1>8. Standing'
  BY <1>0, <1>2, <1>5, <1>6 DEF Standing, Arrivals
<1>9. Flows(script, arrived, NextSent(script, piece))
  BY <1>1 DEF Arrivals, Ordered
<1>10. Expected' = [req |-> handled + 1 + 1, n |-> 1]
  BY <1>5 DEF Expected
<1>11. next' = next
  OBVIOUS
<1>12. Ordered'
  BY <1>6, <1>9, <1>10, <1>11 DEF Ordered
<1> QED
  BY <1>0, <1>2, <1>7, <1>8, <1>12 DEF Arrivals

(* A request is not complete.                                              *)
LEMMA RequestBegun ==
  ASSUME Arrivals, ConnectionAssumption, alive, ProcessPartial
  PROVE  /\ Arrivals' /\ Parsed.req = handled + 1 /\ handled + 1 \in 1 .. Len(script)
         /\ parser' = Parsed /\ inRequest' /\ in' = <<>>
         /\ Parsed.state \in {"Headers", "Body"} /\ NPieces(script[handled + 1]) = 2
<1> DEFINE next == First(arrived, NextSent(script, piece))
<1>0. /\ handled \in Nat /\ script \in Seq(Kinds) /\ Len(script) \in Nat /\ Len(script) <= MaxRequests
      /\ MaxRequests \in Nat
  BY ConnectionAssumption DEF Arrivals, Data, ConnectionAssumption
<1>a. /\ pc = "process" /\ Parsed.state \notin {"Complete", "Error"}
      /\ in' = Rest /\ parser' = Parsed /\ inRequest' = (inRequest \/ Used > 0)
      /\ sent100' = (sent100 \/ Parsed.state = "Body") /\ pc' = "flush"
      /\ UNCHANGED <<script, piece, arrived, hsSent, hsRead, handled, alive>>
  BY DEF ProcessPartial, LeaveLoop, Goto, clientVars, kernelVars
<1>1. parser.state # "Error"
  BY <1>a, UsedByError DEF Arrivals
<1>2. /\ Used \in 1 .. Len(in) /\ in[Used].req = handled + 1 /\ handled + 1 <= Len(script)
      /\ Parsed = [state |-> ParserAfter(in[Used]), req |-> handled + 1]
      /\ Used = Len(in) /\ in[Used] = [req |-> handled + 1, n |-> 1]
      /\ NPieces(script[handled + 1]) = 2
  <2>1. Parsed.state = ParserAfter(in[Used]) => ~Stopping(Used)
    BY <1>a DEF Stopping
  <2> QED
    BY <1>1, <1>a, <2>1, Consumed DEF Arrivals
<1>3. NextPiece(script, in[Used]) = [req |-> handled + 1, n |-> 2]
  BY <1>2 DEF NextPiece
<1>4. Parsed.state \in {"Headers", "Body"}
  <2>1. ParserAfter(in[Used]) \in {"Error", "Complete", "Headers", "Body"}
    BY DEF ParserAfter
  <2> QED
    BY <1>2, <1>a, <2>1
<1>5. /\ in' \in Seq(Pieces) /\ \A k \in 1 .. Len(in') : in'[k].req <= Len(script)
      /\ Flows(script, in', next) /\ First(in', next) = [req |-> handled + 1, n |-> 2]
  BY <1>1, <1>a, <1>3, InputConsumed
<1>6. in' = <<>>
  BY <1>a, <1>2 DEF Rest, Arrivals, Data
<1>7. Data'
  BY <1>0, <1>a, <1>2, <1>4, <1>5 DEF Data, Arrivals
<1>8. Standing'
  BY <1>0, <1>a, <1>2, <1>4, <1>5 DEF Standing, Arrivals
<1>9. Flows(script, arrived, NextSent(script, piece))
  BY <1>1, <1>a DEF Arrivals, Ordered
<1>10. Expected' = [req |-> handled + 1, n |-> 2]
  BY <1>a, <1>2, <1>4 DEF Expected
<1>11. next' = next
  BY <1>a
<1>12. Ordered'
  BY <1>a, <1>5, <1>9, <1>10, <1>11 DEF Ordered
<1>13. inRequest'
  <2>1. Used > 0
    BY <1>2
  <2> QED
    BY <1>a, <2>1, Zenon
<1> QED
  BY <1>0, <1>a, <1>2, <1>4, <1>6, <1>7, <1>8, <1>12, <1>13 DEF Arrivals

(* A request is refused.                                                   *)
LEMMA RequestRefused ==
  ASSUME Arrivals, ConnectionAssumption, alive, ProcessError
  PROVE  /\ Arrivals' /\ Parsed.req = handled + 1 /\ handled + 1 \in 1 .. Len(script)
         /\ parser.state # "Error" => script[handled + 1] = "bad"
<1>0. /\ handled \in Nat /\ script \in Seq(Kinds) /\ Len(script) \in Nat /\ Len(script) <= MaxRequests
      /\ MaxRequests \in Nat
  BY ConnectionAssumption DEF Arrivals, Data, ConnectionAssumption
<1>a. /\ pc = "process" /\ Parsed.state = "Error"
      /\ in' = Rest /\ parser' = Parsed /\ inRequest' = (inRequest \/ Used > 0) /\ pc' = "flush"
      /\ UNCHANGED <<script, piece, arrived, hsSent, hsRead, handled, alive, sent100>>
  BY DEF ProcessError, LeaveLoop, Goto, clientVars, kernelVars
<1>1. ASSUME parser.state = "Error"
      PROVE  Parsed = parser /\ in' = in /\ Parsed.req = handled + 1 /\ handled + 1 <= Len(script)
  BY <1>1, <1>a, UsedByError DEF Arrivals, Standing
<1>2. ASSUME parser.state # "Error"
      PROVE  /\ Parsed = [state |-> "Error", req |-> handled + 1] /\ handled + 1 <= Len(script)
             /\ in' \in Seq(Pieces) /\ \A k \in 1 .. Len(in') : in'[k].req <= Len(script)
             /\ script[handled + 1] = "bad"
  <2>1. /\ in[Used].req = handled + 1 /\ handled + 1 <= Len(script)
        /\ Parsed = [state |-> ParserAfter(in[Used]), req |-> handled + 1]
    BY <1>2, <1>a, Consumed DEF Arrivals
  <2>2. ParserAfter(in[Used]) = "Error"
    BY <1>a, <2>1
  <2>3. script[handled + 1] = "bad"
    BY <2>1, <2>2 DEF ParserAfter
  <2> QED
    BY <1>2, <1>a, <2>1, <2>2, <2>3, InputConsumed
<1>3. /\ in' \in Seq(Pieces) /\ \A k \in 1 .. Len(in') : in'[k].req <= Len(script)
  BY <1>1, <1>2 DEF Arrivals, Data, Standing
<1>4. parser' \in [state : {"Error"}, req : 0 .. MaxRequests] /\ parser'.req = handled + 1
  <2>1. parser \in [state : {"StartLine", "Headers", "Body", "Error"}, req : 0 .. MaxRequests]
    BY DEF Arrivals, Data
  <2> QED
    BY <1>0, <1>1, <1>2, <1>a, <2>1
<1>5. Data'
  BY <1>a, <1>3, <1>4 DEF Arrivals, Data
<1>6. Standing'
  BY <1>a, <1>0, <1>1, <1>2, <1>3, <1>4 DEF Arrivals, Standing
<1>7. Ordered'
  BY <1>4 DEF Ordered
<1> QED
  BY <1>0, <1>1, <1>2, <1>5, <1>6, <1>7 DEF Arrivals

LEMMA ArrivalsKept ==
  ConnectionAssumption /\ Core /\ Arrivals /\ [Next]_vars => Arrivals'
<1> SUFFICES ASSUME ConnectionAssumption, Core, Arrivals, [Next]_vars PROVE Arrivals'
  OBVIOUS
<1>a. Places /\ hsSent \in 0 .. HsFlights /\ hsRead \in 0 .. hsSent
      /\ (pc = "process" => in # <<>>) /\ HsFlights \in Nat
  BY ConnectionAssumption DEF Core, Arrivals, Data, Standing, ConnectionAssumption
<1>b. pc = "process" => alive
  BY <1>a DEF Places
<1> USE DEF parseVars, workerVars, clientVars, kernelVars, inputVars
<1>1. CASE Wait
  BY <1>a, <1>1, InputUntouched DEF Wait
<1>2. CASE Connecting
  <2>1. CASE DispatchError \/ HandshakeFails
    BY <1>a, <2>1, InputDropped DEF DispatchError, HandshakeFails
  <2>2. CASE HandshakeWants
    BY <1>a, <2>2, InputUntouched DEF HandshakeWants, Goto
  <2>3. CASE HandshakeDone
    BY <1>a, <2>3, InputUntouched DEF HandshakeDone, Goto
  <2>4. CASE DispatchIo
    BY <1>a, <2>4, InputUntouched DEF DispatchIo
  <2> QED
    BY <1>2, <2>1, <2>2, <2>3, <2>4 DEF Connecting
<1>3. CASE Reading
  <2>1. CASE ReadNothing
    BY <1>a, <2>1, InputUntouched DEF ReadNothing, Goto
  <2>2. CASE ReadData
    BY <2>2, InputRead DEF ReadData
  <2>3. CASE ReadEndDrops
    BY <1>a, <2>3, InputDropped DEF ReadEndDrops
  <2>4. CASE ReadEndKeeps
    BY <2>4, InputRead DEF ReadEndKeeps, Goto
  <2> QED
    BY <1>3, <2>1, <2>2, <2>3, <2>4 DEF Reading
<1>4. CASE Processing
  <2>1. CASE ProcessError
    BY <1>b, <2>1, RequestRefused DEF ProcessError
  <2>2. CASE ProcessPartial
    BY <1>b, <2>2, RequestBegun DEF ProcessPartial
  <2>3. CASE HandleRequest
    <3>1. /\ pc = "process" /\ Parsed.state = "Complete" /\ in' = Rest /\ handled' = handled + 1
          /\ parser' = [Fresh EXCEPT !.req = Parsed.req] /\ sent100' = FALSE /\ inRequest' = FALSE
          /\ UNCHANGED <<script, piece, arrived, hsSent, hsRead, alive>>
      BY <2>3, Zenon DEF HandleRequest
    <3>2. pc' = "process" => in' # <<>>
      BY <2>3 DEF HandleRequest, LoopEnds, LeaveLoop, Goto
    <3> QED
      BY <1>b, <3>1, <3>2, RequestTaken
  <2>4. CASE HandleUpgrade
    <3>1. /\ pc = "process" /\ Parsed.state = "Complete" /\ in' = Rest /\ handled' = handled + 1
          /\ parser' = [Fresh EXCEPT !.req = Parsed.req] /\ sent100' = FALSE /\ inRequest' = FALSE
          /\ UNCHANGED <<script, piece, arrived, hsSent, hsRead, alive>>
      BY <2>4, Zenon DEF HandleUpgrade
    <3>2. pc' # "process"
      BY <2>4 DEF HandleUpgrade, Goto
    <3> QED
      BY <1>b, <3>1, <3>2, RequestTaken
  <2> QED
    BY <1>4, <2>1, <2>2, <2>3, <2>4 DEF Processing
<1>5. CASE Flushing
  <2>1. CASE WriteOut
    BY <1>a, <2>1, InputUntouched DEF WriteOut
  <2>2. CASE WriteFile
    BY <1>a, <2>2, InputUntouched DEF WriteFile
  <2>3. CASE WriteStalls
    <3>1. pc' # "process"
      BY <1>a, <2>3 DEF WriteStalls, Goto, Core, Control
    <3>2. UNCHANGED inputVars /\ alive' = alive /\ UNCHANGED <<hsSent, hsRead>>
      BY <2>3, Zenon DEF WriteStalls
    <3> QED
      BY <1>a, <3>1, <3>2, InputUntouched
  <2>4. CASE WriteFails \/ FlushCloses
    BY <1>a, <2>4, InputDropped DEF WriteFails, FlushCloses
  <2>5. CASE FlushGoesOn
    <3>1. pc' = "process" => in # <<>>
      BY <2>5 DEF FlushGoesOn, Goto, Core, Control
    <3>2. UNCHANGED inputVars /\ alive' = alive /\ UNCHANGED <<hsSent, hsRead>>
      BY <2>5, Zenon DEF FlushGoesOn
    <3> QED
      BY <1>a, <3>1, <3>2, InputUntouched
  <2> QED
    BY <1>5, <2>1, <2>2, <2>3, <2>4, <2>5 DEF Flushing
<1>6. CASE Sweeping
  <2>1. CASE SweepSkips
    BY <1>a, <2>1, InputUntouched DEF SweepSkips, Goto
  <2>2. CASE SweepAnswers
    BY <1>a, <2>2, InputUntouched DEF SweepAnswers
  <2>3. CASE SweepCloses
    BY <1>a, <2>3, InputDropped DEF SweepCloses
  <2> QED
    BY <1>6, <2>1, <2>2, <2>3 DEF Sweeping
<1>7. CASE Client
  <2>1. CASE SendRest
    BY <2>1, MorePieces
  <2>2. CASE SendHandshake
    <3>1. hsSent' \in 0 .. HsFlights /\ hsRead' \in 0 .. hsSent'
      BY <1>a, <2>2 DEF SendHandshake
    <3> QED
      BY <1>a, <2>2, <3>1, InputUntouched DEF SendHandshake
  <2>3. CASE ClientReads
    BY <1>a, <2>3, InputUntouched DEF ClientReads
  <2>4. ASSUME NEW kind \in Kinds, SendRequest(kind) PROVE Arrivals'
    BY <2>4, MoreRequests
  <2>5. ASSUME NEW how \in {"fin", "rst"}, ClientLeaves(how) PROVE Arrivals'
    BY <1>a, <2>5, InputUntouched DEF ClientLeaves
  <2> QED
    BY <1>7, <2>1, <2>2, <2>3, <2>4, <2>5 DEF Client
<1>8. CASE Tick
  BY <1>a, <1>8, InputUntouched DEF Tick
<1>9. CASE UNCHANGED vars
  BY <1>a, <1>9, InputUntouched DEF vars
<1> QED
  BY <1>1, <1>2, <1>3, <1>4, <1>5, <1>6, <1>7, <1>8, <1>9, StepKinds

-----------------------------------------------------------------------------
(* The output.                                                             *)

LEMMA TokensAre ==
  ASSUME NEW i \in 0 .. MaxRequests, ConnectionAssumption
  PROVE  /\ \A what \in {"continue", "reply", "error"} : Token(i, what) \in Tokens
         /\ \A n \in 1 .. FileLen : Chunk(i, n) \in Tokens
BY DEF Token, Chunk, Tokens, ConnectionAssumption

LEMMA OutputUntouched ==
  ASSUME Output, UNCHANGED <<out, wire, file>>, unread' \in 0 .. SndCap
  PROVE  Output'
BY DEF Output

LEMMA OutputDropped ==
  ASSUME Output, ConnectionAssumption, NEW why, CloseConn(why)
  PROVE  Output'
<1>1. out' = <<>> /\ file' = NoFile /\ UNCHANGED <<wire, unread>>
  BY Zenon DEF CloseConn, kernelVars
<1> QED
  BY <1>1 DEF Output, NoFile, ConnectionAssumption

LEMMA OutputKept ==
  ConnectionAssumption /\ Core /\ Arrivals /\ Output /\ [Next]_vars => Output'
<1> SUFFICES ASSUME ConnectionAssumption, Core, Arrivals, Output, [Next]_vars PROVE Output'
  OBVIOUS
<1>a. /\ unread \in 0 .. SndCap /\ SndCap \in Nat /\ MaxRequests \in Nat /\ FileLen \in Nat
      /\ out \in Seq(Tokens) /\ wire \in Seq(Tokens)
      /\ file \in [req : 0 .. MaxRequests, off : 0 .. FileLen, end : 0 .. FileLen]
  BY ConnectionAssumption DEF Output, ConnectionAssumption
<1>b. /\ pc = "process" => alive
      /\ handled \in Nat /\ Len(script) \in Nat /\ Len(script) <= MaxRequests
      /\ parser.req \in 0 .. MaxRequests
  BY DEF Core, Places, Arrivals, Data
<1> USE DEF workerVars, kernelVars, outputVars, parseVars
<1>1. CASE Wait
  BY <1>a, <1>1, OutputUntouched DEF Wait
<1>2. CASE Connecting
  <2>1. CASE DispatchError \/ HandshakeFails
    BY <2>1, OutputDropped DEF DispatchError, HandshakeFails
  <2>2. CASE HandshakeWants
    BY <1>a, <2>2, OutputUntouched DEF HandshakeWants
  <2>3. CASE HandshakeDone
    BY <1>a, <2>3, OutputUntouched DEF HandshakeDone
  <2>4. CASE DispatchIo
    BY <1>a, <2>4, OutputUntouched DEF DispatchIo
  <2> QED
    BY <1>2, <2>1, <2>2, <2>3, <2>4 DEF Connecting
<1>3. CASE Reading
  <2>1. CASE ReadNothing
    BY <1>a, <2>1, OutputUntouched DEF ReadNothing
  <2>2. CASE ReadData
    BY <1>a, <2>2, OutputUntouched DEF ReadData
  <2>3. CASE ReadEndDrops
    BY <2>3, OutputDropped DEF ReadEndDrops
  <2>4. CASE ReadEndKeeps
    BY <1>a, <2>4, OutputUntouched DEF ReadEndKeeps
  <2> QED
    BY <1>3, <2>1, <2>2, <2>3, <2>4 DEF Reading
<1>4. CASE Processing
  <2>0. ASSUME NEW i \in 1 .. Len(script), NEW what \in {"continue", "reply", "error"},
               out' = Append(out, Token(i, what))
        PROVE  out' \in Seq(Tokens)
    <3>1. i \in 0 .. MaxRequests
      BY <1>b
    <3>2. Token(i, what) \in Tokens
      BY <3>1, TokensAre
    <3> QED
      BY <1>a, <2>0, <3>2
  <2>1. CASE ProcessError
    <3>1. out' = Append(out, Token(Parsed.req, "error")) /\ UNCHANGED <<file, wire, unread>> /\ pc = "process"
      BY <2>1, Zenon DEF ProcessError
    <3>2. Parsed.req \in 1 .. Len(script)
      BY <1>b, <2>1, <3>1, RequestRefused
    <3> QED
      BY <1>a, <2>0, <3>1, <3>2 DEF Output
  <2>2. CASE ProcessPartial
    <3>1. /\ out' = Append(out, Token(Parsed.req, "continue")) \/ out' = out
          /\ UNCHANGED <<file, wire, unread>> /\ pc = "process"
      BY <2>2, Zenon DEF ProcessPartial
    <3>2. Parsed.req \in 1 .. Len(script)
      BY <1>b, <2>2, <3>1, RequestBegun
    <3> QED
      BY <1>a, <2>0, <3>1, <3>2 DEF Output
  <2>3. CASE HandleRequest
    <3>1. /\ pc = "process" /\ Parsed.state = "Complete" /\ in' = Rest /\ handled' = handled + 1
          /\ parser' = [Fresh EXCEPT !.req = Parsed.req] /\ sent100' = FALSE /\ inRequest' = FALSE
          /\ UNCHANGED <<script, piece, arrived, hsSent, hsRead, alive, wire, unread>>
          /\ out' = Append(out, ReplyTo(Parsed.req)) /\ file' = FileFor(Parsed.req)
      BY <2>3, Zenon DEF HandleRequest, clientVars
    <3>2. pc' = "process" => in' # <<>>
      BY <2>3 DEF HandleRequest, LoopEnds, LeaveLoop, Goto
    <3>3. Parsed.req \in 1 .. Len(script)
      BY <1>b, <3>1, <3>2, RequestTaken
    <3>4. out' \in Seq(Tokens)
      BY <2>0, <3>1, <3>3 DEF ReplyTo
    <3>5. Parsed.req \in 0 .. MaxRequests
      BY <1>b, <3>3
    <3>6. file' \in [req : 0 .. MaxRequests, off : 0 .. FileLen, end : 0 .. FileLen]
      BY <1>a, <3>1, <3>5 DEF FileFor, NoFile
    <3> QED
      BY <1>a, <3>1, <3>4, <3>6 DEF Output
  <2>4. CASE HandleUpgrade
    <3>1. /\ pc = "process" /\ Parsed.state = "Complete" /\ in' = Rest /\ handled' = handled + 1
          /\ parser' = [Fresh EXCEPT !.req = Parsed.req] /\ sent100' = FALSE /\ inRequest' = FALSE
          /\ UNCHANGED <<script, piece, arrived, hsSent, hsRead, alive, wire, unread, file>>
          /\ out' = Append(out, ReplyTo(Parsed.req))
      BY <2>4, Zenon DEF HandleUpgrade, clientVars
    <3>2. pc' # "process"
      BY <2>4 DEF HandleUpgrade, Goto
    <3>3. Parsed.req \in 1 .. Len(script)
      BY <1>b, <3>1, <3>2, RequestTaken
    <3>4. out' \in Seq(Tokens)
      BY <2>0, <3>1, <3>3 DEF ReplyTo
    <3> QED
      BY <1>a, <3>1, <3>4 DEF Output
  <2> QED
    BY <1>4, <2>1, <2>2, <2>3, <2>4 DEF Processing
<1>5. CASE Flushing
  <2>1. CASE WriteOut
    <3>1. /\ out # <<>> /\ SocketHasRoom /\ wire' = Append(wire, Head(out)) /\ unread' = unread + 1
          /\ out' = Tail(out) /\ file' = file
      BY <2>1, Zenon DEF WriteOut
    <3>2. Head(out) \in Tokens /\ Tail(out) \in Seq(Tokens)
      BY <1>a, <3>1
    <3> QED
      BY <1>a, <3>1, <3>2 DEF Output, SocketHasRoom
  <2>2. CASE WriteFile
    <3>1. /\ FilePending /\ SocketHasRoom /\ wire' = Append(wire, Chunk(file.req, file.off + 1))
          /\ unread' = unread + 1 /\ out' = out /\ file' = [file EXCEPT !.off = file.off + 1]
      BY <2>2, Zenon DEF WriteFile
    <3>2. file.req \in 0 .. MaxRequests /\ file.off + 1 \in 1 .. FileLen
      BY <1>a, <3>1 DEF FilePending
    <3>3. Chunk(file.req, file.off + 1) \in Tokens
      BY <3>2, TokensAre
    <3>4. file' \in [req : 0 .. MaxRequests, off : 0 .. FileLen, end : 0 .. FileLen]
      <4>1. file.off + 1 \in 0 .. FileLen
        BY <1>a, <3>2
      <4> QED
        BY <1>a, <3>1, <4>1
    <3> QED
      BY <1>a, <3>1, <3>3, <3>4 DEF Output, SocketHasRoom
  <2>3. CASE WriteStalls
    BY <1>a, <2>3, OutputUntouched DEF WriteStalls
  <2>4. CASE WriteFails \/ FlushCloses
    BY <2>4, OutputDropped DEF WriteFails, FlushCloses
  <2>5. CASE FlushGoesOn
    <3>1. file' = (IF FilePending THEN file ELSE NoFile) /\ UNCHANGED <<out, wire, unread>>
      BY <2>5, Zenon DEF FlushGoesOn
    <3> QED
      BY <1>a, <3>1 DEF Output, NoFile
  <2> QED
    BY <1>5, <2>1, <2>2, <2>3, <2>4, <2>5 DEF Flushing
<1>6. CASE Sweeping
  <2>1. CASE SweepSkips
    BY <1>a, <2>1, OutputUntouched DEF SweepSkips
  <2>2. CASE SweepAnswers
    <3>1. out' = Append(out, Token(parser.req, "error")) /\ UNCHANGED <<file, wire, unread>>
      BY <2>2, Zenon DEF SweepAnswers
    <3>2. Token(parser.req, "error") \in Tokens
      BY <1>b, TokensAre
    <3> QED
      BY <1>a, <3>1, <3>2 DEF Output
  <2>3. CASE SweepCloses
    BY <2>3, OutputDropped DEF SweepCloses
  <2> QED
    BY <1>6, <2>1, <2>2, <2>3 DEF Sweeping
<1>7. CASE Client
  <2>1. CASE ClientReads
    BY <1>a, <2>1, OutputUntouched DEF ClientReads
  <2>2. CASE SendRest \/ SendHandshake
    BY <1>a, <2>2, OutputUntouched DEF SendRest, SendHandshake
  <2>3. ASSUME NEW kind \in Kinds, SendRequest(kind) PROVE Output'
    BY <1>a, <2>3, OutputUntouched DEF SendRequest
  <2>4. ASSUME NEW how \in {"fin", "rst"}, ClientLeaves(how) PROVE Output'
    BY <1>a, <2>4, OutputUntouched DEF ClientLeaves
  <2> QED
    BY <1>7, <2>1, <2>2, <2>3, <2>4 DEF Client
<1>8. CASE Tick
  BY <1>a, <1>8, OutputUntouched DEF Tick
<1>9. CASE UNCHANGED vars
  BY <1>a, <1>9, OutputUntouched DEF vars
<1> QED
  BY <1>1, <1>2, <1>3, <1>4, <1>5, <1>6, <1>7, <1>8, <1>9, StepKinds

-----------------------------------------------------------------------------
(* The first theorems.                                                     *)

LEMMA CoreAtFirst == Init => Core
<1> SUFFICES ASSUME Init PROVE Core
  OBVIOUS
<1>1. Flags
  BY Zenon DEF Init, Flags
<1>2. Control /\ Places
  BY DEF Init, Control, Places
<1>3. Waiting
  BY NothingPends DEF Init, Waiting, Idle, Interest, AtRest, Right, Pending, FilePending
<1> QED
  BY <1>1, <1>2, <1>3 DEF Core

LEMMA CoreInvariant == Spec => []Core
<1>1. Core /\ [Next]_vars => Core'
  BY FlagsKept, ControlKept, WaitingKept DEF Core
<1> QED
  BY <1>1, CoreAtFirst, PTL DEF Spec

(* While the worker sleeps, epoll watches for room in the socket exactly   *)
(* when the connection has output, and its deadline is the one of what the *)
(* connection waits for (update_interest_, set_deadline_).                 *)
THEOREM WaitsAreRight == Spec => []WaitsRight
<1>1. Core => WaitsRight
  <2> SUFFICES ASSUME Core, pc = "wait", alive, phase = "Http", ~Deaf
               PROVE  /\ mask = {"in"} \cup (IF Pending THEN {"out"} ELSE {})
                      /\ ~Pending => deadline = Right
    BY DEF WaitsRight, Right
  <2>1. (registered <=> Pending) /\ (~Pending => deadline = Right)
    BY DEF Core, Waiting, AtRest, Resting
  <2>2. IF registered THEN mask = {"in", "out"} ELSE mask = {"in"} \/ mask = {"out"}
    BY DEF Core, Waiting, Interest
  <2>3. CASE Pending
    BY <2>1, <2>2, <2>3
  <2>4. CASE ~Pending
    BY <2>1, <2>2, <2>4 DEF Deaf
  <2> QED
    BY <2>3, <2>4
<1> QED
  BY <1>1, CoreInvariant, PTL

LEMMA ConnectionInvariant == Spec => [](Core /\ Arrivals /\ Output)
<1>1. Init => Core /\ Arrivals /\ Output
  <2> SUFFICES ASSUME Init PROVE Core /\ Arrivals /\ Output
    OBVIOUS
  <2>1. Core
    BY CoreAtFirst
  <2>2. Data /\ Output
    BY ConnectionAssumption DEF Init, Data, Output, Fresh, NoFile, ConnectionAssumption
  <2>3. Standing
    BY DEF Init, Standing, Fresh
  <2>4. Ordered
    BY DEF Init, Ordered, Flows, First, Expected, NextSent, Fresh
  <2> QED
    BY <2>1, <2>2, <2>3, <2>4 DEF Arrivals
<1>2. Core /\ Arrivals /\ Output /\ [Next]_vars => (Core /\ Arrivals /\ Output)'
  BY ConnectionAssumption, FlagsKept, ControlKept, WaitingKept, ArrivalsKept, OutputKept DEF Core
<1> QED
  BY <1>1, <1>2, PTL DEF Spec

(* Every variable of a connection keeps its type, whatever the client      *)
(* sends, in whatever portions, and wherever a write stalls.               *)
THEOREM TypeCorrect == Spec => []TypeOK
<1>1. Core /\ Arrivals /\ Output => TypeOK
  <2> SUFFICES ASSUME Core, Arrivals, Output PROVE TypeOK
    OBVIOUS
  <2>1. Flags /\ Control /\ Data
    BY DEF Core, Arrivals
  <2>2. mask \subseteq {"in", "out"}
    BY DEF Core, Waiting, Interest
  <2> QED
    BY <2>1, <2>2 DEF Flags, Control, Data, Output, TypeOK
<1> QED
  BY <1>1, ConnectionInvariant, PTL

-----------------------------------------------------------------------------
(* Sequences of tokens.                                                    *)

LEMMA SameSequence ==
  ASSUME NEW s \in Seq(Tokens), NEW t \in Seq(Tokens), Len(s) = Len(t), \A k \in 1 .. Len(s) : s[k] = t[k]
  PROVE  s = t
OBVIOUS

LEMMA Appended ==
  ASSUME NEW w \in Seq(Tokens), NEW t \in Tokens
  PROVE  /\ Append(w, t) \in Seq(Tokens) /\ Len(Append(w, t)) = Len(w) + 1 /\ Len(w) \in Nat
         /\ Append(w, t)[Len(w) + 1] = t
         /\ \A k \in 1 .. Len(w) : Append(w, t)[k] = w[k]
OBVIOUS

LEMMA EmitsToken ==
  ASSUME NEW w \in Seq(Tokens), NEW o \in Seq(Tokens), NEW t \in Tokens
  PROVE  w \o Append(o, t) = Append(w \o o, t)
<1>1. w \o Append(o, t) \in Seq(Tokens) /\ Append(w \o o, t) \in Seq(Tokens)
  OBVIOUS
<1>2. Len(w \o Append(o, t)) = Len(w) + (Len(o) + 1) /\ Len(Append(w \o o, t)) = (Len(w) + Len(o)) + 1
      /\ Len(w) \in Nat /\ Len(o) \in Nat
  OBVIOUS
<1>3. ASSUME NEW k \in 1 .. (Len(w) + Len(o)) + 1
      PROVE  (w \o Append(o, t))[k] = Append(w \o o, t)[k]
  <2>1. CASE k <= Len(w)
    BY <1>2, <2>1
  <2>2. CASE k > Len(w) /\ k <= Len(w) + Len(o)
    BY <1>2, <2>2
  <2>3. CASE k = (Len(w) + Len(o)) + 1
    BY <1>2, <2>3
  <2> QED
    BY <1>2, <2>1, <2>2, <2>3
<1> QED
  BY <1>1, <1>2, <1>3, SameSequence

LEMMA TakesToken ==
  ASSUME NEW w \in Seq(Tokens), NEW o \in Seq(Tokens), o # <<>>
  PROVE  Append(w, Head(o)) \o Tail(o) = w \o o
<1>1. Head(o) \in Tokens /\ Head(o) = o[1] /\ Tail(o) \in Seq(Tokens) /\ Len(Tail(o)) = Len(o) - 1
      /\ Len(o) \in Nat /\ Len(o) > 0 /\ Len(w) \in Nat
      /\ \A k \in 1 .. Len(o) - 1 : Tail(o)[k] = o[k + 1]
  OBVIOUS
<1>2. Append(w, Head(o)) \in Seq(Tokens) /\ Len(Append(w, Head(o))) = Len(w) + 1
      /\ (\A k \in 1 .. Len(w) : Append(w, Head(o))[k] = w[k]) /\ Append(w, Head(o))[Len(w) + 1] = o[1]
  BY <1>1
<1>3. ASSUME NEW a \in Seq(Tokens), NEW b \in Seq(Tokens)
      PROVE  /\ a \o b \in Seq(Tokens) /\ Len(a \o b) = Len(a) + Len(b)
             /\ \A k \in 1 .. Len(a) : (a \o b)[k] = a[k]
             /\ \A k \in Len(a) + 1 .. Len(a) + Len(b) : (a \o b)[k] = b[k - Len(a)]
  OBVIOUS
<1> DEFINE l == Append(w, Head(o)) \o Tail(o)
<1>4. /\ l \in Seq(Tokens) /\ Len(l) = Len(w) + 1 + (Len(o) - 1)
      /\ \A k \in 1 .. Len(w) + 1 : l[k] = Append(w, Head(o))[k]
      /\ \A k \in Len(w) + 1 + 1 .. Len(w) + 1 + (Len(o) - 1) : l[k] = Tail(o)[k - (Len(w) + 1)]
  BY <1>1, <1>2, <1>3
<1> HIDE DEF l
<1>5. ASSUME NEW k \in 1 .. Len(w) + Len(o) PROVE l[k] = (w \o o)[k]
  <2>1. CASE k <= Len(w)
    BY <1>1, <1>2, <1>4, <2>1
  <2>2. CASE k = Len(w) + 1
    BY <1>1, <1>2, <1>4, <2>2
  <2>3. CASE k > Len(w) + 1
    <3>1. l[k] = Tail(o)[k - (Len(w) + 1)]
      BY <1>1, <1>4, <2>3
    <3>2. k - (Len(w) + 1) \in 1 .. Len(o) - 1 /\ (k - (Len(w) + 1)) + 1 = k - Len(w)
      BY <1>1, <2>3
    <3>3. l[k] = o[k - Len(w)]
      BY <1>1, <3>1, <3>2
    <3> QED
      BY <1>1, <2>3, <3>3
  <2> QED
    BY <1>1, <2>1, <2>2, <2>3
<1>6. w \o o \in Seq(Tokens) /\ Len(w \o o) = Len(w) + Len(o) /\ Len(l) = Len(w) + Len(o)
  BY <1>1, <1>4
<1>7. l = w \o o
  BY <1>4, <1>5, <1>6, SameSequence
<1> QED
  BY <1>7 DEF l

LEMMA NothingUnsent ==
  ASSUME NEW w \in Seq(Tokens)
  PROVE  w \o <<>> = w
OBVIOUS

-----------------------------------------------------------------------------
(* The order of replies.                                                   *)

HasIn(w, i, what) == \E k \in 1 .. Len(w) : w[k].req = i /\ w[k].part = what

ChunksIn(w, i, n) == \A m \in 1 .. n : \E k \in 1 .. Len(w) : w[k] = Chunk(i, m)

DoneIn(kinds, w, i) ==
  HasIn(w, i, "error") \/ (HasIn(w, i, "reply") /\ ChunksIn(w, i, Chunks(kinds[i])))

Precedes(a, b) ==
  /\ a.req <= b.req
  /\ a.req = b.req /\ "error" \notin {a.part, b.part} => Rank(a) < Rank(b)

(* Before its k-th token w has all of the reply to i.                      *)
Settled(kinds, w, i, k) ==
  \E j \in 1 .. k - 1 :
    w[j].req = i /\ (w[j].part = "error" \/ Rank(w[j]) = 1 + Chunks(kinds[i]))

InOrder(kinds, w) ==
  \A k \in 1 .. Len(w) :
    /\ \A j \in 1 .. k - 1 : Precedes(w[j], w[k])
    /\ \A i \in 1 .. w[k].req - 1 : Settled(kinds, w, i, k)

LEMMA ChunkRank == \A i, n : Rank(Chunk(i, n)) = 1 + n
BY DEF Rank, Chunk

LEMMA DoneSettles ==
  ASSUME ConnectionAssumption, NEW kinds, NEW w, NEW i, DoneIn(kinds, w, i)
  PROVE  \E j \in 1 .. Len(w) :
           w[j].req = i /\ (w[j].part = "error" \/ Rank(w[j]) = 1 + Chunks(kinds[i]))
<1>1. CASE HasIn(w, i, "error")
  BY <1>1 DEF HasIn
<1>2. CASE HasIn(w, i, "reply") /\ ChunksIn(w, i, Chunks(kinds[i]))
  <2>1. CASE Chunks(kinds[i]) = 0
    BY <1>2, <2>1 DEF HasIn, Rank
  <2>2. CASE Chunks(kinds[i]) # 0
    <3>1. Chunks(kinds[i]) = FileLen /\ FileLen \in 1 .. FileLen
      BY <2>2, ConnectionAssumption DEF Chunks, ConnectionAssumption
    <3>2. PICK k \in 1 .. Len(w) : w[k] = Chunk(i, FileLen)
      BY <1>2, <3>1 DEF ChunksIn
    <3>3. w[k].req = i /\ Rank(w[k]) = 1 + FileLen
      BY <3>2, ChunkRank DEF Chunk
    <3> QED
      BY <3>1, <3>3
  <2> QED
    BY <2>1, <2>2
<1> QED
  BY <1>1, <1>2 DEF DoneIn

LEMMA OrderAppend ==
  ASSUME ConnectionAssumption, NEW kinds, NEW w \in Seq(Tokens), NEW t \in Tokens, InOrder(kinds, w),
         \A j \in 1 .. Len(w) : Precedes(w[j], t),
         \A i \in 1 .. t.req - 1 : DoneIn(kinds, w, i)
  PROVE  InOrder(kinds, Append(w, t))
<1> DEFINE v == Append(w, t)
<1>1. v \in Seq(Tokens) /\ Len(v) = Len(w) + 1 /\ Len(w) \in Nat
      /\ v[Len(w) + 1] = t /\ \A k \in 1 .. Len(w) : v[k] = w[k]
  BY Appended
<1> HIDE DEF v
<1>2. ASSUME NEW k \in 1 .. Len(w) + 1, NEW j \in 1 .. k - 1 PROVE Precedes(v[j], v[k])
  <2>1. j \in 1 .. Len(w) /\ v[j] = w[j]
    BY <1>1
  <2>2. CASE k = Len(w) + 1
    BY <1>1, <2>1, <2>2
  <2>3. CASE k # Len(w) + 1
    <3>1. k \in 1 .. Len(w) /\ v[k] = w[k]
      BY <1>1, <2>3
    <3> QED
      BY <2>1, <3>1 DEF InOrder
  <2> QED
    BY <2>2, <2>3
<1>3. ASSUME NEW k \in 1 .. Len(w) + 1, NEW i \in 1 .. v[k].req - 1 PROVE Settled(kinds, v, i, k)
  <2>2. CASE k = Len(w) + 1
    <3>1. i \in 1 .. t.req - 1
      BY <1>1, <2>2
    <3>2. PICK j \in 1 .. Len(w) :
            w[j].req = i /\ (w[j].part = "error" \/ Rank(w[j]) = 1 + Chunks(kinds[i]))
      BY <3>1, DoneSettles
    <3>3. j \in 1 .. k - 1 /\ v[j] = w[j]
      BY <1>1, <2>2
    <3> QED
      BY <3>2, <3>3 DEF Settled
  <2>3. CASE k # Len(w) + 1
    <3>1. k \in 1 .. Len(w) /\ v[k] = w[k]
      BY <1>1, <2>3
    <3>2. Settled(kinds, w, i, k)
      BY <3>1 DEF InOrder
    <3>3. \A j \in 1 .. k - 1 : v[j] = w[j]
      BY <1>1, <3>1
    <3> QED
      BY <3>2, <3>3 DEF Settled
  <2> QED
    BY <2>2, <2>3
<1>4. InOrder(kinds, v)
  BY <1>1, <1>2, <1>3 DEF InOrder
<1> QED
  BY <1>4 DEF v

(* A beginning of a sequence in order is in order.                         *)
LEMMA OrderPrefix ==
  ASSUME NEW kinds, NEW w \in Seq(Tokens), NEW v \in Seq(Tokens), Len(w) <= Len(v),
         \A k \in 1 .. Len(w) : w[k] = v[k], InOrder(kinds, v)
  PROVE  InOrder(kinds, w)
<1>1. Len(w) \in Nat /\ Len(v) \in Nat
  OBVIOUS
<1>2. ASSUME NEW k \in 1 .. Len(w)
      PROVE  /\ \A j \in 1 .. k - 1 : Precedes(w[j], w[k])
             /\ \A i \in 1 .. w[k].req - 1 : Settled(kinds, w, i, k)
  <2>1. k \in 1 .. Len(v) /\ w[k] = v[k] /\ \A j \in 1 .. k - 1 : w[j] = v[j]
    BY <1>1
  <2>2. \A j \in 1 .. k - 1 : Precedes(v[j], v[k])
    BY <2>1 DEF InOrder
  <2>3. \A i \in 1 .. v[k].req - 1 : Settled(kinds, v, i, k)
    BY <2>1 DEF InOrder
  <2>4. ASSUME NEW i \in 1 .. w[k].req - 1 PROVE Settled(kinds, w, i, k)
    <3>1. Settled(kinds, v, i, k)
      BY <2>1, <2>3
    <3> QED
      BY <2>1, <3>1 DEF Settled
  <2> QED
    BY <2>1, <2>2, <2>4
<1> QED
  BY <1>2 DEF InOrder

LEMMA OrderLater ==
  ASSUME NEW kinds, NEW kinds2, NEW w \in Seq(Tokens), InOrder(kinds, w),
         NEW n \in Nat, \A k \in 1 .. Len(w) : w[k].req <= n, \A i \in 1 .. n : kinds2[i] = kinds[i]
  PROVE  InOrder(kinds2, w)
<1>1. ASSUME NEW k \in 1 .. Len(w), NEW i \in 1 .. w[k].req - 1 PROVE Settled(kinds2, w, i, k)
  <2>1. w[k].req \in Nat /\ w[k].req <= n
    <3>1. w[k] \in Tokens
      OBVIOUS
    <3>2. w[k].req \in 0 .. MaxRequests
      BY <3>1 DEF Tokens
    <3> QED
      BY <3>2
  <2>2. kinds2[i] = kinds[i]
    BY <2>1
  <2>3. Settled(kinds, w, i, k)
    BY DEF InOrder
  <2> QED
    BY <2>2, <2>3 DEF Settled
<1> QED
  BY <1>1 DEF InOrder

LEMMA HasAppend ==
  ASSUME NEW w \in Seq(Tokens), NEW t \in Tokens, NEW i, NEW what, HasIn(w, i, what)
  PROVE  HasIn(Append(w, t), i, what)
<1>1. PICK k \in 1 .. Len(w) : w[k].req = i /\ w[k].part = what
  BY DEF HasIn
<1>2. k \in 1 .. Len(Append(w, t)) /\ Append(w, t)[k] = w[k]
  BY Appended
<1> QED
  BY <1>1, <1>2 DEF HasIn

LEMMA ChunksAppend ==
  ASSUME NEW w \in Seq(Tokens), NEW t \in Tokens, NEW i, NEW n, ChunksIn(w, i, n)
  PROVE  ChunksIn(Append(w, t), i, n)
<1>1. ASSUME NEW m \in 1 .. n PROVE \E k \in 1 .. Len(Append(w, t)) : Append(w, t)[k] = Chunk(i, m)
  <2>1. PICK k \in 1 .. Len(w) : w[k] = Chunk(i, m)
    BY DEF ChunksIn
  <2>2. k \in 1 .. Len(Append(w, t)) /\ Append(w, t)[k] = w[k]
    BY Appended
  <2> QED
    BY <2>1, <2>2
<1> QED
  BY <1>1 DEF ChunksIn

LEMMA DoneAppend ==
  ASSUME NEW kinds, NEW w \in Seq(Tokens), NEW t \in Tokens, NEW i, DoneIn(kinds, w, i)
  PROVE  DoneIn(kinds, Append(w, t), i)
BY HasAppend, ChunksAppend, Zenon DEF DoneIn

(* The token itself. *)
LEMMA LastAppended ==
  ASSUME NEW w \in Seq(Tokens), NEW t \in Tokens
  PROVE  \E k \in 1 .. Len(Append(w, t)) : Append(w, t)[k] = t
<1>1. Len(w) + 1 \in 1 .. Len(Append(w, t))
  BY Appended
<1> QED
  BY <1>1, Appended

-----------------------------------------------------------------------------
(* What is on the wire and in the queue.                                   *)

(* Files keep their length, and the client does not send the request after *)
(* one for a file before it has that file.                                 *)
Tame == "shrunk" \notin Kinds /\ "file" \notin PipelineAfter

Sending == wire \o out

(* Only the request that is being received may have a token without having *)
(* been handled: its 100, or an error reply.                               *)
KnownToken(t) ==
  /\ t.req \in 1 .. Len(script) /\ t.req <= handled + 1
  /\ t.part = "error" => script[t.req] # "file"
  /\ t.req = handled + 1 /\ t.part # "error" => t.part = "continue" /\ sent100

(* Every request that was handled has its reply, but for the rest of the   *)
(* file of the last one.                                                   *)
RepliesOwed ==
  alive \/ cause = "done" =>
    \A i \in 1 .. handled : DoneIn(script, Sending, i) \/ (FilePending /\ i = handled)

(* The file being sent belongs to the last request, and is sent up to      *)
(* file_off.                                                               *)
FileStands ==
  FilePending =>
    /\ file.req = handled /\ handled >= 1 /\ script[handled] = "file" /\ file.end = FileLen
    /\ HasIn(Sending, handled, "reply") /\ ChunksIn(Sending, handled, file.off)
    /\ \A k \in 1 .. Len(Sending) :
         Sending[k].req <= handled /\ (Sending[k].req = handled => Rank(Sending[k]) <= 1 + file.off)
    /\ pc # "process" /\ parser.state # "Error"

Refused == parser.state = "Error" => script[handled + 1] = "bad"

Delivery ==
  /\ InOrder(script, Sending)
  /\ \A k \in 1 .. Len(Sending) : KnownToken(Sending[k])
  /\ RepliesOwed /\ FileStands /\ Refused

LEMMA SendingType == Output => Sending \in Seq(Tokens) /\ Len(Sending) \in Nat
BY DEF Output, Sending

LEMMA DeliverySame ==
  ASSUME Delivery, Sending' = Sending, UNCHANGED <<script, handled>>, sent100 => sent100',
         FilePending' <=> FilePending, FilePending => file' = file,
         alive' \/ cause' = "done" => alive \/ cause = "done",
         pc' = "process" => ~FilePending,
         parser'.state = "Error" => parser.state = "Error" \/ (~FilePending /\ script[handled + 1] = "bad")
  PROVE  Delivery'
<1>1. ASSUME NEW k \in 1 .. Len(Sending') PROVE KnownToken(Sending[k])'
  BY DEF Delivery, KnownToken
<1>2. RepliesOwed'
  BY DEF Delivery, RepliesOwed
<1>3. FileStands' /\ Refused'
  BY DEF Delivery, FileStands, Refused
<1>4. InOrder(script, Sending)'
  BY DEF Delivery
<1> QED
  BY <1>1, <1>2, <1>3, <1>4 DEF Delivery

(* The next token is about the request that is being received.             *)
LEMMA NextInLine ==
  ASSUME ConnectionAssumption, Output, Delivery, alive, ~FilePending, handled \in Nat,
         NEW t \in Tokens, t.req = handled + 1,
         t.part = "error" \/ t.part = "reply" \/ (t.part = "continue" /\ ~sent100)
  PROVE  InOrder(script, Append(Sending, t))
<1>1. Sending \in Seq(Tokens) /\ InOrder(script, Sending)
  BY SendingType DEF Delivery
<1>2. ASSUME NEW j \in 1 .. Len(Sending) PROVE Precedes(Sending[j], t)
  <2>1. KnownToken(Sending[j])
    BY DEF Delivery
  <2>2. Sending[j].req <= t.req
    BY <2>1 DEF KnownToken
  <2>3. ASSUME Sending[j].req = t.req, Sending[j].part # "error", t.part # "error"
        PROVE  Rank(Sending[j]) < Rank(t)
    <3>1. Sending[j].part = "continue" /\ sent100
      BY <2>1, <2>3 DEF KnownToken
    <3>2. Rank(Sending[j]) = 0
      BY <3>1 DEF Rank
    <3>3. Rank(t) = 1
      BY <2>3, <3>1 DEF Rank
    <3> QED
      BY <3>2, <3>3
  <2> QED
    BY <2>2, <2>3 DEF Precedes
<1>3. ASSUME NEW i \in 1 .. t.req - 1 PROVE DoneIn(script, Sending, i)
  BY DEF Delivery, RepliesOwed
<1> QED
  BY <1>1, <1>2, <1>3, OrderAppend

LEMMA DeliveryNoted ==
  ASSUME ConnectionAssumption, Output, Delivery, alive, ~FilePending, handled \in Nat,
         NEW t \in Tokens, t.req = handled + 1, Sending' = Append(Sending, t),
         handled + 1 \in 1 .. Len(script), UNCHANGED <<script, handled, alive>>,
         (t.part = "error" /\ script[handled + 1] # "file") \/ (t.part = "continue" /\ ~sent100 /\ sent100'),
         sent100 => sent100', ~FilePending', parser'.state = "Error" => script[handled + 1] = "bad"
  PROVE  Delivery'
<1>1. InOrder(script, Sending)'
  BY NextInLine
<1>2. /\ Sending' \in Seq(Tokens) /\ Len(Sending') = Len(Sending) + 1 /\ Len(Sending) \in Nat
      /\ Sending'[Len(Sending) + 1] = t /\ \A k \in 1 .. Len(Sending) : Sending'[k] = Sending[k]
  BY SendingType, Appended
<1>3. ASSUME NEW k \in 1 .. Len(Sending') PROVE KnownToken(Sending[k])'
  <2>1. CASE k = Len(Sending) + 1
    BY <1>2, <2>1 DEF KnownToken
  <2>2. CASE k # Len(Sending) + 1
    <3>1. k \in 1 .. Len(Sending) /\ Sending'[k] = Sending[k]
      BY <1>2, <2>2
    <3>2. KnownToken(Sending[k])
      BY <3>1 DEF Delivery
    <3> QED
      BY <3>1, <3>2 DEF KnownToken
  <2> QED
    BY <2>1, <2>2
<1>4. ASSUME NEW i \in 1 .. handled PROVE DoneIn(script, Sending', i)
  <2>1. DoneIn(script, Sending, i)
    BY DEF Delivery, RepliesOwed
  <2> QED
    BY <2>1, SendingType, DoneAppend
<1> QED
  BY <1>1, <1>3, <1>4 DEF Delivery, RepliesOwed, FileStands, Refused

(* A request is handled.                                                   *)
LEMMA DeliveryReplied ==
  ASSUME ConnectionAssumption, Tame, Output, Delivery, alive, ~FilePending, handled \in Nat,
         script \in Seq(Kinds), handled + 1 \in 1 .. Len(script), handled + 1 \in 0 .. MaxRequests,
         Sending' = Append(Sending, ReplyTo(handled + 1)), handled' = handled + 1,
         UNCHANGED <<script, alive>>, file' = FileFor(handled + 1) \/ (script[handled + 1] # "file" /\ file' = file),
         pc' = "process" => ~FilePending', parser'.state # "Error"
  PROVE  Delivery'
<1> DEFINE h == handled + 1
           t == ReplyTo(h)
<1>1. /\ t \in Tokens /\ t.req = h
      /\ t.part = "reply" \/ (t.part = "error" /\ script[h] = "badpath")
  BY TokensAre DEF ReplyTo, Token
<1>2. script[h] # "shrunk"
  <2>1. script[h] \in Kinds
    OBVIOUS
  <2> QED
    BY <2>1 DEF Tame
<1>0. /\ Sending \in Seq(Tokens) /\ Len(Sending) \in Nat
      /\ Len(Sending') = Len(Sending) + 1 /\ Sending'[Len(Sending) + 1] = t
      /\ \A k \in 1 .. Len(Sending) : Sending'[k] = Sending[k] /\ KnownToken(Sending[k])
  <2>1. Sending \in Seq(Tokens)
    BY SendingType
  <2>2. Len(Sending) \in Nat /\ Len(Append(Sending, t)) = Len(Sending) + 1
        /\ Append(Sending, t)[Len(Sending) + 1] = t
        /\ \A k \in 1 .. Len(Sending) : Append(Sending, t)[k] = Sending[k]
    BY <1>1, <2>1, Appended
  <2> QED
    BY <2>1, <2>2 DEF Delivery
<1>3. InOrder(script, Sending)'
  BY <1>1, NextInLine
<1>4. ASSUME NEW k \in 1 .. Len(Sending')
      PROVE  /\ KnownToken(Sending[k])' /\ Sending'[k].req <= h
             /\ script[h] = "file" /\ Sending'[k].req = h => Rank(Sending'[k]) <= 1
  <2>1. CASE k = Len(Sending) + 1
    <3>1. Sending'[k] = t
      BY <1>0, <2>1
    <3>2. script[h] = "file" => Rank(t) = 1
      BY <1>1 DEF Rank
    <3> QED
      BY <1>1, <3>1, <3>2 DEF KnownToken
  <2>2. CASE k # Len(Sending) + 1
    <3>1. k \in 1 .. Len(Sending) /\ Sending'[k] = Sending[k] /\ KnownToken(Sending[k])
      BY <1>0, <2>2
    <3>2. Sending[k].req \in Nat /\ Sending[k].req <= h /\ Sending[k].req # h + 1
      BY <3>1 DEF KnownToken
    <3>3. KnownToken(Sending[k])'
      BY <3>1, <3>2 DEF KnownToken
    <3>4. ASSUME script[h] = "file", Sending[k].req = h PROVE Rank(Sending[k]) = 0
      <4>1. Sending[k].part = "continue"
        BY <3>1, <3>4 DEF KnownToken
      <4> QED
        BY <4>1 DEF Rank
    <3> QED
      BY <3>1, <3>2, <3>3, <3>4
  <2> QED
    BY <2>1, <2>2
<1>5. ASSUME NEW i \in 1 .. handled PROVE DoneIn(script, Sending', i)
  <2>1. DoneIn(script, Sending, i)
    BY DEF Delivery, RepliesOwed
  <2> QED
    BY <1>0, <1>1, <2>1, DoneAppend
<1>6. HasIn(Sending', h, t.part)
  <2>1. Len(Sending) + 1 \in 1 .. Len(Sending')
    BY <1>0
  <2> QED
    BY <1>0, <1>1, <2>1 DEF HasIn
<1>7. Refused'
  BY DEF Refused
<1>8. CASE script[h] = "file"
  <2>1. t.part = "reply"
    BY <1>1, <1>8
  <2>2. file' = [req |-> h, off |-> 0, end |-> FileLen]
    BY <1>8 DEF FileFor
  <2>3. FilePending'
    BY <2>2, ConnectionAssumption DEF FilePending, ConnectionAssumption
  <2>4. RepliesOwed'
    <3>1. ASSUME NEW i \in 1 .. h PROVE DoneIn(script, Sending', i) \/ i = h
      BY <1>5
    <3> QED
      BY <2>3, <3>1 DEF RepliesOwed
  <2>5. ChunksIn(Sending', h, 0)
    BY DEF ChunksIn
  <2>6. FileStands'
    BY <1>4, <1>6, <1>8, <2>1, <2>2, <2>3, <2>5 DEF FileStands
  <2> QED
    BY <1>3, <1>4, <1>7, <2>4, <2>6 DEF Delivery
<1>9. CASE script[h] # "file"
  <2>1. Chunks(script[h]) = 0
    BY <1>2, <1>9 DEF Chunks
  <2>2. DoneIn(script, Sending', h)
    BY <1>1, <1>6, <2>1 DEF DoneIn, ChunksIn
  <2>3. ~FilePending'
    BY <1>2, <1>9, NothingPends DEF FileFor, FilePending
  <2>4. RepliesOwed'
    <3>1. ASSUME NEW i \in 1 .. h PROVE DoneIn(script, Sending', i)
      BY <1>5, <2>2
    <3> QED
      BY <3>1 DEF RepliesOwed
  <2> QED
    BY <1>3, <1>4, <1>7, <2>3, <2>4 DEF Delivery, FileStands
<1> QED
  BY <1>8, <1>9

(* A chunk of the file is written.                                         *)
LEMMA DeliveryChunk ==
  ASSUME ConnectionAssumption, Output, Delivery, alive, FilePending, handled \in 0 .. MaxRequests,
         Sending' = Append(Sending, Chunk(file.req, file.off + 1)), file' = [file EXCEPT !.off = file.off + 1],
         UNCHANGED <<script, handled, alive, sent100, parser, pc>>
  PROVE  Delivery'
<1> DEFINE h == handled
           n == file.off + 1
           t == Chunk(h, n)
<1>1. /\ file.req = h /\ h >= 1 /\ h \in Nat /\ script[h] = "file" /\ file.end = FileLen
      /\ HasIn(Sending, h, "reply") /\ ChunksIn(Sending, h, file.off)
      /\ \A k \in 1 .. Len(Sending) :
           Sending[k].req <= h /\ (Sending[k].req = h => Rank(Sending[k]) <= 1 + file.off)
      /\ pc # "process" /\ parser.state # "Error"
  BY DEF Delivery, FileStands
<1>2. /\ file \in [req : 0 .. MaxRequests, off : 0 .. FileLen, end : 0 .. FileLen]
      /\ file.off \in Nat /\ n \in 1 .. FileLen /\ file.off < FileLen /\ FileLen \in Nat
  <2>1. file \in [req : 0 .. MaxRequests, off : 0 .. FileLen, end : 0 .. FileLen]
    BY DEF Output
  <2> QED
    BY <1>1, <2>1, ConnectionAssumption DEF FilePending, ConnectionAssumption
<1>3. t \in Tokens /\ t.req = h /\ t.part = "chunk" /\ Rank(t) = 1 + n /\ Sending' = Append(Sending, t)
  <2>1. t \in Tokens
    BY <1>2, TokensAre
  <2>2. t.req = h /\ t.part = "chunk"
    BY DEF Chunk
  <2>3. Rank(t) = 1 + n
    BY ChunkRank
  <2> QED
    BY <1>1, <2>1, <2>2, <2>3
<1> HIDE DEF n, t
<1>4. /\ Sending \in Seq(Tokens) /\ Len(Sending) \in Nat
      /\ Len(Sending') = Len(Sending) + 1 /\ Sending'[Len(Sending) + 1] = t
      /\ \A k \in 1 .. Len(Sending) : Sending'[k] = Sending[k] /\ KnownToken(Sending[k])
  <2>1. Sending \in Seq(Tokens)
    BY SendingType
  <2>2. Len(Sending) \in Nat /\ Len(Append(Sending, t)) = Len(Sending) + 1
        /\ Append(Sending, t)[Len(Sending) + 1] = t
        /\ \A k \in 1 .. Len(Sending) : Append(Sending, t)[k] = Sending[k]
    BY <1>3, <2>1, Appended
  <2> QED
    BY <1>3, <2>1, <2>2 DEF Delivery
<1>5. ASSUME NEW k \in 1 .. Len(Sending) PROVE Precedes(Sending[k], t) /\ Rank(Sending[k]) \in Nat
  <2>1. Sending[k].req <= h /\ (Sending[k].req = h => Rank(Sending[k]) <= 1 + file.off)
    BY <1>1
  <2>2. Rank(Sending[k]) \in Nat
    <3>1. Sending[k] \in Tokens
      BY <1>4
    <3>2. Sending[k].n \in Nat
      BY <1>2, <3>1 DEF Tokens
    <3> QED
      BY <3>2 DEF Rank
  <2>3. 1 + file.off < 1 + n
    BY <1>2 DEF n
  <2>4. Sending[k].req = h => Rank(Sending[k]) < 1 + n
    BY <1>2, <2>1, <2>2, <2>3 DEF n
  <2> QED
    BY <1>3, <2>1, <2>2, <2>4 DEF Precedes
<1>6. InOrder(script, Sending)'
  <2>1. InOrder(script, Sending)
    BY DEF Delivery
  <2>2. ASSUME NEW i \in 1 .. t.req - 1 PROVE DoneIn(script, Sending, i)
    <3>1. i \in 1 .. handled /\ i # handled
      BY <1>1, <1>3
    <3> QED
      BY <3>1 DEF Delivery, RepliesOwed
  <2>3. \A j \in 1 .. Len(Sending) : Precedes(Sending[j], t)
    BY <1>5
  <2> QED
    BY <1>3, <1>4, <2>1, <2>2, <2>3, OrderAppend
<1>7. h \in 1 .. Len(script)
  <2>1. PICK k \in 1 .. Len(Sending) : Sending[k].req = h
    BY <1>1 DEF HasIn
  <2> QED
    BY <1>4, <2>1 DEF KnownToken
<1>8. ASSUME NEW k \in 1 .. Len(Sending')
      PROVE  /\ KnownToken(Sending[k])' /\ Sending'[k].req <= h
             /\ Sending'[k].req = h => Rank(Sending'[k]) <= 1 + n
  <2>1. CASE k = Len(Sending) + 1
    <3>1. Sending'[k] = t
      BY <1>4, <2>1
    <3>2. n \in Nat
      BY <1>2 DEF n
    <3> QED
      BY <1>1, <1>3, <1>7, <3>1, <3>2 DEF KnownToken
  <2>2. CASE k # Len(Sending) + 1
    <3>1. k \in 1 .. Len(Sending) /\ Sending'[k] = Sending[k] /\ KnownToken(Sending[k])
      BY <1>4, <2>2
    <3>2. KnownToken(Sending[k])'
      BY <3>1 DEF KnownToken
    <3>3. Sending[k].req <= h /\ (Sending[k].req = h => Rank(Sending[k]) <= 1 + file.off)
      BY <1>1, <3>1
    <3>4. Rank(Sending[k]) \in Nat
      BY <1>5, <3>1
    <3> QED
      BY <1>2, <3>1, <3>2, <3>3, <3>4 DEF n
  <2> QED
    BY <2>1, <2>2
<1>9. HasIn(Sending', h, "reply") /\ ChunksIn(Sending', h, n)
  <2>1. HasIn(Sending', h, "reply")
    BY <1>1, <1>3, <1>4, HasAppend
  <2>2. ChunksIn(Sending', h, file.off)
    BY <1>1, <1>3, <1>4, ChunksAppend
  <2>3. ASSUME NEW m \in 1 .. n PROVE \E k \in 1 .. Len(Sending') : Sending'[k] = Chunk(h, m)
    <3>1. CASE m = n
      <4>1. Len(Sending) + 1 \in 1 .. Len(Sending')
        BY <1>4
      <4> QED
        BY <1>4, <3>1, <4>1 DEF t
    <3>2. CASE m # n
      <4>1. m \in 1 .. file.off
        BY <1>2, <3>2 DEF n
      <4> QED
        BY <2>2, <4>1 DEF ChunksIn
    <3> QED
      BY <3>1, <3>2
  <2> QED
    BY <2>1, <2>3 DEF ChunksIn
<1>10. file'.req = h /\ file'.off = n /\ file'.end = FileLen
  BY <1>1, <1>2 DEF n
<1>11. RepliesOwed'
  <2>1. ASSUME NEW i \in 1 .. handled PROVE DoneIn(script, Sending', i) \/ (FilePending' /\ i = handled)
    <3>1. CASE i # handled
      <4>1. DoneIn(script, Sending, i)
        BY <3>1 DEF Delivery, RepliesOwed
      <4> QED
        BY <1>3, <1>4, <4>1, DoneAppend
    <3>2. CASE i = handled /\ ~FilePending'
      <4>1. n = FileLen
        BY <1>2, <1>10, <3>2 DEF FilePending
      <4>2. Chunks(script[h]) = FileLen
        BY <1>1 DEF Chunks
      <4> QED
        BY <1>9, <3>2, <4>1, <4>2 DEF DoneIn
    <3> QED
      BY <3>1, <3>2
  <2> QED
    BY <2>1 DEF RepliesOwed
<1>12. FileStands'
  BY <1>1, <1>8, <1>9, <1>10 DEF FileStands
<1>13. Refused'
  BY <1>1 DEF Refused
<1> QED
  BY <1>6, <1>8, <1>11, <1>12, <1>13 DEF Delivery

(* The connection is closed.                                               *)
LEMMA DeliveryClosed ==
  ASSUME ConnectionAssumption, Output, Delivery, NEW why, CloseConn(why),
         why = "done" => alive /\ out = <<>> /\ ~FilePending
  PROVE  Delivery'
<1>1. /\ ~alive' /\ cause' = why /\ out' = <<>> /\ file' = NoFile
      /\ UNCHANGED <<wire, script, handled, parser, sent100>>
  BY Zenon DEF CloseConn, clientVars, kernelVars
<1>2. /\ wire \in Seq(Tokens) /\ out \in Seq(Tokens)
  BY DEF Output
<1>3. Sending' = wire
  BY <1>1, <1>2, NothingUnsent DEF Sending
<1>4. /\ Sending \in Seq(Tokens) /\ Len(wire) <= Len(Sending) /\ Len(wire) \in Nat /\ Len(Sending) \in Nat
      /\ \A k \in 1 .. Len(wire) : wire[k] = Sending[k]
  BY <1>2 DEF Sending
<1>5. InOrder(script, Sending)'
  <2>1. InOrder(script, Sending)
    BY DEF Delivery
  <2> QED
    BY <1>1, <1>2, <1>3, <1>4, <2>1, OrderPrefix
<1>6. ASSUME NEW k \in 1 .. Len(Sending') PROVE KnownToken(Sending[k])'
  <2>1. k \in 1 .. Len(Sending) /\ Sending'[k] = Sending[k]
    BY <1>3, <1>4
  <2>2. KnownToken(Sending[k])
    BY <2>1 DEF Delivery
  <2> QED
    BY <1>1, <2>1, <2>2 DEF KnownToken
<1>7. ~FilePending'
  BY <1>1, NothingPends DEF FilePending
<1>8. RepliesOwed'
  <2>1. SUFFICES ASSUME why = "done", NEW i \in 1 .. handled PROVE DoneIn(script, Sending', i)
    BY <1>1 DEF RepliesOwed
  <2>2. Sending' = Sending
    BY <1>2, <1>3, <2>1, NothingUnsent DEF Sending
  <2> QED
    BY <2>1, <2>2 DEF Delivery, RepliesOwed
<1>9. FileStands' /\ Refused'
  BY <1>1, <1>7 DEF FileStands, Refused, Delivery
<1> QED
  BY <1>5, <1>6, <1>8, <1>9 DEF Delivery

(* The client begins a request.                                            *)
LEMMA DeliveryLater ==
  ASSUME ConnectionAssumption, Output, Delivery, NEW kind \in Kinds, script \in Seq(Kinds),
         script' = Append(script, kind), handled \in Nat, handled <= Len(script),
         parser.state # "StartLine" => handled + 1 <= Len(script),
         UNCHANGED <<alive, wire, out, handled, file, parser, sent100, cause, pc>>
  PROVE  Delivery'
<1>1. /\ Len(script) \in Nat /\ Len(script') = Len(script) + 1
      /\ \A i \in 1 .. Len(script) : script'[i] = script[i]
  OBVIOUS
<1>2. Sending' = Sending /\ Sending \in Seq(Tokens)
  BY SendingType DEF Sending
<1>3. InOrder(script, Sending)'
  <2>1. InOrder(script, Sending)
    BY DEF Delivery
  <2>2. \A k \in 1 .. Len(Sending) : Sending[k].req <= Len(script)
    BY DEF Delivery, KnownToken
  <2>3. InOrder(script', Sending)
    <3>1. PICK kinds2 : kinds2 = script'
      OBVIOUS
    <3>2. \A i \in 1 .. Len(script) : kinds2[i] = script[i]
      BY <1>1, <3>1
    <3>3. InOrder(kinds2, Sending)
      BY <1>1, <1>2, <2>1, <2>2, <3>2, OrderLater
    <3> QED
      BY <3>1, <3>3
  <2> QED
    BY <1>2, <2>3
<1>4. ASSUME NEW k \in 1 .. Len(Sending') PROVE KnownToken(Sending[k])'
  <2>1. KnownToken(Sending[k])
    BY <1>2 DEF Delivery
  <2> QED
    BY <1>1, <1>2, <2>1 DEF KnownToken
<1>5. ASSUME NEW i \in 1 .. handled PROVE DoneIn(script, Sending, i) => DoneIn(script', Sending, i)
  <2>1. script'[i] = script[i]
    BY <1>1
  <2> QED
    BY <2>1 DEF DoneIn
<1>6. FilePending' <=> FilePending
  BY DEF FilePending
<1>7. RepliesOwed'
  BY <1>2, <1>5, <1>6 DEF Delivery, RepliesOwed
<1>8. FileStands'
  BY <1>1, <1>2, <1>6 DEF Delivery, FileStands
<1>9. Refused'
  BY <1>1 DEF Delivery, Refused
<1> QED
  BY <1>3, <1>4, <1>7, <1>8, <1>9 DEF Delivery

-----------------------------------------------------------------------------
(* Nothing is read while a file is being sent.                             *)

LEMMA Least ==
  ASSUME NEW T, T \subseteq Nat, T # {}
  PROVE  \E n \in T : \A m \in T : n <= m
<1>1. PICK n \in T : \A m \in T : ~ (<<m, n>> \in OpToRel(<, Nat))
  BY NatLessThanWellFounded, WFMin, Zenon
<1>2. \A m \in T : m < n => <<m, n>> \in OpToRel(<, Nat)
  BY DEF OpToRel
<1>3. \A m \in T : ~(m < n)
  BY <1>1, <1>2, Zenon
<1> QED
  BY <1>3

LEMMA NextRises ==
  ASSUME NEW kinds, NEW p \in Pieces
  PROVE  NextPiece(kinds, p).req \in Nat /\ NextPiece(kinds, p).req >= p.req
BY PieceFields, ConnectionAssumption DEF NextPiece, Requests, ConnectionAssumption

LEMMA FlowsRise ==
  ASSUME NEW kinds, NEW s \in Seq(Pieces), NEW next, Flows(kinds, s, next), Len(s) > 0
  PROVE  (\A k \in 1 .. Len(s) : s[1].req <= s[k].req) /\ s[1].req <= next.req
<1>0. Len(s) \in Nat /\ \A k \in 1 .. Len(s) : s[k] \in Pieces /\ s[k].req \in Nat
  BY PieceFields, ConnectionAssumption DEF Requests, ConnectionAssumption
<1> DEFINE T == {k \in 1 .. Len(s) : ~(s[1].req <= s[k].req)}
<1>1. T = {}
  <2>1. SUFFICES ASSUME T # {} PROVE FALSE
    OBVIOUS
  <2>2. T \subseteq Nat
    OBVIOUS
  <2>3. PICK n \in T : \A m \in T : n <= m
    BY <2>1, <2>2, Least
  <2>4. n # 1 /\ n \in 2 .. Len(s)
    BY <1>0, <2>3
  <2>5. n - 1 \in 1 .. Len(s) /\ n - 1 \notin T /\ (n - 1) + 1 = n /\ n - 1 < Len(s)
    BY <1>0, <2>3, <2>4
  <2>6. s[1].req <= s[n - 1].req
    BY <2>5
  <2>7. s[n] = NextPiece(kinds, s[n - 1])
    BY <2>5 DEF Flows
  <2>8. s[n].req >= s[n - 1].req
    BY <1>0, <2>5, <2>7, NextRises
  <2> QED
    BY <1>0, <2>3, <2>5, <2>6, <2>8
<1>2. \A k \in 1 .. Len(s) : s[1].req <= s[k].req
  BY <1>1
<1>3. next = NextPiece(kinds, s[Len(s)])
  BY <1>0 DEF Flows
<1>4. next.req \in Nat /\ next.req >= s[Len(s)].req
  BY <1>0, <1>3, NextRises
<1> QED
  BY <1>0, <1>2, <1>4

(* What has arrived belongs to requests that are not handled yet.          *)
LEMMA ArrivedLater ==
  ASSUME Arrivals, alive, parser.state # "Error", NEW k \in 1 .. Len(arrived)
  PROVE  arrived[k].req > handled
<1> DEFINE next == NextSent(script, piece)
<1>1. arrived \in Seq(Pieces) /\ in \in Seq(Pieces) /\ Len(arrived) \in Nat /\ Len(in) \in Nat /\ handled \in Nat
  BY DEF Arrivals, Data
<1>2. Len(arrived) > 0 /\ arrived # <<>> /\ \A j \in 1 .. Len(arrived) : arrived[j].req \in Nat
  BY <1>1, PieceFields DEF Requests
<1>3. /\ Flows(script, arrived, next) /\ Flows(script, in, First(arrived, next))
      /\ First(in, First(arrived, next)) = Expected
  BY DEF Arrivals, Ordered
<1>4. First(arrived, next) = arrived[1]
  BY <1>2 DEF First
<1>5. arrived[1].req <= arrived[k].req
  BY <1>1, <1>2, <1>3, FlowsRise
<1>6. handled + 1 <= arrived[1].req
  <2>1. CASE in = <<>>
    BY <1>2, <1>3, <1>4, <2>1 DEF First, Expected
  <2>2. CASE in # <<>>
    <3>1. in[1].req = handled + 1
      BY <1>3, <1>4, <2>2 DEF First, Expected
    <3>2. in[1].req <= arrived[1].req
      BY <1>1, <1>3, <1>4, <2>2, FlowsRise
    <3> QED
      BY <3>1, <3>2
  <2> QED
    BY <2>1, <2>2
<1>7. 1 \in 1 .. Len(arrived) /\ arrived[1].req \in Nat /\ arrived[k].req \in Nat
  BY <1>1, <1>2
<1> QED
  BY <1>1, <1>5, <1>6, <1>7

(* While anything waits in the receive buffer, every request for a file    *)
(* waits there itself or has its file.                                     *)
Pipelined ==
  \A i \in 1 .. Len(script) :
    script[i] = "file" /\ arrived # <<>> =>
      (\E k \in 1 .. Len(arrived) : arrived[k].req = i) \/ DoneIn(script, wire, i)

LEMMA WireSent ==
  ASSUME Output
  PROVE  /\ Len(wire) \in Nat /\ wire \in Seq(Tokens)
         /\ \A k \in 1 .. Len(wire) : k \in 1 .. Len(Sending) /\ Sending[k] = wire[k]
<1>1. wire \in Seq(Tokens) /\ out \in Seq(Tokens)
  BY DEF Output
<1> QED
  BY <1>1 DEF Sending

LEMMA NoReadAhead ==
  ASSUME Arrivals, Output, Delivery, Pipelined, alive, arrived # <<>>
  PROVE  ~FilePending
<1> SUFFICES ASSUME FilePending PROVE FALSE
  OBVIOUS
<1>1. /\ handled >= 1 /\ script[handled] = "file" /\ file.end = FileLen
      /\ \A k \in 1 .. Len(Sending) :
           Sending[k].req <= handled /\ (Sending[k].req = handled => Rank(Sending[k]) <= 1 + file.off)
      /\ parser.state # "Error"
  BY DEF Delivery, FileStands
<1>2. handled \in Nat /\ Len(script) \in Nat /\ handled <= Len(script) /\ arrived \in Seq(Pieces)
  BY DEF Arrivals, Data, Standing
<1>3. handled \in 1 .. Len(script)
  BY <1>1, <1>2
<1>4. \A k \in 1 .. Len(arrived) : arrived[k].req # handled
  <2>1. ASSUME NEW k \in 1 .. Len(arrived) PROVE arrived[k].req # handled
    <3>1. arrived[k].req > handled
      BY <1>1, ArrivedLater
    <3> QED
      BY <1>2, <3>1
  <2> QED
    BY <2>1
<1>5. DoneIn(script, wire, handled)
  BY <1>1, <1>3, <1>4 DEF Pipelined
<1>6. \A k \in 1 .. Len(wire) : k \in 1 .. Len(Sending) /\ Sending[k] = wire[k]
  BY WireSent
<1>7. ~HasIn(wire, handled, "error")
  <2>1. ASSUME NEW k \in 1 .. Len(wire), wire[k].req = handled, wire[k].part = "error" PROVE FALSE
    <3>1. KnownToken(wire[k])
      BY <1>6 DEF Delivery
    <3> QED
      BY <1>1, <2>1, <3>1 DEF KnownToken
  <2> QED
    BY <2>1 DEF HasIn
<1>8. ChunksIn(wire, handled, FileLen)
  BY <1>1, <1>5, <1>7 DEF DoneIn, Chunks
<1>9. FileLen \in 1 .. FileLen /\ FileLen \in Nat
  BY ConnectionAssumption DEF ConnectionAssumption
<1>10. PICK k \in 1 .. Len(wire) : wire[k] = Chunk(handled, FileLen)
  BY <1>8, <1>9 DEF ChunksIn
<1>11. Rank(wire[k]) = 1 + FileLen /\ wire[k].req = handled
  BY <1>10, ChunkRank DEF Chunk
<1>12. 1 + FileLen <= 1 + file.off
  BY <1>1, <1>6, <1>11
<1>13. file.off < FileLen /\ file.off \in Nat
  <2>1. file \in [req : 0 .. MaxRequests, off : 0 .. FileLen, end : 0 .. FileLen]
    BY DEF Output
  <2>2. file.off \in Nat
    BY <2>1
  <2> QED
    BY <1>1, <2>2 DEF FilePending
<1> QED
  BY <1>9, <1>12, <1>13

LEMMA RepliedIsDone ==
  ASSUME Output, NEW i
  PROVE  Replied(i) <=> DoneIn(script, wire, i)
<1>1. DOMAIN wire = 1 .. Len(wire)
  BY DEF Output
<1> QED
  BY <1>1 DEF Replied, Has, HasFile, DoneIn, HasIn, ChunksIn

LEMMA PipelinedSame ==
  ASSUME Pipelined, UNCHANGED <<script, arrived, wire>>
  PROVE  Pipelined'
BY DEF Pipelined

LEMMA PipelinedWrites ==
  ASSUME Pipelined, Output, NEW t \in Tokens, wire' = Append(wire, t), UNCHANGED <<script, arrived>>
  PROVE  Pipelined'
<1>1. wire \in Seq(Tokens)
  BY DEF Output
<1>2. \A i \in 1 .. Len(script) : DoneIn(script, wire, i) => DoneIn(script, wire', i)
  BY <1>1, DoneAppend
<1> QED
  BY <1>2 DEF Pipelined

(* The client sends a piece of request i, when all the others let it.      *)
LEMMA PipelinedGrows ==
  ASSUME Tame, Pipelined, Output, arrived \in Seq(Pieces), NEW p \in Pieces, arrived' = Append(arrived, p),
         wire' = wire, script \in Seq(Kinds), script' \in Seq(Kinds),
         \A i \in 1 .. Len(script') : i # p.req => i \in 1 .. Len(script) /\ script'[i] = script[i] /\ MayFollow(i)
  PROVE  Pipelined'
<1>1. /\ Len(arrived) \in Nat /\ Len(arrived') = Len(arrived) + 1 /\ arrived'[Len(arrived) + 1] = p
      /\ \A k \in 1 .. Len(arrived) : arrived'[k] = arrived[k]
      /\ DOMAIN arrived = 1 .. Len(arrived)
  OBVIOUS
<1>2. ASSUME NEW i \in 1 .. Len(script'), script'[i] = "file"
      PROVE  (\E k \in 1 .. Len(arrived') : arrived'[k].req = i) \/ DoneIn(script', wire', i)
  <2>1. CASE i = p.req
    <3>1. Len(arrived) + 1 \in 1 .. Len(arrived')
      BY <1>1
    <3> QED
      BY <1>1, <2>1, <3>1
  <2>2. CASE i # p.req
    <3>1. script'[i] = script[i] /\ MayFollow(i)
      BY <2>2
    <3>2. script[i] \notin PipelineAfter
      BY <1>2, <3>1 DEF Tame
    <3>3. CASE \E k \in 1 .. Len(arrived) : arrived[k].req = i
      <4>1. PICK k \in 1 .. Len(arrived) : arrived[k].req = i
        BY <3>3
      <4>2. k \in 1 .. Len(arrived') /\ arrived'[k].req = i
        BY <1>1, <4>1
      <4> QED
        BY <4>2
    <3>4. CASE Replied(i)
      <4>1. DoneIn(script, wire, i)
        BY <3>4, RepliedIsDone
      <4>2. DoneIn(script', wire', i)
        BY <3>1, <4>1 DEF DoneIn
      <4> QED
        BY <4>2
    <3> QED
      BY <1>1, <3>1, <3>2, <3>3, <3>4 DEF MayFollow
  <2> QED
    BY <2>1, <2>2
<1> QED
  BY <1>2 DEF Pipelined

LEMMA PipelinedKept ==
  ConnectionAssumption /\ Tame /\ Arrivals /\ Output /\ Pipelined /\ [Next]_vars => Pipelined'
<1> SUFFICES ASSUME ConnectionAssumption, Tame, Arrivals, Output, Pipelined, [Next]_vars PROVE Pipelined'
  OBVIOUS
<1> USE DEF clientVars, kernelVars
<1>a. /\ arrived \in Seq(Pieces) /\ script \in Seq(Kinds) /\ Len(script) \in Nat /\ Len(script) <= MaxRequests
      /\ MaxRequests \in Nat
  BY ConnectionAssumption DEF Arrivals, Data, ConnectionAssumption
<1>1. CASE Wait \/ Tick
  BY <1>1, PipelinedSame, Zenon DEF Wait, Tick
<1>2. CASE Connecting
  BY <1>2, PipelinedSame, Zenon
     DEF Connecting, DispatchError, HandshakeWants, HandshakeDone, HandshakeFails, DispatchIo, CloseConn
<1>3. CASE Reading
  <2>1. CASE ReadData \/ ReadEndKeeps
    <3>1. arrived' = <<>> /\ UNCHANGED <<script, wire>>
      BY <2>1, Zenon DEF ReadData, ReadEndKeeps
    <3> QED
      BY <3>1 DEF Pipelined
  <2>2. CASE ReadNothing \/ ReadEndDrops
    BY <2>2, PipelinedSame, Zenon DEF ReadNothing, ReadEndDrops, CloseConn
  <2> QED
    BY <1>3, <2>1, <2>2 DEF Reading
<1>4. CASE Processing
  BY <1>4, PipelinedSame, Zenon
     DEF Processing, ProcessError, ProcessPartial, HandleRequest, HandleUpgrade
<1>5. CASE Flushing
  <2>1. CASE WriteOut
    <3>1. out # <<>> /\ wire' = Append(wire, Head(out)) /\ UNCHANGED <<script, arrived>>
      BY <2>1, Zenon DEF WriteOut
    <3>2. Head(out) \in Tokens
      BY <3>1 DEF Output
    <3> QED
      BY <3>1, <3>2, PipelinedWrites
  <2>2. CASE WriteFile
    <3>1. FilePending /\ wire' = Append(wire, Chunk(file.req, file.off + 1)) /\ UNCHANGED <<script, arrived>>
      BY <2>2, Zenon DEF WriteFile
    <3>2. file.req \in 0 .. MaxRequests /\ file.off + 1 \in 1 .. FileLen
      BY <3>1, ConnectionAssumption DEF Output, FilePending, ConnectionAssumption
    <3>3. Chunk(file.req, file.off + 1) \in Tokens
      BY <3>2, TokensAre
    <3> QED
      BY <3>1, <3>3, PipelinedWrites
  <2>3. CASE WriteStalls \/ WriteFails \/ FlushCloses \/ FlushGoesOn
    BY <2>3, PipelinedSame, Zenon DEF WriteStalls, WriteFails, FlushCloses, FlushGoesOn, CloseConn
  <2> QED
    BY <1>5, <2>1, <2>2, <2>3 DEF Flushing
<1>6. CASE Sweeping
  BY <1>6, PipelinedSame, Zenon DEF Sweeping, SweepSkips, SweepAnswers, SweepCloses, CloseConn
<1>7. CASE Client
  <2>1. CASE SendRest
    <3> DEFINE p == [req |-> Len(script), n |-> piece + 1]
    <3>1. /\ script # <<>> /\ piece < NPieces(script[Len(script)])
          /\ \A i \in 1 .. Len(script) - 1 : MayFollow(i)
          /\ arrived' = Append(arrived, p) /\ UNCHANGED <<script, wire>>
      BY <2>1, Zenon DEF SendRest
    <3>2. p \in Pieces
      <4>1. piece \in 0 .. 2 /\ NPieces(script[Len(script)]) \in {1, 2}
        BY PieceCounts DEF Arrivals, Data
      <4>2. piece + 1 \in 1 .. 2 /\ Len(script) \in 1 .. MaxRequests
        BY <1>a, <3>1, <4>1
      <4> QED
        BY <4>2 DEF Pieces, Requests
    <3>3. \A i \in 1 .. Len(script') : i # p.req => i \in 1 .. Len(script) /\ script'[i] = script[i] /\ MayFollow(i)
      BY <1>a, <3>1
    <3> QED
      BY <1>a, <3>1, <3>2, <3>3, PipelinedGrows
  <2>2. ASSUME NEW kind \in Kinds, SendRequest(kind) PROVE Pipelined'
    <3> DEFINE p == [req |-> Len(script) + 1, n |-> 1]
    <3>1. /\ Len(script) < MaxRequests /\ \A i \in DOMAIN script : MayFollow(i)
          /\ script' = Append(script, kind) /\ arrived' = Append(arrived, p) /\ wire' = wire
      BY <2>2, Zenon DEF SendRequest
    <3>2. p \in Pieces
      BY <1>a, <3>1 DEF Pieces, Requests
    <3>3. script' \in Seq(Kinds) /\ Len(script') = Len(script) + 1
          /\ (\A i \in 1 .. Len(script) : script'[i] = script[i]) /\ DOMAIN script = 1 .. Len(script)
      BY <1>a, <3>1
    <3>4. \A i \in 1 .. Len(script') : i # p.req => i \in 1 .. Len(script) /\ script'[i] = script[i] /\ MayFollow(i)
      <4>1. \A i \in 1 .. Len(script) + 1 : i # Len(script) + 1 => i \in 1 .. Len(script)
        BY <1>a
      <4> QED
        BY <3>1, <3>3, <4>1
    <3> QED
      BY <1>a, <3>1, <3>2, <3>3, <3>4, PipelinedGrows
  <2>3. CASE SendHandshake \/ ClientReads
    BY <2>3, PipelinedSame, Zenon DEF SendHandshake, ClientReads
  <2>4. ASSUME NEW how \in {"fin", "rst"}, ClientLeaves(how) PROVE Pipelined'
    BY <2>4, PipelinedSame, Zenon DEF ClientLeaves
  <2> QED
    BY <1>7, <2>1, <2>2, <2>3, <2>4 DEF Client
<1>8. CASE UNCHANGED vars
  BY <1>8, PipelinedSame, Zenon DEF vars
<1> QED
  BY <1>1, <1>2, <1>3, <1>4, <1>5, <1>6, <1>7, <1>8, StepKinds

-----------------------------------------------------------------------------
(* Every step keeps what is on the wire and in the queue.                  *)

LEMMA DeliveryKept ==
  ConnectionAssumption /\ Tame /\ Core /\ Arrivals /\ Output /\ Pipelined /\ Delivery /\ [Next]_vars
    => Delivery'
<1> SUFFICES ASSUME ConnectionAssumption, Tame, Core, Arrivals, Output, Pipelined, Delivery, [Next]_vars
             PROVE  Delivery'
  OBVIOUS
<1> USE DEF workerVars, kernelVars, outputVars, parseVars, clientVars
<1>a. /\ pc \in {"process", "flush"} => alive
      /\ handled \in Nat /\ handled \in 0 .. MaxRequests /\ script \in Seq(Kinds) /\ Len(script) \in Nat
      /\ Len(script) <= MaxRequests /\ handled <= Len(script) /\ MaxRequests \in Nat
      /\ parser.state # "StartLine" => parser.req = handled + 1 /\ handled + 1 <= Len(script)
      /\ parser.state = "StartLine" => ~inRequest
      /\ parser.state \in {"Headers", "Body"} => NPieces(script[handled + 1]) = 2
      /\ parser.state \in {"StartLine", "Headers", "Body", "Error"}
  BY ConnectionAssumption DEF Core, Places, Arrivals, Data, Standing, ConnectionAssumption
<1>b. pc = "process" => ~FilePending
  BY DEF Delivery, FileStands
<1>c. Sending \in Seq(Tokens) /\ out \in Seq(Tokens) /\ wire \in Seq(Tokens)
  BY SendingType DEF Output
<1>d. parser.state = "Error" => script[handled + 1] = "bad" /\ ~FilePending
  BY DEF Delivery, Refused, FileStands
<1>e. UNCHANGED <<wire, out, file, script, handled, sent100, parser>> /\ (alive' \/ cause' = "done" => alive \/ cause = "done")
        /\ (pc' = "process" => ~FilePending) => Delivery'
  BY DeliverySame DEF Sending, FilePending
<1>f. ASSUME NEW i \in 1 .. MaxRequests, NEW what \in {"continue", "reply", "error"},
             out' = Append(out, Token(i, what)), wire' = wire
      PROVE  Token(i, what) \in Tokens /\ Sending' = Append(Sending, Token(i, what))
             /\ Token(i, what).req = i /\ Token(i, what).part = what
  <2>1. Token(i, what) \in Tokens
    BY TokensAre
  <2>2. wire \o Append(out, Token(i, what)) = Append(wire \o out, Token(i, what))
    BY <1>c, <2>1, EmitsToken
  <2>3. Sending' = wire \o Append(out, Token(i, what))
    BY <1>f, Zenon DEF Sending
  <2> QED
    BY <2>1, <2>2, <2>3 DEF Sending, Token
<1>1. CASE Wait \/ Tick
  BY <1>e, <1>1 DEF Wait, Tick
<1>2. CASE Connecting
  <2>1. CASE DispatchError \/ HandshakeFails
    BY <2>1, DeliveryClosed DEF DispatchError, HandshakeFails
  <2>2. CASE HandshakeWants \/ HandshakeDone \/ DispatchIo
    BY <1>e, <2>2 DEF HandshakeWants, HandshakeDone, DispatchIo, Goto
  <2> QED
    BY <1>2, <2>1, <2>2 DEF Connecting
<1>3. CASE Reading
  <2>1. CASE ReadNothing
    BY <1>e, <2>1 DEF ReadNothing, Goto
  <2>2. CASE ReadData
    <3>1. alive /\ arrived # <<>> /\ UNCHANGED <<wire, out, file, script, handled, sent100, parser, alive, cause>>
      BY <2>2 DEF ReadData, Core, Places
    <3>2. ~FilePending
      BY <3>1, NoReadAhead
    <3> QED
      BY <1>e, <3>1, <3>2
  <2>3. CASE ReadEndDrops
    BY <2>3, DeliveryClosed DEF ReadEndDrops
  <2>4. CASE ReadEndKeeps
    <3>1. /\ alive /\ UNCHANGED <<wire, out, file, script, handled, sent100, parser, alive, cause>>
          /\ pc' = "process" => arrived # <<>>
      BY <2>4 DEF ReadEndKeeps, Core, Places, Goto
    <3>2. pc' = "process" => ~FilePending
      BY <3>1, NoReadAhead
    <3> QED
      BY <1>e, <3>1, <3>2
  <2> QED
    BY <1>3, <2>1, <2>2, <2>3, <2>4 DEF Reading
<1>4. CASE Processing
  <2>1. CASE ProcessError
    <3>1. /\ out' = Append(out, Token(Parsed.req, "error")) /\ pc = "process"
          /\ UNCHANGED <<file, wire, script, handled, sent100, alive>>
      BY <2>1, Zenon DEF ProcessError
    <3>2. Parsed.req = handled + 1 /\ handled + 1 \in 1 .. Len(script) /\ script[handled + 1] = "bad"
      <4>1. Parsed.req = handled + 1 /\ handled + 1 \in 1 .. Len(script)
            /\ (parser.state # "Error" => script[handled + 1] = "bad")
        BY <1>a, <2>1, <3>1, RequestRefused
      <4> QED
        BY <1>d, <4>1
    <3>3. handled + 1 \in 1 .. MaxRequests
      BY <1>a, <3>2
    <3>4. ~FilePending' /\ ~FilePending
      BY <1>b, <3>1 DEF FilePending
    <3> DEFINE t == Token(handled + 1, "error")
    <3>5. t \in Tokens /\ Sending' = Append(Sending, t) /\ t.req = handled + 1 /\ t.part = "error"
      BY <1>f, <3>1, <3>2, <3>3
    <3> HIDE DEF t
    <3> QED
      BY <1>a, <3>1, <3>2, <3>4, <3>5, DeliveryNoted
  <2>2. CASE ProcessPartial
    <3>1. /\ pc = "process" /\ Parsed.state \notin {"Complete", "Error"} /\ parser' = Parsed
          /\ sent100' = (sent100 \/ Parsed.state = "Body")
          /\ out' = IF ~sent100 /\ Parsed.state = "Body" /\ script[Parsed.req] = "expect"
                    THEN Append(out, Token(Parsed.req, "continue")) ELSE out
          /\ UNCHANGED <<file, wire, script, handled, alive, cause>> /\ pc' = "flush"
      BY <2>2, Zenon DEF ProcessPartial, LeaveLoop, Goto
    <3>2. Parsed.req = handled + 1 /\ handled + 1 \in 1 .. Len(script)
      BY <1>a, <2>2, <3>1, RequestBegun
    <3>3. handled + 1 \in 1 .. MaxRequests
      BY <1>a, <3>2
    <3>4. ~FilePending' /\ ~FilePending
      BY <1>b, <3>1 DEF FilePending
    <3>5. parser'.state # "Error" /\ (sent100 => sent100')
      BY <3>1, Zenon
    <3>6. CASE ~sent100 /\ Parsed.state = "Body" /\ script[Parsed.req] = "expect"
      <4> DEFINE t == Token(handled + 1, "continue")
      <4>1. t \in Tokens /\ Sending' = Append(Sending, t) /\ t.req = handled + 1 /\ t.part = "continue"
        BY <1>f, <3>1, <3>2, <3>3, <3>6
      <4>2. sent100'
        BY <3>1, <3>6, Zenon
      <4> HIDE DEF t
      <4> QED
        BY <1>a, <3>1, <3>2, <3>4, <3>5, <3>6, <4>1, <4>2, DeliveryNoted
    <3>7. CASE ~(~sent100 /\ Parsed.state = "Body" /\ script[Parsed.req] = "expect")
      <4>1. Sending' = Sending
        BY <3>1, <3>7, Zenon DEF Sending
      <4> QED
        BY <3>1, <3>4, <3>5, <4>1, DeliverySame
    <3> QED
      BY <3>6, <3>7
  <2>3. CASE HandleRequest
    <3>1. /\ pc = "process" /\ Parsed.state = "Complete" /\ in' = Rest /\ handled' = handled + 1
          /\ parser' = [Fresh EXCEPT !.req = Parsed.req] /\ sent100' = FALSE /\ inRequest' = FALSE
          /\ UNCHANGED <<script, piece, arrived, hsSent, hsRead, alive, wire, unread>>
          /\ out' = Append(out, ReplyTo(Parsed.req)) /\ file' = FileFor(Parsed.req)
      BY <2>3, Zenon DEF HandleRequest
    <3>2. pc' = "process" => in' # <<>> /\ ~FilePending'
      BY <2>3 DEF HandleRequest, LoopEnds, LeaveLoop, Goto, FilePending
    <3>3. Parsed.req = handled + 1 /\ handled + 1 \in 1 .. Len(script)
      BY <1>a, <3>1, <3>2, RequestTaken
    <3>4. handled + 1 \in 1 .. MaxRequests /\ handled + 1 \in 0 .. MaxRequests
      BY <1>a, <3>3
    <3>5. Sending' = Append(Sending, ReplyTo(handled + 1))
      BY <1>f, <3>1, <3>3, <3>4 DEF ReplyTo
    <3>6. parser'.state # "Error"
      BY <3>1 DEF Fresh
    <3> QED
      BY <1>a, <1>b, <3>1, <3>2, <3>3, <3>4, <3>5, <3>6, DeliveryReplied
  <2>4. CASE HandleUpgrade
    <3>1. /\ pc = "process" /\ Parsed.state = "Complete" /\ in' = Rest /\ handled' = handled + 1
          /\ parser' = [Fresh EXCEPT !.req = Parsed.req] /\ sent100' = FALSE /\ inRequest' = FALSE
          /\ UNCHANGED <<script, piece, arrived, hsSent, hsRead, alive, wire, unread, file>>
          /\ out' = Append(out, ReplyTo(Parsed.req)) /\ script[Parsed.req] = "upgrade"
      BY <2>4, Zenon DEF HandleUpgrade
    <3>2. pc' # "process"
      BY <2>4 DEF HandleUpgrade, Goto
    <3>3. Parsed.req = handled + 1 /\ handled + 1 \in 1 .. Len(script)
      BY <1>a, <3>1, <3>2, RequestTaken
    <3>4. handled + 1 \in 1 .. MaxRequests /\ handled + 1 \in 0 .. MaxRequests
      BY <1>a, <3>3
    <3>5. Sending' = Append(Sending, ReplyTo(handled + 1))
      BY <1>f, <3>1, <3>3, <3>4 DEF ReplyTo
    <3>6. parser'.state # "Error"
      BY <3>1 DEF Fresh
    <3> QED
      BY <1>a, <1>b, <3>1, <3>2, <3>3, <3>4, <3>5, <3>6, DeliveryReplied
  <2> QED
    BY <1>4, <2>1, <2>2, <2>3, <2>4 DEF Processing
<1>5. CASE Flushing
  <2>1. CASE WriteOut
    <3>1. /\ out # <<>> /\ wire' = Append(wire, Head(out)) /\ out' = Tail(out) /\ pc = "flush"
          /\ UNCHANGED <<file, script, handled, sent100, parser, alive, cause, pc>>
      BY <2>1, Zenon DEF WriteOut
    <3>2. Sending' = Sending
      BY <1>c, <3>1, TakesToken DEF Sending
    <3> QED
      BY <3>1, <3>2, DeliverySame DEF FilePending
  <2>2. CASE WriteFile
    <3>1. /\ FilePending /\ out = <<>> /\ wire' = Append(wire, Chunk(file.req, file.off + 1)) /\ pc = "flush"
          /\ file' = [file EXCEPT !.off = file.off + 1]
          /\ UNCHANGED <<out, script, handled, sent100, parser, alive, cause, pc>>
      BY <2>2, Zenon DEF WriteFile
    <3>2. Chunk(file.req, file.off + 1) \in Tokens
      <4>1. file.req \in 0 .. MaxRequests /\ file.off + 1 \in 1 .. FileLen
        BY <3>1, ConnectionAssumption DEF Output, FilePending, ConnectionAssumption
      <4> QED
        BY <4>1, TokensAre
    <3>3. Sending = wire /\ Sending' = wire'
      BY <1>c, <3>1, <3>2, NothingUnsent DEF Sending
    <3>4. Sending' = Append(Sending, Chunk(file.req, file.off + 1))
      BY <3>1, <3>3
    <3> QED
      BY <1>a, <3>1, <3>4, DeliveryChunk
  <2>3. CASE WriteStalls
    <3>1. pc' # "process"
      BY <2>3 DEF WriteStalls, Goto, Core, Control
    <3> QED
      BY <1>e, <2>3, <3>1 DEF WriteStalls
  <2>4. CASE WriteFails
    BY <2>4, DeliveryClosed DEF WriteFails
  <2>5. Written => out = <<>> /\ ~FilePending
    <3> SUFFICES ASSUME Written, FilePending PROVE FALSE
      BY DEF Written, Writing
    <3>1. script[handled] = "file" /\ file.req = handled /\ file.end = FileLen
      BY DEF Delivery, FileStands
    <3>2. FileSize = FileLen
      BY <3>1 DEF FileSize
    <3>3. ~(file.off < FileLen)
      BY <3>2 DEF Written, Writing
    <3> QED
      BY <3>1, <3>3 DEF FilePending
  <2>6. CASE FlushCloses
    BY <1>a, <2>5, <2>6, DeliveryClosed DEF FlushCloses, Written
  <2>7. CASE FlushGoesOn
    <3>1. /\ file' = (IF FilePending THEN file ELSE NoFile) /\ Written
          /\ UNCHANGED <<out, wire, script, handled, sent100, parser, alive, cause>>
      BY <2>7, Zenon DEF FlushGoesOn
    <3>2. ~FilePending /\ ~FilePending'
      BY <2>5, <3>1, NothingPends DEF FilePending
    <3> QED
      BY <3>1, <3>2, DeliverySame DEF Sending
  <2> QED
    BY <1>5, <2>1, <2>2, <2>3, <2>4, <2>6, <2>7 DEF Flushing
<1>6. CASE Sweeping
  <2>1. CASE SweepSkips
    BY <1>e, <2>1 DEF SweepSkips, Goto
  <2>2. CASE SweepAnswers
    <3>1. /\ out' = Append(out, Token(parser.req, "error")) /\ alive /\ inRequest /\ ~FilePending
          /\ UNCHANGED <<file, wire, script, handled, sent100, alive, parser>>
      BY <2>2, Zenon DEF SweepAnswers, TimesOutRequest, Pending
    <3>2. parser.req = handled + 1 /\ handled + 1 \in 1 .. Len(script) /\ script[handled + 1] # "file"
      <4>1. parser.state # "StartLine"
        BY <1>a, <3>1
      <4>2. NPieces("file") = 1
        BY DEF NPieces
      <4> QED
        BY <1>a, <1>d, <4>1, <4>2
    <3>3. handled + 1 \in 1 .. MaxRequests
      BY <1>a, <3>2
    <3>4. ~FilePending'
      BY <3>1 DEF FilePending
    <3> DEFINE t == Token(handled + 1, "error")
    <3>5. t \in Tokens /\ Sending' = Append(Sending, t) /\ t.req = handled + 1 /\ t.part = "error"
      BY <1>f, <3>1, <3>2, <3>3
    <3>6. parser'.state = "Error" => script[handled + 1] = "bad"
      BY <1>d, <3>1
    <3> HIDE DEF t
    <3> QED
      BY <1>a, <3>1, <3>2, <3>4, <3>5, <3>6, DeliveryNoted
  <2>3. CASE SweepCloses
    BY <2>3, DeliveryClosed DEF SweepCloses
  <2> QED
    BY <1>6, <2>1, <2>2, <2>3 DEF Sweeping
<1>7. CASE Client
  <2>1. CASE SendRest \/ SendHandshake \/ ClientReads
    BY <1>b, <1>e, <2>1 DEF SendRest, SendHandshake, ClientReads
  <2>2. ASSUME NEW kind \in Kinds, SendRequest(kind) PROVE Delivery'
    <3>1. script' = Append(script, kind)
          /\ UNCHANGED <<alive, wire, out, handled, file, parser, sent100, cause, pc>>
      BY <2>2, Zenon DEF SendRequest
    <3> QED
      BY <1>a, <3>1, DeliveryLater
  <2>3. ASSUME NEW how \in {"fin", "rst"}, ClientLeaves(how) PROVE Delivery'
    BY <1>b, <1>e, <2>3 DEF ClientLeaves
  <2> QED
    BY <1>7, <2>1, <2>2, <2>3 DEF Client
<1>8. CASE UNCHANGED vars
  BY <1>b, <1>e, <1>8 DEF vars
<1> QED
  BY <1>1, <1>2, <1>3, <1>4, <1>5, <1>6, <1>7, <1>8, StepKinds

-----------------------------------------------------------------------------
(* The other theorems.                                                     *)

Inv == Core /\ Arrivals /\ Output /\ Pipelined /\ Delivery

LEMMA DeliveryAtFirst == Init => Pipelined /\ Delivery
<1> SUFFICES ASSUME Init PROVE Pipelined /\ Delivery
  OBVIOUS
<1>1. /\ script = <<>> /\ wire = <<>> /\ out = <<>> /\ file = NoFile /\ handled = 0 /\ parser = Fresh
  BY DEF Init
<1>2. Sending = <<>> /\ Len(Sending) = 0 /\ Len(script) = 0
  BY <1>1 DEF Sending
<1>3. ~FilePending
  BY <1>1, NothingPends DEF FilePending
<1>4. Pipelined
  BY <1>2 DEF Pipelined
<1>5. InOrder(script, Sending) /\ \A k \in 1 .. Len(Sending) : KnownToken(Sending[k])
  BY <1>2 DEF InOrder
<1>6. RepliesOwed
  BY <1>1 DEF RepliesOwed
<1>7. FileStands /\ Refused
  BY <1>1, <1>3 DEF FileStands, Refused, Fresh
<1> QED
  BY <1>4, <1>5, <1>6, <1>7 DEF Delivery

LEMMA DeliveryInvariant ==
  ASSUME Tame
  PROVE  Spec => []Inv
<1>1. Init => Pipelined /\ Delivery
  BY DeliveryAtFirst
<1>2. Core /\ Arrivals /\ Output /\ Pipelined /\ Delivery /\ [Next]_vars => (Pipelined /\ Delivery)'
  BY ConnectionAssumption, PipelinedKept, DeliveryKept
<1> QED
  BY <1>1, <1>2, ConnectionInvariant, PTL DEF Spec, Inv

(* Replies reach the client in the order of the requests, each once and    *)
(* whole, with its 100 before it and its file behind it, however requests  *)
(* are pipelined, reads divide them and writes stall (process_input_,      *)
(* flush_output_), as long as nothing is pipelined behind a file and no    *)
(* file shrinks while it is sent.                                          *)
THEOREM RepliesInOrder ==
  ASSUME Tame
  PROVE  Spec => []WireInOrder
<1>1. Inv => WireInOrder
  <2> SUFFICES ASSUME Inv PROVE WireInOrder
    OBVIOUS
  <2>1. wire \in Seq(Tokens) /\ Len(wire) \in Nat /\ DOMAIN wire = 1 .. Len(wire)
    BY DEF Inv, Output
  <2>2. Sending \in Seq(Tokens) /\ InOrder(script, Sending)
    BY SendingType DEF Inv, Delivery
  <2>3. \A k \in 1 .. Len(wire) : k \in 1 .. Len(Sending) /\ wire[k] = Sending[k]
    BY WireSent DEF Inv
  <2>4. Len(wire) <= Len(Sending)
    BY <2>1, <2>2 DEF Inv, Output, Sending
  <2>5. InOrder(script, wire)
    BY <2>1, <2>2, <2>3, <2>4, OrderPrefix
  <2> QED
    BY <2>1, <2>5 DEF WireInOrder, InOrder, Precedes, Settled
<1> QED
  BY <1>1, DeliveryInvariant, PTL

(* A connection that is closed after a reply has sent all of every reply   *)
(* it owed, and one whose worker sleeps on unconsumed input, or before a   *)
(* close, has output whose end takes that up (the tail of flush_output_).  *)
THEOREM NothingIsLeftBehind ==
  ASSUME Tame
  PROVE  Spec => []NothingLeftBehind
<1>1. Inv => NothingLeftBehind
  <2> SUFFICES ASSUME Inv PROVE NothingLeftBehind
    OBVIOUS
  <2>1. ASSUME ~alive, cause = "done", NEW i \in 1 .. handled PROVE Replied(i)
    <3>1. out = <<>> /\ ~FilePending /\ wire \in Seq(Tokens)
      BY <2>1, NothingPends DEF Inv, Core, Waiting, Interest, FilePending, Output
    <3>2. Sending = wire
      BY <3>1, NothingUnsent DEF Sending
    <3>3. DoneIn(script, wire, i)
      BY <2>1, <3>1, <3>2 DEF Inv, Delivery, RepliesOwed
    <3> QED
      BY <3>3, RepliedIsDone DEF Inv
  <2>2. ASSUME pc = "wait", alive, phase = "Http", in # <<>> \/ closeAfter PROVE Pending
    BY <2>2 DEF Inv, Core, Waiting, AtRest, Resting
  <2> QED
    BY <2>1, <2>2 DEF NothingLeftBehind
<1> QED
  BY <1>1, DeliveryInvariant, PTL
=============================================================================
