-------------------------------- MODULE Formats --------------------------------
(***************************************************************************)
(* The texts that handlers read and write: percent-encoding, query strings *)
(* and forms, multipart bodies, cookies, the lists of a Pulse handshake,   *)
(* event streams.                                                          *)
(*                                                                         *)
(* A text is a sequence of marks.  Every character that a parser looks at  *)
(* is a mark of its own; a word that is only compared as a whole, such as  *)
(* "boundary=" or the name of a header, is one mark.  Names that are       *)
(* compared without regard to case are written in one.                     *)
(***************************************************************************)
EXTENDS Integers, Sequences, SequencesExt, FiniteSetsExt

CONSTANT CharOf(_)   (* the mark that a byte is *)

EndOfLine == <<"\r", "\n">>

PartOf(s, i) == SubSeq(s, i, Len(s))

(* string::find: the first place from n on where `what' is, or 0. *)
Find(s, what, n) ==
  LET found == {i \in n..(Len(s) - Len(what) + 1) : SubSeq(s, i, i + Len(what) - 1) = what}
  IN IF found = {} THEN 0 ELSE Min(found)

FindMark(s, mark) == SelectInSeq(s, LAMBDA c : c = mark)

(* The pieces between separators, and split_view, which skips empty ones. *)
Pieces(s, sep) ==
  FoldLeft(LAMBDA pieces, c : IF c = sep THEN Append(pieces, <<>>)
                              ELSE [pieces EXCEPT ![Len(pieces)] = Append(@, c)], <<<<>>>>, s)

SplitView(s, sep) == SelectSeq(Pieces(s, sep), LAMBDA piece : piece # <<>>)

(* trim_view *)
Trim(s) ==
  LET kept == {i \in DOMAIN s : s[i] \notin {" ", "\t"}}
  IN IF kept = {} THEN <<>> ELSE SubSeq(s, Min(kept), Max(kept))

Unquoted(s) == IF Len(s) >= 2 /\ Head(s) = "\"" /\ Last(s) = "\"" THEN Front(Tail(s)) ELSE s

(* What is assigned key by key to a map: the last value of a key stays. *)
MapOf(pairs) ==
  [key \in {pairs[i][1] : i \in DOMAIN pairs} |->
     pairs[SelectLastInSeq(pairs, LAMBDA pair : pair[1] = key)][2]]

Named(pairs) == SelectSeq(pairs, LAMBDA pair : pair[1] # <<>>)

(* What is before and behind the first separator of a line that has one. *)
KeyIn(line, sep)   == Trim(SubSeq(line, 1, FindMark(line, sep) - 1))
ValueIn(line, sep) == Trim(PartOf(line, FindMark(line, sep) + 1))

-----------------------------------------------------------------------------
(* Percent-encoding and forms.                                             *)

HexValue(c) ==
  LET digit == FindMark(<<"0", "1", "2", "3", "4", "5", "6", "7", "8", "9",
                          "a", "b", "c", "d", "e", "f">>, c)
      upper == FindMark(<<"A", "B", "C", "D", "E", "F">>, c)
  IN IF upper # 0 THEN 9 + upper ELSE digit - 1

(* Fault: something has to follow an escape. *)
EscapedInside(s) ==
  \A i \in DOMAIN s : s[i] = "%" => i + 2 < Len(s) /\ HexValue(s[i + 1]) >= 0 /\ HexValue(s[i + 2]) >= 0

(* What url_decode accepts.  A hex digit is no "%", so none of them is     *)
(* inside another escape.                                                  *)
WellEscaped(s) ==
  \A i \in DOMAIN s : s[i] = "%" => i + 2 <= Len(s) /\ HexValue(s[i + 1]) >= 0 /\ HexValue(s[i + 2]) >= 0

Unescaped(s, plusAsSpace) ==
  LET inside(i) == \E j \in {i - 1, i - 2} \cap DOMAIN s : s[j] = "%"
      mark(i) == CASE inside(i)                  -> <<>>
                   [] s[i] = "%"                 -> <<CharOf(16 * HexValue(s[i + 1]) + HexValue(s[i + 2]))>>
                   [] s[i] = "+" /\ plusAsSpace  -> <<" ">>
                   [] OTHER                      -> <<s[i]>>
  IN FlattenSeq([i \in DOMAIN s |-> mark(i)])

(* parse_query_string keeps what cannot be decoded as it is. *)
ParseQueryString(qs) ==
  LET split == SplitView(qs, "&")
      raw(p) == LET eq == FindMark(p, "=")
                IN IF eq = 0 THEN <<p, <<>>>> ELSE <<SubSeq(p, 1, eq - 1), PartOf(p, eq + 1)>>
      read(s) == IF WellEscaped(s) THEN Unescaped(s, TRUE) ELSE s
  IN MapOf(Named([i \in DOMAIN split |-> [side \in {1, 2} |-> read(raw(split[i])[side])]]))

-----------------------------------------------------------------------------
(* Cookies.                                                                *)

(* Cookie::to_string; an attribute that is not set is empty. *)
NewCookie(name, value) ==
  [name |-> name, value |-> value, path |-> <<>>, domain |-> <<>>, maxAge |-> <<>>,
   expires |-> <<>>, secure |-> FALSE, httpOnly |-> FALSE, sameSite |-> <<>>]

CookieText(c) ==
  LET valued(name, value) == IF value = <<>> THEN <<>> ELSE <<";", " ", name, "=">> \o value
      flag(name, set)     == IF set THEN <<";", " ", name>> ELSE <<>>
  IN c.name \o <<"=">> \o c.value
       \o valued("Path", c.path) \o valued("Domain", c.domain) \o valued("Max-Age", c.maxAge)
       \o valued("Expires", c.expires) \o flag("Secure", c.secure)
       \o flag("HttpOnly", c.httpOnly) \o valued("SameSite", c.sameSite)

(* cookies::expired *)
ExpiredText(name, path) ==
  CookieText([NewCookie(name, <<>>) EXCEPT !.path = path, !.maxAge = <<"0">>, !.expires = <<"epoch">>])

(* parse_cookie_header; a piece without a key is dropped. *)
ParseCookieHeader(header) ==
  LET split == SplitView(header, ";")
  IN MapOf(Named([i \in DOMAIN split |-> <<KeyIn(split[i], "="), Unquoted(ValueIn(split[i], "="))>>]))

-----------------------------------------------------------------------------
(* multipart/form-data.                                                    *)

(* extract_boundary_: of the parameter that is one, not of a name that     *)
(* only ends like it.                                                      *)
ExtractBoundary(contentType) ==
  LET at == {i \in DOMAIN contentType : contentType[i] = "boundary=" /\
               (i > 1 => contentType[i - 1] \in {";", " ", "\t"})}
      rest == PartOf(contentType, Min(at) + 1)
      close == Find(rest, <<"\"">>, 2)
      semi  == FindMark(rest, ";")
  IN CASE at = {} -> <<>>
       [] at # {} /\ rest # <<>> /\ Head(rest) = "\"" ->
            IF close = 0 THEN <<>> ELSE SubSeq(rest, 2, close - 1)
       [] OTHER -> Trim(IF semi = 0 THEN rest ELSE SubSeq(rest, 1, semi - 1))

(* disposition_param_ *)
ParamIn(pairs) == IF pairs = <<>> THEN <<>> ELSE Unquoted(ValueIn(pairs[1], "="))

DispositionParam(value, param) ==
  ParamIn(SelectSeq(SplitView(value, ";"), LAMBDA p : KeyIn(p, "=") = <<param>>))

(* The lines of a part's head: the last header of a name counts. *)
LastValue(lines) == IF lines = <<>> THEN <<>> ELSE ValueIn(Last(lines), ":")

HeaderOfPart(lines, name) == LastValue(SelectSeq(lines, LAMBDA line : KeyIn(line, ":") = <<name>>))

LinesOf(head) ==
  LET from[i \in 1..(Len(head) + 1)] ==
        LET eol == Find(head, EndOfLine, i)
        IN IF eol = 0 THEN <<>> ELSE <<SubSeq(head, i, eol - 1)>> \o from[eol + 2]
  IN from[1]

(* Where the head of a part that begins at i ends, before an empty line; 0 *)
(* when there is none.                                                     *)
HeadEnd(text, i) ==
  LET end == Find(text, EndOfLine \o EndOfLine, i)
  IN IF Find(text, EndOfLine, i) = i THEN i ELSE IF end = 0 THEN 0 ELSE end + 2

PartOfHead(lines, data) ==
  [name     |-> DispositionParam(HeaderOfPart(lines, "Content-Disposition"), "name"),
   filename |-> DispositionParam(HeaderOfPart(lines, "Content-Disposition"), "filename"),
   type     |-> HeaderOfPart(lines, "Content-Type"),
   data     |-> data]

(* One part, from i on with its head up to blank, and where the text goes  *)
(* on behind the delimiter after it; <<>> when it is cut short.            *)
PartAt(text, delim, i, blank) ==
  LET end == Find(text, EndOfLine \o delim, blank + 2)
  IN IF blank = 0 \/ end = 0 THEN <<>>
     ELSE <<PartOfHead(LinesOf(SubSeq(text, i, blank - 1)), SubSeq(text, blank + 2, end - 1)),
            end + 2 + Len(delim)>>

(* The parts from i on, behind a delimiter: no more when it is the last    *)
(* one or the text ends, nullopt, which is <<>>, when one is cut short.    *)
RECURSIVE PartsFrom(_, _, _)

Before(part, others) == IF others = <<>> THEN <<>> ELSE <<<<part>> \o others[1]>>

WithPart(part, text, delim) ==
  IF part = <<>> THEN <<>> ELSE Before(part[1], PartsFrom(text, delim, part[2]))

PartsFrom(text, delim, i) ==
  LET here  == SubSeq(text, i, i + 1)
      start == IF here = EndOfLine THEN i + 2 ELSE i
  IN IF i + 1 > Len(text) \/ here = <<"-", "-">> THEN <<<<>>>>
     ELSE WithPart(PartAt(text, delim, start, HeadEnd(text, start)), text, delim)

(* body::multipart: parts with a file name or a type are files, the others *)
(* fields.                                                                 *)
IsFile(part) == part.filename # <<>> \/ part.type # <<>>

SortedOut(parts) ==
  LET fields == SelectSeq(parts, LAMBDA p : ~IsFile(p))
  IN [files  |-> SelectSeq(parts, IsFile),
      fields |-> MapOf(Named([i \in DOMAIN fields |-> <<fields[i].name, fields[i].data>>]))]

AllSorted(parts) == IF parts = <<>> THEN <<>> ELSE <<SortedOut(parts[1])>>

PartsBetween(delim, text) ==
  LET first == Find(text, delim, 1)
  IN IF first = 0 THEN <<>> ELSE AllSorted(PartsFrom(text, delim, first + Len(delim)))

Multipart(contentType, text) ==
  LET boundary == ExtractBoundary(contentType)
  IN IF contentType = <<>> \/ contentType[1] # "multipart/form-data" \/ boundary = <<>> THEN <<>>
     ELSE PartsBetween(<<"-", "-">> \o boundary, text)

-----------------------------------------------------------------------------
(* The Pulse handshake.                                                    *)

(* header_has_token_ *)
HasToken(header, token) ==
  \E i \in DOMAIN Pieces(header, ",") : Trim(Pieces(header, ",")[i]) = <<token>>

(* pick_subprotocol_: the first the client lists that the server wants. *)
PickSubprotocol(clientList, wanted) ==
  LET listed == SelectSeq(Pieces(clientList, ","), LAMBDA piece : \E w \in wanted : Trim(piece) = <<w>>)
  IN IF listed = <<>> THEN <<>> ELSE Trim(listed[1])

-----------------------------------------------------------------------------
(* Event streams.                                                          *)

(* append_data_lines_ *)
DataLines(data) ==
  LET lines == Pieces(data, "\n")
  IN FlattenSeq([i \in DOMAIN lines |-> <<"data", ":", " ">> \o lines[i] \o <<"\n">>])

Field(name, value) == IF value = <<>> THEN <<>> ELSE <<name, ":", " ">> \o value \o <<"\n">>

(* Session::send, which sends no event name and no id, send_event and      *)
(* comment.                                                                *)
EventText(event, data, id) == Field("id", id) \o Field("event", event) \o DataLines(data) \o <<"\n">>

CommentText(text) == <<":", " ">> \o text \o <<"\n", "\n">>
================================================================================
