------------------------------ MODULE StaticFiles ------------------------------
(***************************************************************************)
(* static_files::serve: what it makes of a response, and whether it calls  *)
(* next().  The disk is looked at twice, for size and time and again when  *)
(* send_file_range tries the file, and may have changed in between: `seen' *)
(* and `probed' are the two looks, each a tree of entries by path.  A      *)
(* third look is handle_request_'s (Exchange), which opens it to be sent.  *)
(*                                                                         *)
(* A URL path is a sequence of words and slashes, where words that touch   *)
(* are one name: <<"/", "a", "/", "b", "c">> has the names a and bc.  A    *)
(* file's entry has its size, time and version (what its bytes are), of    *)
(* which the middleware sees size and time.                                *)
(***************************************************************************)
EXTENDS Response, Formats

(* split_path_, split_view: the names between the slashes. *)
Split(path) == SplitView(path, "/")

Missing == [kind |-> "none", size |-> -1, time |-> 0, version |-> 0]

EntryAt(disk, path) == IF path \in DOMAIN disk THEN disk[path] ELSE Missing

(* contains_dot_segment *)
Forbidden(o, path) ==
  \E i \in DOMAIN path : path[i] \in {<<".">>, <<"..">>} \/ (path[i][1] = "." /\ ~o.allowHidden)

(* safe_join: dot segments are refused, and so is what resolves to a place *)
(* outside the root.                                                       *)
SafeJoin(o, disk, path) ==
  ~Forbidden(o, path) /\ EntryAt(disk, path).kind # "outside"

(* weak_etag *)
ETag(entry) == <<entry.size, entry.time>>

(* parse_single_range: a pair of bounds, either of which may be absent     *)
(* (-1); a header of any other shape is <<>>.  What it returns is empty    *)
(* when the range cannot be satisfied.                                     *)
RangeOffByOne(range, size) ==
  IF range = <<>> \/ range[1] >= size THEN <<>>
  ELSE IF range[1] = -1 THEN <<size - range[2], size>>
  ELSE <<range[1], IF range[2] = -1 \/ range[2] >= size THEN size ELSE range[2]>>

ParseRange(range, size) ==
  IF range = <<>> \/ range = <<-1, -1>> THEN <<>>
  ELSE LET a == range[1]
           b == range[2]
           last == IF size = 0 THEN 0 ELSE size - 1
       IN CASE a = -1 /\ b = 0                -> <<>>
            [] a = -1 /\ b > 0                -> IF b >= size THEN <<0, last>> ELSE <<size - b, last>>
            [] a >= 0 /\ (a >= size \/ (b # -1 /\ b < a)) -> <<>>
            [] OTHER                          -> <<a, IF b = -1 \/ b >= size THEN last ELSE b>>

-----------------------------------------------------------------------------
(* The index file a directory is answered with, or the directory itself.   *)
IndexOf(o, disk, path) ==
  LET found == SelectInSeq(o.indexNames, LAMBDA name :
                 EntryAt(disk, Append(path, name)).kind = "file")
  IN IF o.autoIndex /\ found # 0 THEN Append(path, o.indexNames[found]) ELSE path

Miss(o, res) ==
  IF o.fallthrough THEN [res |-> res, next |-> TRUE]
  ELSE [res |-> Send(SetStatus(res, 404), <<"not found">>), next |-> FALSE]

Ends(res) == [res |-> res, next |-> FALSE]

WithCaching(o, res) == IF o.maxAge > 0 THEN SetHeader(res, "Cache-Control", o.maxAge) ELSE res

WithValidators(o, entry, res) ==
  LET typed == WithCaching(o, SetHeader(res, "Content-Type", "file"))
      dated == IF o.lastModified THEN SetHeader(typed, "Last-Modified", entry.time) ELSE typed
  IN IF o.etag THEN SetHeader(dated, "ETag", ETag(entry)) ELSE dated

(* Either validator is enough for a 304: If-Modified-Since is looked at    *)
(* even when there is an If-None-Match that does not match.                *)
NotModified(o, req, entry) ==
  \/ o.etag /\ req.noneMatch = ETag(entry)
  \/ o.lastModified /\ req.since >= entry.time

ServeFile(o, req, res, path, entry, probed) ==
  LET head  == WithValidators(o, entry, res)
      bytes == SetHeader(head, "Accept-Ranges", "bytes")
      range == ParseRange(req.range, entry.size)
      asked == req.hasRange
      bounds == IF asked THEN range ELSE <<0, IF entry.size = 0 THEN 0 ELSE entry.size - 1>>
      part  == SetHeader(SetStatus(bytes, 206), "Content-Range", bounds \o <<entry.size>>)
  IN IF NotModified(o, req, entry) THEN Ends(End(SetStatus(head, 304)))
     ELSE IF asked /\ range = <<>>
          THEN Ends(End(SetHeader(SetStatus(bytes, 416), "Content-Range", <<"*", entry.size>>)))
     ELSE LET length == IF entry.size = 0 THEN 0 ELSE bounds[2] - bounds[1] + 1
              sent   == SendFileRange(IF asked THEN part ELSE bytes, path, probed.size, bounds[1], length)
          IN IF sent.ended THEN Ends(sent)
             ELSE IF o.fallthrough THEN [res |-> sent, next |-> TRUE]
             ELSE Ends(Send(SetStatus(sent, 500), <<"failed">>))

StaticMiddleware(o, req, res, seen, probed) ==
  LET asked  == Split(SubSeq(req.path, Len(o.mount) + 1, Len(req.path)))
      path   == IndexOf(o, seen, asked)
      entry  == EntryAt(seen, path)
      listed == Send(SetContentType(WithCaching(o, res), "html"), <<"listing">>)
  IN CASE req.method \notin {"GET", "HEAD"} ->
            IF o.fallthrough THEN [res |-> res, next |-> TRUE]
            ELSE Ends(Send(SetHeader(SetStatus(res, 405), "Allow", {"GET", "HEAD"}), <<"not allowed">>))
       [] req.method \in {"GET", "HEAD"} /\ ~IsPrefix(o.mount, req.path) -> [res |-> res, next |-> TRUE]
       [] OTHER ->
            IF ~SafeJoin(o, seen, asked) \/ entry.kind = "none" THEN Miss(o, res)
            ELSE IF entry.kind = "dir"
                 THEN IF o.listing THEN Ends(listed) ELSE Miss(o, res)
            ELSE ServeFile(o, req, res, path, entry, EntryAt(probed, path))
=============================================================================
