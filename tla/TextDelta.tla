----------------------------- MODULE TextDelta -----------------------------
(***************************************************************************)
(* Text deltas (libsvn_delta): the window generator svn_txdelta_next_window *)
(* over the vdelta algorithm, the svndiff encoder, the svndiff parser that  *)
(* is fed the bytes in whatever pieces they arrive, and svn_txdelta_apply.   *)
(*                                                                         *)
(* The sizes the code fixes are constants here, so that a small instance    *)
(* crosses every boundary: Chunk is SVN_STREAM_CHUNK_SIZE, KeySize is        *)
(* VD_KEY_SIZE (4), IntBase is the 128 of a seven-bit integer byte and       *)
(* LenBase the 64 of the length bits of an instruction.                      *)
(*                                                                         *)
(* Offsets count from 0 as in the code; text[i + 1] is the byte at offset i. *)
(***************************************************************************)
EXTENDS Integers, Sequences, SequencesExt

CONSTANTS Chunk, KeySize, IntBase, LenBase, Texts

ASSUME SizesAssumption ==
  /\ Chunk \in Nat \ {0, 1} /\ Chunk % 2 = 0
  /\ KeySize \in Nat \ {0, 1}
  /\ IntBase \in Nat \ {0, 1} /\ LenBase \in Nat \ {0, 1}

Least(a, b) == IF a <= b THEN a ELSE b

\* The bytes [from, to) of a text.
Piece(text, from, to) == SubSeq(text, from + 1, to)

----------------------------------------------------------------------------
(* vdelta.c                                                                *)

\* The hash table: the positions stored so far, youngest first.  A bucket is
\* walked youngest first, and the test of every candidate's match length
\* makes the positions that only share a bucket harmless, so the table is
\* kept as the sequence of positions and their keys.
EmptyTable == <<>>

StoreMapping(table, pos) == <<pos>> \o table

\* find_match_len: how far the text at `match' agrees with the text at `here'.
FindMatchLen(data, match, here, end) ==
  CHOOSE n \in 0 .. (end - here) :
    /\ \A i \in 0 .. (n - 1) : data[match + i + 1] = data[here + i + 1]
    /\ n < end - here => data[match + n + 1] # data[here + n + 1]

\* A candidate's match, cut where it would cross the start of the target.
CutAtStart(match, len, start) ==
  IF match < start /\ match + len > start THEN start - match ELSE len

\* One walk over a bucket: the longest match of at least KeySize bytes that
\* beats the current one; `back' is how far the key lies after `here'.
WalkBucket(data, start, here, end, table, key, cur) ==
  FoldLeft(LAMBDA best, pos :
             IF pos < key - here \/ Piece(data, pos, pos + KeySize) # Piece(data, key, key + KeySize)
               THEN best
               ELSE LET match == pos - (key - here)
                        len   == CutAtStart(match, FindMatchLen(data, match, here, end), start)
                    IN  IF len >= KeySize /\ len > best.len
                          THEN [match |-> match, len |-> len] ELSE best,
           cur, table)

\* The search of the vdelta loop: the key moves to the last KeySize - 1 bytes
\* of the match and one more for as long as some candidate makes progress.
RECURSIVE LongestMatch(_, _, _, _, _, _, _)
LongestMatch(data, start, here, end, table, key, cur) ==
  LET next == WalkBucket(data, start, here, end, table, key, cur)
      key2 == here + next.len - (KeySize - 1)
  IN  IF next = cur \/ end - key2 < KeySize THEN next
      ELSE LongestMatch(data, start, here, end, table, key2, next)

NewOp(bob, bytes) ==
  [ops |-> Append(bob.ops, [code |-> "new", off |-> Len(bob.new), len |-> Len(bytes)]),
   new |-> bob.new \o bytes]

CopyOp(bob, code, off, len) ==
  [bob EXCEPT !.ops = Append(@, [code |-> code, off |-> off, len |-> len])]

\* A match found at st.here: the pending insert is flushed and the copy put
\* out, from the source or the target; its last KeySize - 1 bytes are indexed.
TakeMatch(data, start, end, output, st, best) ==
  LET flushed == IF st.ins >= 0 THEN NewOp(st.bob, Piece(data, st.ins, st.here)) ELSE st.bob
      source == best.match < start
      after == st.here + best.len
  IN  [bob   |-> IF output THEN CopyOp(flushed, IF source THEN "source" ELSE "target",
                                       IF source THEN best.match ELSE best.match - start, best.len)
                 ELSE st.bob,
       ins   |-> IF output THEN -1 ELSE st.ins,
       here  |-> after,
       table |-> IF end - after >= KeySize
                   THEN FoldLeft(StoreMapping, st.table, [i \in 1 .. (KeySize - 1) |-> after - KeySize + i])
                   ELSE st.table]

\* The main generator over [start, end) of the buffer.  st holds the builder's
\* ops, the hash table, the position and the start of the pending insert.
InsertFrom(st) == IF st.ins >= 0 THEN st.ins ELSE st.here
VDeltaStep(data, start, end, output, st, best) ==
  IF best.len < KeySize
    THEN [st EXCEPT !.table = StoreMapping(@, st.here), !.ins = InsertFrom(st), !.here = @ + 1]
    ELSE TakeMatch(data, start, end, output, st, best)

RECURSIVE VDelta(_, _, _, _, _)
VDelta(data, start, end, output, st) ==
  IF end - st.here < KeySize
    THEN [st EXCEPT !.bob = IF output /\ InsertFrom(st) < end
                              THEN NewOp(@, Piece(data, InsertFrom(st), end)) ELSE @]
    ELSE VDelta(data, start, end, output,
                VDeltaStep(data, start, end, output, st,
                           LongestMatch(data, start, st.here, end, st.table, st.here, [match |-> -1, len |-> 0])))

\* svn_txdelta__vdelta: index the source, then generate over the target.
VDeltaOps(src, tgt) ==
  LET data == src \o tgt
      none == [ops |-> <<>>, new |-> <<>>]
      s == VDelta(data, 0, Len(src), FALSE,
                  [bob |-> none, table |-> EmptyTable, here |-> 0, ins |-> -1])
  IN  VDelta(data, Len(src), Len(data), TRUE,
             [bob |-> none, table |-> s.table, here |-> Len(src), ins |-> -1]).bob

----------------------------------------------------------------------------
(* text_delta.c: the window generator                                      *)

\* svn_txdelta: a stream over two texts.  The saved bytes are the tail of the
\* source kept for the next window's view.
NewStream == [more |-> TRUE, pos |-> 0, saved |-> <<>>, tpos |-> 0]

\* svn_txdelta__make_window
MakeWindow(soff, slen, tlen, bob) ==
  [soff |-> soff, slen |-> slen, tlen |-> tlen, ops |-> bob.ops, new |-> bob.new]

\* svn_txdelta_next_window: read the next source chunk (half as much again
\* when nothing is saved), the next target chunk, and delta them.  No window
\* is left when the target is exhausted.
NextWindow(stream, src, tgt) ==
  LET want  == Chunk + (IF stream.saved = <<>> THEN Chunk \div 2 ELSE 0)
      fresh == Piece(src, stream.pos, Least(stream.pos + want, Len(src)))
      view  == stream.saved \o fresh
      tview == Piece(tgt, stream.tpos, Least(stream.tpos + Chunk, Len(tgt)))
      pos2  == stream.pos + Len(fresh)
  IN  IF tview = <<>>
        THEN [stream |-> [stream EXCEPT !.more = FALSE, !.pos = pos2], windows |-> <<>>]
        ELSE [stream |-> [more |-> TRUE, pos |-> pos2, tpos |-> stream.tpos + Len(tview),
                          saved |-> Piece(view, Len(view) - Least(Len(view), Chunk), Len(view))],
              windows |-> <<MakeWindow(pos2 - Len(view), Len(view), Len(tview), VDeltaOps(view, tview))>>]

\* svn_txdelta_send_string: one window holding the whole text as new data.
StringWindow(text) ==
  [soff |-> 0, slen |-> 0, tlen |-> Len(text), new |-> text,
   ops |-> <<[code |-> "new", off |-> 0, len |-> Len(text)]>>]

----------------------------------------------------------------------------
(* svndiff.c: the encoder                                                  *)

Magic == <<83, 86, 78, 0>>

\* encode_int: the base-IntBase digits, high-order first, every byte but the
\* last carrying the continuation bit (+ IntBase).
RECURSIVE HighDigits(_)
HighDigits(v) == IF v = 0 THEN <<>> ELSE HighDigits(v \div IntBase) \o <<IntBase + (v % IntBase)>>
EncodeInt(v) == HighDigits(v \div IntBase) \o <<v % IntBase>>

Selector == [source |-> 0, target |-> 1, new |-> 2]

\* An instruction: selector and short length in one byte, or a length of its
\* own; then the offset unless the data is new.
EncodeOp_ShortMax(op) ==
  <<Selector[op.code] * LenBase + (IF op.len <= LenBase THEN op.len % LenBase ELSE 0)>>
  \o (IF op.len <= LenBase THEN <<>> ELSE EncodeInt(op.len))
  \o (IF op.code = "new" THEN <<>> ELSE EncodeInt(op.off))
EncodeOp(op) ==
  <<Selector[op.code] * LenBase + (IF op.len < LenBase THEN op.len ELSE 0)>>
  \o (IF op.len < LenBase THEN <<>> ELSE EncodeInt(op.len))
  \o (IF op.code = "new" THEN <<>> ELSE EncodeInt(op.off))

\* window_handler: the five header integers, the instructions, the new data.
EncodeWindow(w) ==
  LET ints(ins) == FlattenSeq([i \in 1 .. 5 |->
                     EncodeInt(<<w.soff, w.slen, w.tlen, Len(ins), Len(w.new)>>[i])])
      body(ins) == ints(ins) \o ins \o w.new
  IN  body(FlattenSeq([i \in DOMAIN w.ops |-> EncodeOp(w.ops[i])]))

----------------------------------------------------------------------------
(* svndiff.c: the parser                                                   *)

\* decode_int from offset p: the value and the offset after it, or a short
\* read (at = -1).
RECURSIVE DecodeFrom(_, _, _, _)
DecodeFrom(b, p, end, val) ==
  IF p >= end THEN [at |-> -1, val |-> 0]
  ELSE LET v == val * IntBase + (b[p + 1] % IntBase)
       IN  IF b[p + 1] < IntBase THEN [at |-> p + 1, val |-> v] ELSE DecodeFrom(b, p + 1, end, v)
DecodeInt(b, p, end) == IF p < 0 THEN [at |-> -1, val |-> 0] ELSE DecodeFrom(b, p, end, 0)

\* decode_instruction: a length of 0 in the selector byte says that the
\* length follows.
DecodeOp(b, p, end) ==
  LET code  == b[p + 1] \div LenBase
      short == b[p + 1] % LenBase
      l     == IF short = 0 THEN DecodeInt(b, p + 1, end) ELSE [at |-> p + 1, val |-> short]
      o     == IF code = 2 THEN [at |-> l.at, val |-> 0] ELSE DecodeInt(b, l.at, end)
  IN  IF p >= end \/ code > 2 \/ l.at < 0 \/ o.at < 0 THEN [at |-> -1, op |-> <<>>]
      ELSE [at |-> o.at,
            op |-> [code |-> <<"source", "target", "new">>[code + 1], off |-> o.val, len |-> l.val]]

\* count_and_verify_instructions together with the second pass that builds
\* the ops: new data is numbered as it is met.  Nothing when an
\* instruction does not fit its views or the totals disagree, else <<ops>>.
RECURSIVE DecodeOps(_, _, _, _, _)
DecodeOps(b, p, end, w, acc) ==
  IF p >= end
    THEN IF acc.tpos = w.tlen /\ acc.npos = w.nlen THEN <<acc.ops>> ELSE <<>>
    ELSE LET d == DecodeOp(b, p, end)
             fits == /\ d.at >= 0
                     /\ d.op.len <= w.tlen - acc.tpos
                     /\ \/ d.op.code = "source" /\ d.op.len <= w.slen - d.op.off
                        \/ d.op.code = "target" /\ d.op.off < acc.tpos
                        \/ d.op.code = "new" /\ d.op.len <= w.nlen - acc.npos
             isNew == d.op.code = "new"
         IN  IF ~fits THEN <<>>
             ELSE DecodeOps(b, d.at, end, w,
                    [tpos |-> acc.tpos + d.op.len,
                     npos |-> acc.npos + (IF isNew THEN d.op.len ELSE 0),
                     ops  |-> Append(acc.ops, IF isNew THEN [d.op EXCEPT !.off = acc.npos] ELSE d.op)])

\* svn_txdelta_parse_svndiff: header bytes seen, buffered data, last view.
NewParser == [head |-> 0, buf |-> <<>>, soff |-> 0, slen |-> 0, err |-> FALSE]

\* One turn of write_handler's loop over the buffer: no window when it is not
\* complete yet or (err) corrupt, else the window and what is left of the
\* buffer.
\* h: the five header integers and where they end; instructions and new data
\* follow.
WindowWith(b, h, ops) ==
  [soff |-> h.vals[1], slen |-> h.vals[2], tlen |-> h.vals[3], ops |-> ops,
   new |-> Piece(b, h.at + h.vals[4], h.at + h.vals[4] + h.vals[5])]

WindowOps(b, h) ==
  DecodeOps(b, h.at, h.at + h.vals[4], [slen |-> h.vals[2], tlen |-> h.vals[3], nlen |-> h.vals[5]],
            [tpos |-> 0, npos |-> 0, ops |-> <<>>])

Parsed(db, h, ops) ==
  IF ops = <<>> THEN [windows |-> <<>>, db |-> [db EXCEPT !.err = TRUE]]
  ELSE [windows |-> <<WindowWith(db.buf, h, ops[1])>>,
        db |-> [db EXCEPT !.buf = Piece(@, h.at + h.vals[4] + h.vals[5], Len(@)),
                          !.soff = h.vals[1], !.slen = h.vals[2]]]

ParseBody(db, h) ==
  IF h.at < 0 THEN [windows |-> <<>>, db |-> db]
  ELSE IF h.vals[1] < db.soff \/ h.vals[1] + h.vals[2] < db.soff + db.slen
    THEN [windows |-> <<>>, db |-> [db EXCEPT !.err = TRUE]]
  ELSE IF Len(db.buf) - h.at < h.vals[4] + h.vals[5] THEN [windows |-> <<>>, db |-> db]
  ELSE Parsed(db, h, WindowOps(db.buf, h))

RECURSIVE DecodeInts(_, _, _)
DecodeInts(b, h, n) ==
  IF n = 0 \/ h.at < 0 THEN h
  ELSE LET d == DecodeInt(b, h.at, Len(b))
       IN  DecodeInts(b, [at |-> d.at, vals |-> Append(h.vals, d.val)], n - 1)

ParseWindow(db) == ParseBody(db, DecodeInts(db.buf, [at |-> 0, vals |-> <<>>], 5))

----------------------------------------------------------------------------
(* text_delta.c: applying windows                                          *)

\* apply_instructions: a target copy may overlap the place it writes to, so
\* it is made byte by byte.  (Code: the asserts are the parser's checks.)
ApplyOp(w, sbuf, tbuf, op) ==
  CASE op.code = "source" -> tbuf \o Piece(sbuf, op.off, op.off + op.len)
    [] op.code = "new"    -> tbuf \o Piece(w.new, op.off, op.off + op.len)
    [] op.code = "target" -> FoldLeft(LAMBDA t, i : Append(t, t[op.off + i]), tbuf,
                                      [i \in 1 .. op.len |-> i])

ApplyInstructions(w, sbuf) ==
  FoldLeft(LAMBDA t, op : ApplyOp(w, sbuf, t, op), <<>>, w.ops)

\* svn_txdelta_apply: the buffered source view, how much of the source stream
\* has been read, and the target written.
NewApply == [sbuf |-> <<>>, soff |-> 0, spos |-> 0, out |-> <<>>, err |-> FALSE]

\* apply_window: keep the overlap of the old view, read the rest of the new
\* one from the source stream, apply.  "err" when the source ends too soon.
ApplyWindow(ab, w, src) ==
  LET kept  == Piece(ab.sbuf, Least(w.soff - ab.soff, Len(ab.sbuf)), Len(ab.sbuf))
      fresh == Piece(src, ab.spos, Least(Len(src), ab.spos + (w.slen - Least(w.slen, Len(kept)))))
      view  == kept \o fresh
  IN  IF Len(view) < w.slen THEN [ab EXCEPT !.err = TRUE]
      ELSE [ab EXCEPT !.sbuf = view, !.soff = w.soff, !.spos = @ + Len(fresh),
                      !.out = @ \o ApplyInstructions(w, view)]

\* write_handler: skip what is left of the magic, buffer the rest, and hand
\* every complete window to apply_window.
RECURSIVE Drain(_, _, _)
Drain(t, ab, src) ==
  IF t.windows = <<>> \/ ab.err THEN [db |-> t.db, ab |-> ab]
  ELSE Drain(ParseWindow(t.db), ApplyWindow(ab, t.windows[1], src), src)

WriteHandler(db, ab, bytes, src) ==
  LET n == Least(4 - db.head, Len(bytes))
      magic == SubSeq(bytes, 1, n) = SubSeq(Magic, db.head + 1, db.head + n)
  IN  IF ~magic THEN [db |-> [db EXCEPT !.err = TRUE], ab |-> ab]
      ELSE Drain(ParseWindow([db EXCEPT !.head = @ + n, !.buf = @ \o Piece(bytes, n, Len(bytes))]), ab, src)

\* close_handler with error_on_early_close: an error unless the magic was
\* seen and nothing is left in the buffer.
ClosesEarly(db) == db.head < 4 \/ db.buf # <<>>

----------------------------------------------------------------------------
(* The pipeline: sender, wire, receiver.                                    *)

VARIABLES
  source, target,  \* the two texts
  stream,          \* the sender's delta stream, or "string" for send_string
  headed,          \* the header has been written (eb->header_done)
  wire,            \* bytes written and not yet delivered
  parser, apply,   \* the receiver's decode baton and apply baton
  end              \* "open", "closed" or "error": what the receiver's close returned

dvars == <<source, target, stream, headed, wire, parser, apply, end>>

DInit ==
  /\ source \in Texts /\ target \in Texts
  /\ stream \in {NewStream, [NewStream EXCEPT !.pos = -1]}
  /\ headed = FALSE /\ wire = <<>>
  /\ parser = NewParser /\ apply = NewApply /\ end = "open"

ByString == stream.pos = -1

\* svn_txdelta_send_txstream's loop body: one window pulled and encoded; the
\* final NULL window only writes the header when nothing was sent.
SendWindow ==
  /\ stream.more /\ ~ByString /\ end = "open"
  /\ \E r \in {NextWindow(stream, source, target)} :
         /\ stream' = r.stream
         /\ wire' = wire \o (IF headed THEN <<>> ELSE Magic)
                         \o FlattenSeq([i \in DOMAIN r.windows |-> EncodeWindow(r.windows[i])])
  /\ headed' = TRUE
  /\ UNCHANGED <<source, target, parser, apply, end>>

SendString ==
  /\ stream.more /\ ByString /\ end = "open"
  /\ stream' = [stream EXCEPT !.more = FALSE]
  /\ wire' = Magic \o EncodeWindow(StringWindow(target))
  /\ headed' = TRUE
  /\ UNCHANGED <<source, target, parser, apply, end>>

\* The receiver is handed the next n bytes, however the layers between cut
\* them.
Deliver(n) ==
  /\ end = "open" /\ n <= Len(wire)
  /\ \E r \in {WriteHandler(parser, apply, SubSeq(wire, 1, n), source)} :
         /\ parser' = r.db /\ apply' = r.ab
         /\ end' = IF r.db.err \/ r.ab.err THEN "error" ELSE "open"
  /\ wire' = SubSeq(wire, n + 1, Len(wire))
  /\ UNCHANGED <<source, target, stream, headed>>

\* The receiver's stream is closed: at the end of the data, or early, when
\* the connection breaks and the rest of the bytes is lost.
Close ==
  /\ end = "open"
  /\ end' = IF ClosesEarly(parser) THEN "error" ELSE "closed"
  /\ UNCHANGED <<source, target, stream, headed, wire, parser, apply>>

DNext == SendWindow \/ SendString \/ (\E n \in 1 .. Len(wire) : Deliver(n)) \/ Close

----------------------------------------------------------------------------
Sent == ~stream.more /\ wire = <<>>

\* Source views only move forward and never past the source, so that the
\* receiver's one pass over its base text is enough (svn_txdelta_next_window).
ViewsForward == apply.spos <= Len(source) /\ apply.soff + Len(apply.sbuf) = apply.spos /\ ~apply.err

(* However the bytes are cut up on the way, the receiver's text is at every
   moment a beginning of the sender's, made of whole windows; it is the whole
   text once everything has been delivered, and then nothing has failed; the
   source views it is given only move forward
   (write_handler, apply_window).  The exception is an empty string sent by
   svn_txdelta_send_string: its one instruction has length 0, which the
   encoder writes as a short length and the parser reads as "a length
   follows", so the receiver refuses it. *)
DeltaExact ==
  /\ IsPrefix(apply.out, target) /\ ViewsForward
  /\ Sent => apply.out = target
  /\ Sent /\ end = "error" => ByString /\ target = <<>>

(* A delta that stops in the middle of a window is refused when it is closed,
   and one that is accepted before its end stops exactly at a boundary between
   windows: Chunk bytes each, or the one window of a string (close_handler). *)
CutsSeen ==
  end = "closed" /\ apply.out # target =>
    /\ parser.buf = <<>>
    /\ IF ByString THEN apply.out = <<>> ELSE Len(apply.out) % Chunk = 0
=============================================================================
