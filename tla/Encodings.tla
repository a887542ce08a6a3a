----------------------------- MODULE Encodings -----------------------------
(***************************************************************************)
(* The encodings the program stores and sends its data in: base64 and       *)
(* quoted-printable streams (svn_base64.c, quoprint.c), the hash dump of     *)
(* property files (hashdump.c), XML and URI escaping (xml.c, path.c) and the *)
(* skels of the filesystem's tables (skel.c, key-gen.c).                     *)
(*                                                                         *)
(* Bytes are their codes.  An encoded base64 character is its index in       *)
(* base64tab; the pad and the newline are codes of their own.                *)
(***************************************************************************)
EXTENDS Integers, Sequences, FiniteSets, SequencesExt

CONSTANTS LineLen,      \* BASE64_LINELEN and QUOPRINT_LINELEN (76)
          KeyLineMax,   \* SVN_KEYLINE_MAXLEN (100)
          ImplicitMax   \* the length at which an atom gets a length (100)

ASSUME EncodingsAssumption ==
  /\ LineLen \in Nat \ {0} /\ LineLen % 4 = 0 /\ KeyLineMax \in Nat /\ ImplicitMax \in Nat

Nul == 0
Newline == 10
Equals == 61

----------------------------------------------------------------------------
(* svn_base64.c                                                            *)

Pad == 64
B64Newline == 65

\* encode_group: three bytes as four six-bit units.
EncodeGroup(g) ==
  <<g[1] \div 4, (g[1] % 4) * 16 + g[2] \div 16, (g[2] % 16) * 4 + g[3] \div 64, g[3] % 64>>

\* decode_group: the converse.
DecodeGroup(g) ==
  <<(g[1] * 4 + g[2] \div 16) % 256, ((g[2] % 16) * 16 + g[3] \div 4) % 256, (g[3] % 4) * 64 + g[4]>>

NewEncoder == [buf |-> <<>>, line |-> 0, out |-> <<>>]

\* encode_bytes: whole groups, the leftover kept for the next call.
RECURSIVE B64EncodeBytes(_, _)
B64EncodeBytes(eb, data) ==
  LET all == eb.buf \o data
      full == eb.line + 4 = LineLen
  IN  IF Len(all) < 3 THEN [eb EXCEPT !.buf = all]
      ELSE B64EncodeBytes([buf |-> <<>>, line |-> IF full THEN 0 ELSE eb.line + 4,
                           out |-> eb.out \o EncodeGroup(SubSeq(all, 1, 3))
                                          \o (IF full THEN <<B64Newline>> ELSE <<>>)],
                          SubSeq(all, 4, Len(all)))

\* encode_partial_group: the leftover padded, and a last newline.
B64EncodePartial(eb) ==
  LET n == Len(eb.buf)
      g == EncodeGroup(eb.buf \o [i \in 1 .. (3 - n) |-> 0])
      group == IF n = 0 THEN <<>> ELSE SubSeq(g, 1, n + 1) \o [i \in 1 .. (3 - n) |-> Pad]
  IN  [eb EXCEPT !.out = @ \o group \o (IF n > 0 \/ eb.line > 0 THEN <<B64Newline>> ELSE <<>>)]

NewDecoder == [buf |-> <<>>, done |-> FALSE, out |-> <<>>]

\* decode_bytes: what is not in the table is skipped, a pad ends the data.
B64DecodeByte(db, c) ==
  LET n == Len(db.buf)
  IN  IF db.done THEN db
      ELSE IF c = Pad
        THEN [db EXCEPT !.done = TRUE,
                        !.out = IF n < 2 THEN @
                                ELSE @ \o SubSeq(DecodeGroup(db.buf \o [i \in 1 .. (4 - n) |-> 0]), 1, n - 1)]
      ELSE IF c > Pad THEN db
      ELSE IF n < 3 THEN [db EXCEPT !.buf = Append(@, c)]
      ELSE [db EXCEPT !.buf = <<>>, !.out = @ \o DecodeGroup(Append(db.buf, c))]

B64DecodeBytes(db, data) == FoldLeft(B64DecodeByte, db, data)

----------------------------------------------------------------------------
(* quoprint.c                                                              *)

HexTab == <<48, 49, 50, 51, 52, 53, 54, 55, 56, 57, 65, 66, 67, 68, 69, 70>>
HexValue(c) == IF \E d \in 1 .. 16 : HexTab[d] = c
                 THEN (CHOOSE d \in 1 .. 16 : HexTab[d] = c) - 1 ELSE 16

ValidLiteral(c) == c = 9 \/ (c >= 32 /\ c <= 126 /\ c # Equals)
EncodeAsLiteral(c) == ValidLiteral(c) /\ c \notin {9, 60, 62, 39, 34, 38}

\* encode_bytes for one byte: literal or escaped, and a soft newline when the
\* next escape might not fit the line.
QPEncodeByte(eb, c) ==
  LET item == IF EncodeAsLiteral(c) THEN <<c>>
              ELSE <<Equals, HexTab[(c \div 16) + 1], HexTab[(c % 16) + 1]>>
      line == eb.line + Len(item)
      soft == line + 3 > LineLen
  IN  [eb EXCEPT !.line = IF soft THEN 0 ELSE line,
                 !.out = @ \o item \o (IF soft THEN <<Equals, Newline>> ELSE <<>>)]

QPEncodeBytes(eb, data) == FoldLeft(QPEncodeByte, eb, data)

\* finish_encoding_data: a soft newline ends an unfinished line.
QPEncodeFinish(eb) ==
  [eb EXCEPT !.out = @ \o (IF eb.line > 0 THEN <<Equals, Newline>> ELSE <<>>)]

\* decode_bytes for one byte.
QPDecodeByte(db, c) ==
  LET b == Append(db.buf, c)
      escape == Len(b) = 3 /\ HexValue(b[2]) < 16 /\ HexValue(b[3]) < 16
  IN  IF b[1] # Equals
        THEN [db EXCEPT !.buf = <<>>, !.out = IF ValidLiteral(b[1]) THEN Append(@, b[1]) ELSE @]
      ELSE IF Len(b) = 2 /\ c = Newline THEN [db EXCEPT !.buf = <<>>]
      ELSE IF Len(b) < 3 THEN [db EXCEPT !.buf = b]
      ELSE [db EXCEPT !.buf = <<>>,
                      !.out = IF escape THEN Append(@, HexValue(b[2]) * 16 + HexValue(b[3])) ELSE @]

\* decode_bytes: its loop runs to data + len inclusive, so the byte that
\* happens to follow the piece in memory (past) is taken as well.
QPDecodeBytes(db, data, past) == FoldLeft(QPDecodeByte, db, Append(data, past))

----------------------------------------------------------------------------
(* hashdump.c: a hash is a sequence of [key, val], in the hash's order.      *)

RECURSIVE Decimal(_)
Decimal(n) == IF n < 10 THEN <<48 + n>> ELSE Decimal(n \div 10) \o <<48 + (n % 10)>>

IsDigit(c) == c >= 48 /\ c <= 57

\* atoi: the leading digits.
RECURSIVE Atoi(_, _)
Atoi(s, acc) == IF s = <<>> THEN acc
                ELSE IF ~IsDigit(s[1]) THEN acc
                ELSE Atoi(Tail(s), acc * 10 + s[1] - 48)

\* svn_hash_write: "K len\nkey\nV len\nval\n" for every entry, then "END\n".
EndLine == <<69, 78, 68>>
HashWrite(hash) ==
  FoldLeft(LAMBDA f, e : f \o <<75, 32>> \o Decimal(Len(e.key)) \o <<Newline>> \o e.key \o <<Newline>>
                           \o <<86, 32>> \o Decimal(Len(e.val)) \o <<Newline>> \o e.val \o <<Newline>>,
           <<>>, hash) \o EndLine \o <<Newline>>

\* svn_io_read_length_line: a line of less than KeyLineMax bytes; "eof" when
\* the file ends first, "long" when the line does not end.
ReadLengthLine(file) ==
  LET ends == {i \in 1 .. Len(file) : file[i] = Newline}
      n == CHOOSE i \in ends : \A j \in ends : i <= j
  IN  IF ends # {} /\ n <= KeyLineMax
        THEN [err |-> "", line |-> SubSeq(file, 1, n - 1), rest |-> SubSeq(file, n + 1, Len(file))]
        ELSE [err |-> IF Len(file) < KeyLineMax THEN "eof" ELSE "long", line |-> <<>>, rest |-> <<>>]

\* apr_file_read_full of a counted datum, and the newline after it.
ReadDatum(line, rest) ==
  LET n == Atoi(SubSeq(line, 3, Len(line)), 0)
  IN  IF Len(rest) < n + 1 THEN [err |-> "eof", data |-> <<>>, rest |-> <<>>]
      ELSE IF rest[n + 1] # Newline THEN [err |-> "malformed", data |-> <<>>, rest |-> <<>>]
      ELSE [err |-> "", data |-> SubSeq(rest, 1, n), rest |-> SubSeq(rest, n + 2, Len(rest))]

Marked(line, c) == Len(line) >= 2 /\ line[1] = c /\ line[2] = 32

\* svn_hash_read: an empty file is an empty hash; anything but whole entries
\* up to END is an error, the entries read so far staying in the hash.
RECURSIVE HashRead(_, _, _)
HashRead(file, hash, first) ==
  LET k == ReadLengthLine(file)
      key == ReadDatum(k.line, k.rest)
      v == ReadLengthLine(key.rest)
      val == ReadDatum(v.line, v.rest)
      Ret(err) == [err |-> err, hash |-> hash]
  IN  IF k.err = "eof" /\ first THEN Ret("")
      ELSE IF k.err # "" THEN Ret(k.err)
      ELSE IF k.line = EndLine THEN Ret("")
      ELSE IF ~Marked(k.line, 75) THEN Ret("malformed")
      ELSE IF key.err # "" THEN Ret(key.err)
      ELSE IF v.err # "" THEN Ret(v.err)
      ELSE IF ~Marked(v.line, 86) THEN Ret("malformed")
      ELSE IF val.err # "" THEN Ret(val.err)
      ELSE HashRead(val.rest, Append(hash, [key |-> key.data, val |-> val.data]), FALSE)

----------------------------------------------------------------------------
(* xml.c and path.c: escaping                                              *)

Entities == <<[c |-> 38, as |-> <<38, 97, 109, 112, 59>>], [c |-> 60, as |-> <<38, 108, 116, 59>>],
              [c |-> 62, as |-> <<38, 103, 116, 59>>], [c |-> 34, as |-> <<38, 113, 117, 111, 116, 59>>],
              [c |-> 39, as |-> <<38, 97, 112, 111, 115, 59>>]>>

\* xml_escape
XmlEscape(text) ==
  FoldLeft(LAMBDA out, c :
             IF \E i \in DOMAIN Entities : Entities[i].c = c
               THEN out \o Entities[CHOOSE i \in DOMAIN Entities : Entities[i].c = c].as
               ELSE Append(out, c),
           <<>>, text)

\* xml_unescape: the first entity that is spelt at the ampersand; an
\* ampersand that starts none is dropped.
RECURSIVE XmlUnescape(_)
XmlUnescape(text) ==
  LET here == {i \in DOMAIN Entities : IsPrefix(Entities[i].as, text)}
      e == Entities[CHOOSE i \in here : \A j \in here : i <= j]
  IN  IF text = <<>> THEN <<>>
      ELSE IF text[1] # 38 THEN <<text[1]>> \o XmlUnescape(Tail(text))
      ELSE IF here = {} THEN XmlUnescape(Tail(text))
      ELSE <<e.c>> \o XmlUnescape(SubSeq(text, Len(e.as) + 1, Len(text)))

\* char_is_uri_safe: letters, digits and "/:.-_!~'()@=+$,&*" (and NUL, which
\* strchr finds at the end of that string).
CharIsUriSafe(c) ==
  \/ c \in 65 .. 90 \/ c \in 97 .. 122 \/ IsDigit(c)
  \/ c \in {47, 58, 46, 45, 95, 33, 126, 39, 40, 41, 64, 61, 43, 36, 44, 38, 42, Nul}

\* svn_path_uri_encode: "%%%02X" of a char, which is signed, so that a byte
\* over 127 prints eight digits of which the next append keeps two, FF.
UriEncode(path) ==
  FoldLeft(LAMBDA out, c : out \o IF CharIsUriSafe(c) THEN <<c>>
                                  ELSE IF c > 127 THEN <<37, 70, 70>>
                                  ELSE <<37, HexTab[(c \div 16) + 1], HexTab[(c % 16) + 1]>>,
           <<>>, path)

\* svn_path_uri_decode: "+" is a blank in the query part.
RECURSIVE UriDecode(_, _)
UriDecode(s, query) ==
  IF s = <<>> THEN <<>>
  ELSE IF s[1] = 63 THEN <<63>> \o UriDecode(Tail(s), TRUE)
  ELSE IF s[1] = 43 /\ query THEN <<32>> \o UriDecode(Tail(s), query)
  ELSE IF s[1] = 37 /\ Len(s) >= 3
    THEN <<HexValue(s[2]) * 16 + HexValue(s[3])>> \o UriDecode(SubSeq(s, 4, Len(s)), query)
  ELSE <<s[1]>> \o UriDecode(Tail(s), query)

----------------------------------------------------------------------------
(* skel.c: a skel is [atom |-> TRUE, data |-> bytes, kids |-> <<>>] or a list *)

Atom(bytes) == [atom |-> TRUE, data |-> bytes, kids |-> <<>>]
ListOf(kids) == [atom |-> FALSE, data |-> <<>>, kids |-> kids]

\* skel_char_type
IsSpace(c) == c \in {9, 10, 12, 13, 32}
IsParen(c) == c \in {40, 41, 91, 93}
IsName(c) == c \in 65 .. 90 \/ c \in 97 .. 122

\* use_implicit: short, starting with a name character, no space or paren.
UseImplicit_AnyStart(data) ==
  Len(data) < ImplicitMax /\ data # <<>> /\ \A i \in 1 .. Len(data) : ~IsSpace(data[i]) /\ ~IsParen(data[i])
UseImplicit(data) ==
  /\ data # <<>> /\ Len(data) < ImplicitMax
  /\ IsName(data[1])
  /\ \A i \in 2 .. Len(data) : ~IsSpace(data[i]) /\ ~IsParen(data[i])

\* unparse
RECURSIVE Unparse(_)
Unparse(s) ==
  IF s.atom
    THEN IF UseImplicit(s.data) THEN s.data ELSE Decimal(Len(s.data)) \o <<32>> \o s.data
    ELSE <<40>> \o FlattenSeq([i \in DOMAIN s.kids |->
                      Unparse(s.kids[i]) \o (IF i < Len(s.kids) THEN <<32>> ELSE <<>>)]) \o <<41>>

\* svn_fs__getsize: the digits at the start, refused above max; at is the
\* offset after them, or -1.
RECURSIVE GetSize(_, _, _, _)
GetSize(s, i, value, max) ==
  IF i < Len(s) /\ IsDigit(s[i + 1])
    THEN LET digit == s[i + 1] - 48
         IN  IF value > max \div 10 \/ (value = max \div 10 /\ digit > max % 10)
               THEN [at |-> -1, value |-> 0]
               ELSE GetSize(s, i + 1, value * 10 + digit, max)
    ELSE IF i = 0 THEN [at |-> -1, value |-> 0] ELSE [at |-> i, value |-> value]

\* A parser's result: nothing, or the skel and the offset after it.
NoSkel == [ok |-> FALSE, skel |-> Atom(<<>>), at |-> 0]

\* implicit_atom at offset i.
ImplicitAtom(s, i) ==
  LET stops == {j \in (i + 1) .. Len(s) : j = Len(s) \/ IsSpace(s[j + 1]) \/ IsParen(s[j + 1])}
      n == CHOOSE j \in stops : \A k \in stops : j <= k
  IN  [ok |-> TRUE, skel |-> Atom(SubSeq(s, i + 1, n)), at |-> n]

\* explicit_atom at offset i.
ExplicitAtom(s, i) ==
  LET g == GetSize(SubSeq(s, i + 1, Len(s)), 0, 0, Len(s) - i)
      p == i + g.at
  IN  IF g.at < 0 THEN NoSkel
      ELSE IF p >= Len(s) THEN NoSkel
      ELSE IF ~IsSpace(s[p + 1]) \/ p + 1 + g.value > Len(s) THEN NoSkel
      ELSE [ok |-> TRUE, skel |-> Atom(SubSeq(s, p + 2, p + 1 + g.value)), at |-> p + 1 + g.value]

\* parse and list: a list is the elements up to its closing paren.
RECURSIVE ParseSkel(_, _), ParseKids(_, _, _)
ParseSkel(s, i) ==
  IF i >= Len(s) THEN NoSkel
  ELSE IF s[i + 1] = 40 THEN ParseKids(s, i + 1, <<>>)
  ELSE IF IsName(s[i + 1]) THEN ImplicitAtom(s, i)
  ELSE ExplicitAtom(s, i)
ParseKids(s, i, kids) ==
  LET e == ParseSkel(s, i)
  IN  IF i >= Len(s) THEN NoSkel
      ELSE IF IsSpace(s[i + 1]) THEN ParseKids(s, i + 1, kids)
      ELSE IF s[i + 1] = 41 THEN [ok |-> TRUE, skel |-> ListOf(kids), at |-> i + 1]
      ELSE IF ~e.ok THEN NoSkel
      ELSE ParseKids(s, e.at, Append(kids, e.skel))

----------------------------------------------------------------------------
(* A text written through an encoding stream in pieces, its encoding         *)
(* delivered in pieces to the decoding stream at the other end.              *)

CONSTANTS Samples,  \* the byte strings written
          Stored    \* what is stored whole: [hash, skel, text]

VARIABLES
  codec,    \* "base64" or "quoprint"
  left,     \* bytes not yet written to the encoding stream
  encoder,  \* the encode baton; its out is what is still on the way
  decoder,  \* the decode baton
  shut,     \* the encoding stream has been closed
  plain,    \* the text
  record    \* a sample of what is stored whole

evars == <<codec, left, encoder, decoder, shut, plain, record>>

EInit ==
  /\ codec \in {"base64", "quoprint"} /\ plain \in Samples /\ left = plain
  /\ encoder = NewEncoder /\ decoder = NewDecoder /\ shut = FALSE
  /\ record \in Stored

\* encode_data: the write handler of the encoding stream.
EncodeData(n) ==
  /\ n <= Len(left) /\ left' = SubSeq(left, n + 1, Len(left))
  /\ encoder' = IF codec = "base64" THEN B64EncodeBytes(encoder, SubSeq(left, 1, n))
                                    ELSE QPEncodeBytes(encoder, SubSeq(left, 1, n))
  /\ UNCHANGED <<codec, decoder, shut, plain, record>>

\* finish_encoding_data: its close handler.
FinishEncoding ==
  /\ left = <<>> /\ ~shut /\ shut' = TRUE
  /\ encoder' = IF codec = "base64" THEN B64EncodePartial(encoder) ELSE QPEncodeFinish(encoder)
  /\ UNCHANGED <<codec, left, decoder, plain, record>>

\* decode_data: base64 takes any piece.  Quoted-printable is given the whole
\* text as a string, whose terminating NUL is the byte past its end
\* (svn_quoprint_decode_string).
DecodeData(n) ==
  /\ n <= Len(encoder.out)
  /\ LET piece == SubSeq(encoder.out, 1, n)
     IN  IF codec = "base64" THEN decoder' = B64DecodeBytes(decoder, piece)
         ELSE /\ shut /\ n = Len(encoder.out)
              /\ decoder' = QPDecodeBytes(decoder, piece, Nul)
  /\ encoder' = [encoder EXCEPT !.out = SubSeq(@, n + 1, Len(@))]
  /\ UNCHANGED <<codec, left, shut, plain, record>>

ENext ==
  \/ \E n \in 1 .. Len(left) : EncodeData(n)
  \/ FinishEncoding
  \/ \E n \in 1 .. Len(encoder.out) : DecodeData(n)

\* The line that is being written, and what of the text has come through.
LastLine(out) ==
  LET nl == IF codec = "base64" THEN B64Newline ELSE Newline
      ends == {i \in 1 .. Len(out) : out[i] = nl}
  IN  IF ends = {} THEN out
      ELSE SubSeq(out, (CHOOSE i \in ends : \A j \in ends : j <= i) + 1, Len(out))

(* However the text is cut into pieces on either side, what has been decoded
   is a beginning of it, all of it at the end, and no line is longer than the
   limit (encode_bytes, decode_bytes of both encodings). *)
StreamExact ==
  /\ IsPrefix(decoder.out, plain)
  /\ shut /\ encoder.out = <<>> => decoder.out = plain
  /\ Len(LastLine(encoder.out)) <= LineLen

Cuts(s) == {SubSeq(s, 1, n) : n \in 0 .. Len(s) - 1}

(* What is stored whole comes back: a property hash and a skel are read as
   they were written, whatever bytes their keys, values and atoms hold, and
   one cut short by a failed write is refused (a hash file only when its first
   line is whole, since svn_hash_read takes an end of file before that for an
   empty file); XML and URI escaping leave no character unescaped that would
   end the value, and undo each other (for URIs of seven-bit bytes). *)
StoredExact ==
  LET file == HashWrite(record.hash)
      skel == Unparse(record.skel)
      text == record.text
  IN  /\ HashRead(file, <<>>, TRUE) = [err |-> "", hash |-> record.hash]
      /\ \A f \in Cuts(file) : LET r == HashRead(f, <<>>, TRUE)
                               IN  IF Newline \in Range(f) THEN r.err # "" ELSE r.hash = <<>>
      /\ ParseSkel(skel, 0) = [ok |-> TRUE, skel |-> record.skel, at |-> Len(skel)]
      /\ ~record.skel.atom => \A f \in Cuts(skel) : ~ParseSkel(f, 0).ok
      /\ Range(XmlEscape(text)) \cap {34, 39, 60, 62} = {} /\ XmlUnescape(XmlEscape(text)) = text
      /\ \A c \in Range(UriEncode(text)) : c = 37 \/ CharIsUriSafe(c)
      /\ Range(text) \subseteq 1 .. 127 => UriDecode(UriEncode(text), FALSE) = text
=============================================================================
