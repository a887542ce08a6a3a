---------------------------- MODULE WcTranslate ----------------------------
(***************************************************************************)
(* Line ending and keyword translation of working files (libsvn_wc          *)
(* translate.c): svn_wc_copy_and_translate, a byte-driven machine with a     *)
(* newline buffer and a keyword buffer; svn_wc_translated_file, which undoes *)
(* it for comparison and commit; and the reading of svn:eol-style and        *)
(* svn:keywords.                                                             *)
(*                                                                         *)
(* A text is a sequence of one-character strings, CR and LF among them.       *)
(***************************************************************************)
EXTENDS Integers, Sequences, SequencesExt

CONSTANTS KeywordMax  \* SVN_KEYWORD_MAX_LEN (255)

LF == "n"
CR == "r"
EolStrs == {<<LF>>, <<CR>>, <<CR, LF>>}

----------------------------------------------------------------------------
(* Keywords: a sequence of [names, value] in the order translate_keyword     *)
(* tries them, each with its long and its short name; values are texts.       *)

\* translate_keyword_subst on the buffer: <<>> when the keyword does not
\* match, else <<the new buffer>>.  NoValue contracts.
NoValue == <<"none">>
KeywordSubst(buf, name, value) ==
  LET n == Len(name)
      rest == SubSeq(buf, n + 2, Len(buf))
      bare == rest # <<>> /\ rest[1] = "$"
      full == /\ Len(buf) >= 4 + n /\ rest[1] = ":" /\ rest[2] = " "
              /\ buf[Len(buf) - 1] = " "
      kept == IF Len(value) > KeywordMax - 5 THEN SubSeq(value, 1, KeywordMax - 5) ELSE value
      filled == <<"$">> \o name \o <<":", " ">> \o kept
                \o (IF value = <<>> THEN <<"$">> ELSE <<" ", "$">>)
  IN  IF Len(buf) < n + 2 \/ SubSeq(buf, 2, n + 1) # name \/ ~(bare \/ full) THEN <<>>
      ELSE IF value # NoValue THEN <<filled>>
      ELSE IF full /\ ~bare THEN <<<<"$">> \o name \o <<"$">>>>
      ELSE <<buf>>

\* translate_keyword: the first name that takes.
TranslateKeyword(buf, keywords, expand) ==
  LET tries == FlattenSeq([i \in DOMAIN keywords |->
                 [j \in DOMAIN keywords[i].names |->
                    KeywordSubst(buf, keywords[i].names[j],
                                 IF expand THEN keywords[i].value ELSE NoValue)]])
      hits == SelectSeq(tries, LAMBDA t : t # <<>>)
  IN  IF hits = <<>> THEN <<>> ELSE hits[1]

----------------------------------------------------------------------------
(* svn_wc_copy_and_translate                                               *)

\* o: the options [eol (<<>> none), repair, keywords, on (keywords given),
\* expand, junk].  st: the two buffers, the first newline seen, len (the value
\* the variable of that name was last given; it starts uninitialised, as
\* o.junk), the output and the error.
NewCopy(o) == [nl |-> <<>>, kw |-> <<>>, format |-> <<>>, len |-> o.junk, out |-> <<>>, err |-> FALSE]

Write(st, text) == [st EXCEPT !.out = @ \o text]

\* translate_newline: the first newline sets the format the others must have,
\* unless the file is being repaired.
TranslateNewline(st, o, nl) ==
  IF st.format # <<>> /\ ~o.repair /\ st.format # nl
    THEN [st EXCEPT !.err = TRUE]
    ELSE Write([st EXCEPT !.format = IF @ = <<>> THEN nl ELSE @], o.eol)

FlushNewline(st, o) ==
  IF st.nl = <<>> THEN st ELSE [TranslateNewline(st, o, st.nl) EXCEPT !.nl = <<>>]

\* case '$': a newline being collected is flushed, and the `$' that ended it
\* goes with the break.
OnDollar(st, o) ==
  LET buf == Append(st.kw, "$")
      t == TranslateKeyword(buf, o.keywords, o.expand)
  IN  IF st.nl # <<>> THEN FlushNewline(st, o)
      ELSE IF ~o.on THEN Write(st, <<"$">>)
      ELSE IF Len(buf) = 1 THEN [st EXCEPT !.kw = buf]
      ELSE IF t # <<>> THEN [Write(st, t[1]) EXCEPT !.kw = <<>>, !.len = Len(t[1])]
      ELSE [Write(st, Front(buf)) EXCEPT !.kw = <<"$">>, !.len = Len(buf)]

\* case '\n' and '\r': a keyword being collected is flushed; then the newline
\* is collected, a second one ending the first unless it is CR LF.
OnNewline(st, o, c) ==
  LET s == [Write(st, st.kw) EXCEPT !.len = Len(st.kw), !.kw = <<>>]
  IN  IF o.eol = <<>> THEN Write(s, <<c>>)
      ELSE IF s.nl = <<>> THEN [s EXCEPT !.nl = <<c>>]
      ELSE IF s.nl[1] = c \/ s.nl[1] = LF THEN [TranslateNewline(s, o, s.nl) EXCEPT !.nl = <<c>>]
      ELSE [TranslateNewline(s, o, <<CR, LF>>) EXCEPT !.nl = <<>>]

\* default: a keyword that fills its buffer is flushed, by the length last
\* stored in len; otherwise a pending newline is flushed and the byte written.
OnOther(st, o, c) ==
  LET buf == Append(st.kw, c)
  IN  IF st.kw # <<>>
        THEN IF Len(buf) < KeywordMax THEN [st EXCEPT !.kw = buf]
             ELSE [Write(st, SubSeq(buf, 1, IF st.len < Len(buf) THEN st.len ELSE Len(buf))) EXCEPT !.kw = <<>>]
        ELSE LET s == FlushNewline(st, o) IN IF s.err THEN s ELSE Write(s, <<c>>)

OnByte(st, o, c) ==
  IF st.err THEN st
  ELSE IF c = "$" THEN OnDollar(st, o)
  ELSE IF c \in {LF, CR} THEN OnNewline(st, o, c)
  ELSE OnOther(st, o, c)

\* The whole copy: at the end of the file both buffers are flushed; on an
\* error the copy is removed.
CopyAndTranslate(text, o) ==
  LET s == FoldLeft(LAMBDA st, c : OnByte(st, o, c), NewCopy(o), text)
      e == FlushNewline(s, o)
  IN  IF o.eol = <<>> /\ ~o.on THEN [err |-> FALSE, out |-> text]
      ELSE IF s.err \/ e.err THEN [err |-> TRUE, out |-> <<>>]
      ELSE [err |-> FALSE, out |-> e.out \o e.kw]

----------------------------------------------------------------------------
(* The properties and the two directions                                    *)

\* svn_wc__eol_style_from_value; Native is APR_EOL_STR of the platform.
EolStyle(value, native) ==
  CASE value = "none"   -> [style |-> "none", eol |-> <<>>]
    [] value = "native" -> [style |-> "native", eol |-> native]
    [] value = "LF"     -> [style |-> "fixed", eol |-> <<LF>>]
    [] value = "CR"     -> [style |-> "fixed", eol |-> <<CR>>]
    [] value = "CRLF"   -> [style |-> "fixed", eol |-> <<CR, LF>>]
    [] OTHER            -> [style |-> "unknown", eol |-> <<>>]

\* svn_wc__get_keywords with expand_keyword: the words of the property that
\* are keywords, each with the entry's value for it.
GetKeywords(words, known) ==
  SelectSeq(known, LAMBDA k : \E i \in DOMAIN words : words[i] = k.word)

\* The options of a copy; junk is what len holds before it is set.
Options(eol, repair, keywords, expand) ==
  [eol |-> eol, repair |-> repair, keywords |-> keywords, on |-> keywords # <<>>,
   expand |-> expand, junk |-> 0]

\* Putting a text base into place as the working file: repairing when the log
\* does it (file_xfer_under_path), not when it is restored or reverted.
Installed(text, es, keywords, repair) == CopyAndTranslate(text, Options(es.eol, repair, keywords, TRUE))

\* svn_wc_translated_file: a fixed style is repaired to itself, native goes
\* back to LF and insists on one line ending, and keywords are contracted.
TranslatedFile(text, es, keywords) ==
  IF es.style = "unknown" THEN [err |-> TRUE, out |-> <<>>]
  ELSE CopyAndTranslate(text, Options(IF es.style = "native" THEN <<LF>> ELSE es.eol,
                                      es.style = "fixed", keywords, FALSE))
----------------------------------------------------------------------------
(* Reference definitions                                                   *)

\* The lines of a text and its line endings, CR LF counting as one.
RECURSIVE Eols(_)
Eols(text) ==
  IF text = <<>> THEN {}
  ELSE IF Len(text) >= 2 /\ text[1] = CR /\ text[2] = LF
    THEN {<<CR, LF>>} \cup Eols(SubSeq(text, 3, Len(text)))
  ELSE (IF text[1] \in {CR, LF} THEN {<<text[1]>>} ELSE {}) \cup Eols(Tail(text))

RECURSIVE WithEol(_, _)
WithEol(text, eol) ==
  IF text = <<>> THEN <<>>
  ELSE IF Len(text) >= 2 /\ text[1] = CR /\ text[2] = LF
    THEN eol \o WithEol(SubSeq(text, 3, Len(text)), eol)
  ELSE (IF text[1] \in {CR, LF} THEN eol ELSE <<text[1]>>) \o WithEol(Tail(text), eol)

\* What the machine is known to damage: a `$' right after a line ending when
\* line endings are translated, and a long run after a `$' when keywords are.
DollarAfterEol(text, eol) ==
  eol # <<>> /\ \E i \in 1 .. (Len(text) - 1) : text[i] \in {CR, LF} /\ text[i + 1] = "$"
LongRun(text) ==
  \E i \in DOMAIN text : text[i] = "$" /\ i + KeywordMax - 1 <= Len(text)
                         /\ \A j \in (i + 1) .. (i + KeywordMax - 1) : text[j] \notin {CR, LF, "$"}
Spared(text, eol, keywords) ==
  ~DollarAfterEol(text, eol) /\ (keywords # <<>> => ~LongRun(text))

----------------------------------------------------------------------------
(* Samples: a text with a style and keywords, one state each.               *)

CONSTANTS WorkTexts, StyleValues, Platforms,
          Keywords, WordLists  \* the keywords with their values; values of svn:keywords

VARIABLES worktext, style, kwords, repairing

wvars == <<worktext, style, kwords, repairing>>

WInit ==
  /\ worktext \in WorkTexts /\ kwords \in {GetKeywords(w, Keywords) : w \in WordLists} /\ repairing \in BOOLEAN
  /\ style \in {EolStyle(v, p) : v \in StyleValues, p \in Platforms}

\* Text as the repository keeps it: one line ending, the style's own or LF,
\* and contracted keywords.
Normal(text) ==
  /\ style.style # "unknown"
  /\ style.style # "none" => Eols(text) \subseteq {IF style.style = "native" THEN <<LF>> ELSE style.eol}
  /\ CopyAndTranslate(text, Options(<<>>, FALSE, kwords, FALSE)).out = text

(* A file nobody has touched is not modified: translating the text base into
   the working file and that back again gives the text base, on every
   platform, for every line ending style and with keywords (the comparison of
   svn_wc_text_modified_p and the text a commit sends). *)
UntouchedUnmodified ==
  LET w == Installed(worktext, style, kwords, repairing)
  IN  Normal(worktext) /\ Spared(worktext, style.eol, kwords) =>
        /\ ~w.err
        /\ TranslatedFile(w.out, style, kwords) = [err |-> FALSE, out |-> worktext]

(* Translating line endings replaces each of them, CR LF as one, and changes
   nothing else; it is refused exactly when the endings differ and the file is
   not being repaired (translate_newline). *)
EolExact ==
  LET w == CopyAndTranslate(worktext, Options(style.eol, repairing, <<>>, TRUE))
      mixed == \E a, b \in Eols(worktext) : a # b
  IN  style.eol # <<>> /\ Spared(worktext, style.eol, <<>>) =>
        w = IF mixed /\ ~repairing THEN [err |-> TRUE, out |-> <<>>]
            ELSE [err |-> FALSE, out |-> WithEol(worktext, style.eol)]

=============================================================================
