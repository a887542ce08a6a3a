------------------------------ MODULE XmlDelta ------------------------------
(***************************************************************************)
(* Tree deltas as editor calls and as XML (libsvn_delta): a driver in the   *)
(* old style (names and batons) goes through svn_delta_compat_wrap and an    *)
(* editor composed by svn_delta_wrap_editor into the XML editor              *)
(* (xml_output.c); the elements it writes are read by the XML parser         *)
(* (xml_parse.c), which drives a piped editor (pipe_editors.c) in turn.      *)
(* This is what "commit --xml-file" followed by "update --xml-file" does.    *)
(*                                                                         *)
(* A path is the sequence of its names and stands for the baton of the node. *)
(* A call is a record [op, path, rev, copy, val]; an element is a start, an   *)
(* end or the data of a start tag with its attributes.                        *)
(***************************************************************************)
EXTENDS Integers, Sequences, FiniteSets, SequencesExt, TLC

CONSTANTS FileNames, DirNames,  \* what the driver's directory entries are called
          Vals,                 \* property values: "none" deletes, "empty" is ""
          MaxCalls,             \* bound on the calls of an edit
          MaxProps, MaxDepth,   \* bounds on its property changes and depth
          MaxFailing            \* bound: the calls that may fail are the first ones

NoRev == -1
Call(op, path, rev, copy, val) == [op |-> op, path |-> path, rev |-> rev, copy |-> copy, val |-> val]

Name(path) == IF path = <<>> THEN "" ELSE Last(path)

----------------------------------------------------------------------------
(* xml_output.c                                                            *)

NoAtts == [name |-> "", base |-> NoRev, copy |-> <<>>, copyrev |-> NoRev, id |-> 0, target |-> NoRev]
StartTag(tag, atts) == [kind |-> "start", tag |-> tag, atts |-> atts, data |-> ""]
EndTag(tag) == [kind |-> "end", tag |-> tag, atts |-> NoAtts, data |-> ""]
Data(text) == [kind |-> "data", tag |-> "", atts |-> NoAtts, data |-> text]

\* svn_delta_get_xml_editor: elem is the element the output is inside of, cur
\* the file being written, next the counter for deferred text deltas, and
\* files the file batons: add or open, txdelta_id (0 working, -1 seen, else
\* deferred), closed.
NewXml == [elem |-> "none", cur |-> <<>>, target |-> NoRev, next |-> 1, files |-> <<>>]
NewFile(addopen) == [addopen |-> addopen, id |-> 0, closed |-> FALSE]

Unwound(eb, elem, out) == [eb |-> [eb EXCEPT !.elem = elem], out |-> out]

\* get_to_elem, the unwinding steps from the leaf up, then the winding ones.
LeaveFileProps(s, elem) ==
  IF s.eb.elem = "fprop" /\ elem # "fprop"
    THEN Unwound(s.eb, "file", s.out \o <<EndTag("prop-delta")>>) ELSE s

\* A file that is left before its text delta is given a reference, under
\* which the text delta will come at the end.
LeaveFile_NoRef(s, elem) ==
  LET f  == s.eb.files[s.eb.cur]
  IN  IF s.eb.elem = "file" /\ elem \notin {"file", "fprop"}
        THEN [eb |-> [s.eb EXCEPT !.elem = "tree", !.cur = <<>>,
                                  !.files[s.eb.cur] = [f EXCEPT !.closed = TRUE]],
              out |-> s.out \o <<EndTag("file"), EndTag(f.addopen)>>]
        ELSE s
LeaveFile(s, elem) ==
  LET f  == s.eb.files[s.eb.cur]
      refer == f.id = 0
      ref == IF refer THEN <<StartTag("text-delta-ref", [NoAtts EXCEPT !.id = s.eb.next]),
                             EndTag("text-delta-ref")>> ELSE <<>>
  IN  IF s.eb.elem = "file" /\ elem \notin {"file", "fprop"}
        THEN [eb |-> [s.eb EXCEPT !.elem = "tree", !.cur = <<>>,
                                  !.next = IF refer THEN @ + 1 ELSE @,
                                  !.files[s.eb.cur] = [f EXCEPT !.closed = TRUE,
                                                       !.id = IF refer THEN s.eb.next ELSE @]],
              out |-> s.out \o ref \o <<EndTag("file"), EndTag(f.addopen)>>]
        ELSE s

LeaveTree(s, elem) ==
  IF s.eb.elem = "tree" /\ elem \in {"dir", "dprop"}
    THEN Unwound(s.eb, "dir", s.out \o <<EndTag("tree-delta")>>) ELSE s

LeaveDirProps(s, elem) ==
  IF s.eb.elem = "dprop" /\ elem # "dprop"
    THEN Unwound(s.eb, "dir", s.out \o <<EndTag("prop-delta")>>) ELSE s

EnterElem(s, elem) ==
  IF s.eb.elem = "dir" /\ elem = "tree"
    THEN Unwound(s.eb, "tree", s.out \o <<StartTag("tree-delta", NoAtts)>>)
  ELSE IF <<s.eb.elem, elem>> \in {<<"dir", "dprop">>, <<"file", "fprop">>}
    THEN Unwound(s.eb, elem, s.out \o <<StartTag("prop-delta", NoAtts)>>)
  ELSE s

GetToElem(eb, elem) ==
  EnterElem(LeaveDirProps(LeaveTree(LeaveFile(LeaveFileProps([eb |-> eb, out |-> <<>>],
            elem), elem), elem), elem), elem)

\* output_addopen: the copy source goes on the inner tag.
OutputAddOpen(eb, c, addopen, dirfile) ==
  LET s == GetToElem(eb, "tree")
      atts == IF addopen = "add"
                THEN [NoAtts EXCEPT !.copy = c.copy, !.copyrev = c.rev]
                ELSE [NoAtts EXCEPT !.base = c.rev]
  IN  [eb |-> [s.eb EXCEPT !.elem = dirfile,
                           !.cur = IF dirfile = "file" THEN c.path ELSE @,
                           !.files = IF dirfile = "file" THEN (c.path :> NewFile(addopen)) @@ @ ELSE @],
       out |-> s.out \o <<StartTag(addopen, [NoAtts EXCEPT !.name = Name(c.path)]),
                          StartTag(dirfile, atts)>>]

\* output_propset: a set element with the value, or a delete element.
OutputPropset(eb, c, elem) ==
  LET s == GetToElem(eb, elem)
      atts == [NoAtts EXCEPT !.name = "p"]
  IN  [s EXCEPT !.out = @ \o
        IF c.val = "none" THEN <<StartTag("delete", atts), EndTag("delete")>>
        ELSE <<StartTag("set", atts)>>
             \o (IF c.val = "empty" THEN <<>> ELSE <<Data(c.val)>>) \o <<EndTag("set")>>]

OutputDelete(eb, c) ==
  LET s == GetToElem(eb, "tree")
  IN  [s EXCEPT !.out = @ \o <<StartTag("delete", [NoAtts EXCEPT !.name = Name(c.path), !.base = c.rev]),
                               EndTag("delete")>>]

OutputRoot(eb, c) ==
  [eb |-> [eb EXCEPT !.elem = "dir"],
   out |-> <<StartTag("delta-pkg", [NoAtts EXCEPT !.base = c.rev, !.target = eb.target])>>]

\* close_directory: the root has no element of its own.  The add or open of
\* the directory's baton is handed over by the driver as c.val.
OutputCloseDir(eb, c) ==
  LET s == GetToElem(eb, "dir")
  IN  IF c.path = <<>> THEN Unwound(s.eb, "pkg", s.out)
      ELSE Unwound(s.eb, "tree", s.out \o <<EndTag("dir"), EndTag(c.val)>>)

\* apply_textdelta and the data it carries: inside the file, or deferred and
\* then marked with the file's reference.
OutputText(eb, c) ==
  LET f == eb.files[c.path]
      s == IF f.id = 0 THEN GetToElem(eb, "file") ELSE [eb |-> eb, out |-> <<>>]
      id == IF f.id = 0 THEN 0 ELSE f.id
  IN  [eb |-> [s.eb EXCEPT !.files[c.path].id = -1],
       out |-> s.out \o <<StartTag("text-delta", [NoAtts EXCEPT !.id = id]), Data(c.val),
                          EndTag("text-delta")>>]

OutputCloseFile(eb, c) ==
  LET s == GetToElem(eb, "file")
  IN  IF eb.files[c.path].closed THEN [eb |-> eb, out |-> <<>>]
      ELSE [eb |-> [s.eb EXCEPT !.elem = "tree", !.cur = <<>>],
            out |-> s.out \o <<EndTag("file"), EndTag(eb.files[c.path].addopen)>>]

\* The editor's table of functions.
XmlOutput(eb, c) ==
  CASE c.op = "target"    -> [eb |-> [eb EXCEPT !.target = c.rev], out |-> <<>>]
    [] c.op = "root"      -> OutputRoot(eb, c)
    [] c.op = "delete"    -> OutputDelete(eb, c)
    [] c.op = "adddir"    -> OutputAddOpen(eb, c, "add", "dir")
    [] c.op = "opendir"   -> OutputAddOpen(eb, c, "open", "dir")
    [] c.op = "dirprop"   -> OutputPropset(eb, c, "dprop")
    [] c.op = "closedir"  -> OutputCloseDir(eb, c)
    [] c.op = "addfile"   -> OutputAddOpen(eb, c, "add", "file")
    [] c.op = "openfile"  -> OutputAddOpen(eb, c, "open", "file")
    [] c.op = "text"      -> OutputText(eb, c)
    [] c.op = "fileprop"  -> OutputPropset(eb, c, "fprop")
    [] c.op = "closefile" -> OutputCloseFile(eb, c)
    [] c.op = "close"     -> [eb |-> eb, out |-> <<EndTag("delta-pkg")>>]
    [] c.op = "abort"     -> [eb |-> eb, out |-> <<>>]

----------------------------------------------------------------------------
(* xml_parse.c                                                             *)

Null == <<"null">>  \* a NULL baton

Frame(tag, atts) ==
  [tag |-> tag, name |-> atts.name, path |-> <<>>, haspath |-> FALSE,
   rev |-> atts.base, id |-> atts.id, baton |-> Null, file |-> Null,
   hashed |-> FALSE, names |-> {}]

\* svn_delta_make_xml_parser: the digger.  got is the log of the calls it
\* makes on its editor.
NewDigger == [stack |-> <<>>, dir |-> Null, file |-> Null, parser |-> FALSE, postfix |-> <<>>,
              prop |-> [kind |-> "none", name |-> "", val |-> ""], err |-> FALSE, got |-> <<>>]

Bail(dg) == [dg EXCEPT !.err = TRUE]
Emit(dg, c) == [dg EXCEPT !.got = Append(@, c)]
Top(dg) == Last(dg.stack)
SetTop(dg, f) == [dg EXCEPT !.stack[Len(dg.stack)] = f]

\* What may follow what: the validity tests of do_stack_append.
MayFollow(tag, parent) ==
  CASE tag = "delta-pkg"  -> FALSE
    [] tag = "tree-delta" -> parent \in {"dir", "delta-pkg"}
    [] tag \in {"add", "open"} -> parent = "tree-delta"
    [] tag = "delete"     -> parent \in {"tree-delta", "prop-delta"}
    [] tag \in {"file", "dir"} -> parent \in {"add", "open"}
    [] tag = "prop-delta" -> parent \in {"file", "dir"}
    [] tag = "text-delta" -> parent \in {"file", "delta-pkg"}
    [] tag = "set"        -> parent = "prop-delta"
    [] OTHER -> TRUE

\* Revisions belong to file, dir and delete tags only.
AncestryPlaced(f) == f.rev # NoRev => f.tag \in {"file", "dir", "delete"}

\* check_dirent_namespace: the name of an add or open is new in its tree-delta.
NameTaken(parent, f) == f.tag \in {"add", "open"} /\ (f.name = "" \/ f.name \in parent.names)

\* maybe_derive_ancestry: the nearest ancestor path above, with the nearest
\* name, and the nearest revision.
DeriveAncestry(stack, f) ==
  LET named  == {i \in DOMAIN stack : stack[i].name # ""}
      pathed == {i \in DOMAIN stack : stack[i].haspath}
      reved  == {i \in DOMAIN stack : stack[i].rev # NoRev}
      Nearest(S) == CHOOSE i \in S : \A j \in S : j <= i
  IN  IF f.tag \notin {"dir", "file"} THEN f
      ELSE [f EXCEPT !.haspath = TRUE,
                     !.path = IF f.haspath THEN @
                              ELSE Append(stack[Nearest(pathed)].path, stack[Nearest(named)].name),
                     !.rev = IF f.rev # NoRev \/ reved = {} THEN @ ELSE stack[Nearest(reved)].rev]

\* do_stack_append: validate, inherit the parent's baton, derive ancestry.
StackAppend(dg, f) ==
  LET parent == Top(dg)
      named  == IF f.tag \in {"add", "open"}
                  THEN SetTop(dg, [parent EXCEPT !.names = @ \cup {f.name}]) ELSE dg
      g      == DeriveAncestry(dg.stack, [f EXCEPT !.baton = parent.baton])
  IN  IF dg.stack = <<>>
        THEN IF f.tag = "delta-pkg" THEN [dg EXCEPT !.stack = <<f>>] ELSE Bail(dg)
      ELSE IF ~MayFollow(f.tag, parent.tag) \/ ~AncestryPlaced(f) \/ NameTaken(parent, f) THEN Bail(dg)
      ELSE [named EXCEPT !.stack = Append(@, g)]

\* The baton a call made on a directory baton would give a child.
Under(baton, name) == Append(baton, name)

DirectoryCallback(dg, f, open) ==
  LET child == Under(f.baton, dg.stack[Len(dg.stack) - 1].name)
      c == IF open THEN Call("opendir", child, f.rev, <<>>, "")
                   ELSE Call("adddir", child, NoRev, <<>>, "")
  IN  Emit([SetTop(dg, [f EXCEPT !.baton = child]) EXCEPT !.dir = child], c)

FileCallback(dg, f, open) ==
  LET child == Under(f.baton, dg.stack[Len(dg.stack) - 1].name)
      c == IF open THEN Call("openfile", child, f.rev, <<>>, "")
                   ELSE Call("addfile", child, f.rev, f.path, "")
  IN  Emit([SetTop(dg, [f EXCEPT !.file = child]) EXCEPT !.file = child], c)

DeleteDirent(dg, f) == Emit(dg, Call("delete", Under(f.baton, f.name), f.rev, <<>>, ""))

\* do_begin_textdelta: inline text has no reference and uses the digger's
\* file, deferred text must have one that is known.
BeginTextdelta(dg, f) ==
  LET parent == dg.stack[Len(dg.stack) - 1].tag
      file == IF f.id = 0 THEN dg.file ELSE dg.postfix[f.id]
  IN  IF (parent = "file" /\ f.id # 0) \/ (parent = "delta-pkg" /\ f.id \notin DOMAIN dg.postfix)
        THEN Bail(dg)
        ELSE Emit([SetTop(dg, IF f.id = 0 THEN f ELSE [f EXCEPT !.file = file]) EXCEPT !.parser = TRUE],
                  Call("text", file, NoRev, <<>>, ""))

\* do_begin_textdeltaref: remember the file and mark its frame.
BeginTextdeltaRef(dg, f) ==
  LET n == Len(dg.stack) - 1
  IN  IF f.id = 0 THEN Bail(dg)
      ELSE [dg EXCEPT !.postfix = (f.id :> dg.stack[n].file) @@ @, !.stack[n].hashed = TRUE]

BeginPropdelta(dg) ==
  [dg EXCEPT !.prop = [kind |-> dg.stack[Len(dg.stack) - 1].tag, name |-> "", val |-> ""]]

\* do_begin_setprop, do_delete_prop.
NameProp(dg, f) == [dg EXCEPT !.prop.name = f.name]

\* do_prop_delta_callback: the digger's current file or directory, whichever
\* the prop-delta is about; no data means the property is deleted.
PropCallback(dg) ==
  LET val == IF dg.prop.val = "" THEN "none" ELSE dg.prop.val
      c == IF dg.prop.kind = "file" THEN Call("fileprop", dg.file, NoRev, <<>>, val)
                                    ELSE Call("dirprop", dg.dir, NoRev, <<>>, val)
  IN  Emit([dg EXCEPT !.prop.name = "", !.prop.val = ""], c)

\* The frame xml_handle_start builds; copy attributes are read on add only.
StartFrame(dg, e) ==
  LET f == Frame(e.tag, e.atts)
  IN  CASE e.tag = "delta-pkg"  -> [f EXCEPT !.haspath = TRUE, !.rev = e.atts.target]
        [] e.tag = "add"        -> [f EXCEPT !.haspath = e.atts.copy # <<>>, !.path = e.atts.copy,
                                             !.rev = e.atts.copyrev]
        [] OTHER -> f

\* Before the frame is pushed: the package sets the target revision, and the
\* first tree-delta opens the root.
StartPrologue(dg, f) ==
  IF f.tag = "delta-pkg" THEN Emit(dg, Call("target", <<>>, f.rev, <<>>, ""))
  ELSE IF f.tag = "tree-delta" /\ dg.stack # <<>> /\ Top(dg).tag = "delta-pkg"
    THEN Emit(SetTop(dg, [Top(dg) EXCEPT !.baton = <<>>]), Call("root", <<>>, f.rev, <<>>, ""))
  ELSE dg

\* xml_handle_start, after the push: the events told to the editor.
HandleStart(dg0, e) ==
  LET f0 == StartFrame(dg0, e)
      dg == StackAppend(StartPrologue(dg0, f0), f0)
      f  == Top(dg)
      parent == IF Len(dg.stack) > 1 THEN dg.stack[Len(dg.stack) - 1].tag ELSE ""
  IN  IF f0.tag = "delta-pkg" /\ f0.rev = NoRev THEN Bail(dg0)
      ELSE IF dg.err THEN dg
      ELSE CASE f.tag = "dir"  -> DirectoryCallback(dg, f, parent = "open")
             [] f.tag = "file" -> FileCallback(dg, f, parent = "open")
             [] f.tag = "delete" /\ parent = "tree-delta" -> DeleteDirent(dg, f)
             [] f.tag = "text-delta"     -> BeginTextdelta(dg, f)
             [] f.tag = "text-delta-ref" -> BeginTextdeltaRef(dg, f)
             [] f.tag = "prop-delta"     -> BeginPropdelta(dg)
             [] f.tag = "set"            -> NameProp(dg, f)
             [] f.tag = "delete" /\ parent = "prop-delta" -> NameProp(dg, f)
             [] OTHER -> dg

\* do_close_directory forgets the current directory; do_close_file closes the
\* file unless its text is still to come.
CloseDirectory(dg) == [Emit(dg, Call("closedir", Top(dg).baton, NoRev, <<>>, "")) EXCEPT !.dir = Null]
CloseFile(dg) ==
  LET d == IF Top(dg).hashed THEN dg ELSE Emit(dg, Call("closefile", Top(dg).file, NoRev, <<>>, ""))
  IN  [d EXCEPT !.parser = FALSE, !.file = Null]

OutermostTree(dg) == Len(dg.stack) = 2 /\ dg.stack[1].tag = "delta-pkg" /\ Top(dg).tag = "tree-delta"

\* xml_handle_end: the tag must match, its event is told, the frame goes.
HandleEnd(dg, e) ==
  LET f == Top(dg)
      parent == IF Len(dg.stack) > 1 THEN dg.stack[Len(dg.stack) - 1].tag ELSE ""
      told == CASE e.tag = "dir"  -> CloseDirectory(dg)
                [] e.tag = "file" -> CloseFile(dg)
                [] e.tag = "text-delta" /\ f.id # 0 -> CloseFile(dg)
                [] e.tag = "set" \/ (e.tag = "delete" /\ parent = "prop-delta") -> PropCallback(dg)
                [] e.tag = "tree-delta" /\ OutermostTree(dg) -> CloseDirectory(dg)
                [] OTHER -> dg
  IN  IF dg.stack = <<>> THEN Bail(dg)
      ELSE IF f.tag # e.tag THEN Bail(dg)
      ELSE [told EXCEPT !.stack = Front(@)]

\* xml_handle_data: the data of a set is the value, the data of a text-delta
\* goes to the svndiff parser (the text is put in the log's text call).
HandleData(dg, e) ==
  IF dg.stack = <<>> THEN Bail(dg)
  ELSE IF Top(dg).tag = "text-delta" /\ dg.parser
    THEN [dg EXCEPT !.got[Len(dg.got)].val = e.data]
  ELSE IF Top(dg).tag = "set" THEN [dg EXCEPT !.prop.val = e.data]
  ELSE dg

\* svn_delta_xml_parsebytes on the elements of one write; the parser stops at
\* the first error (svn_xml_signal_bailout).
ParseBytes(dg, out) ==
  FoldLeft(LAMBDA d, e : IF d.err THEN d
                         ELSE CASE e.kind = "start" -> HandleStart(d, e)
                                [] e.kind = "end"   -> HandleEnd(d, e)
                                [] e.kind = "data"  -> HandleData(d, e),
           dg, out)

\* svn_delta_xml_auto_parse: the last bytes end the edit.
FinalParse(dg) == IF dg.err \/ dg.stack # <<>> THEN dg ELSE Emit(dg, Call("close", <<>>, NoRev, <<>>, ""))

----------------------------------------------------------------------------
(* The driver, in the order svn_delta.h allows.                             *)

VARIABLES
  sent,    \* the calls the driver has made, as compat_wrap hands them on
  logs,    \* for each composed editor, the calls it was given
  xml,     \* the XML editor's state
  digger,  \* the parser's state
  open,    \* the open directories, innermost last: [path, addopen, subdirs]
  used,    \* directory entries the driver has dealt with
  file,    \* the file being worked on, or Null
  late,    \* files whose text was put off to the end
  phase    \* "run", "failed", "over"

\* svn_delta_wrap_editor: the editor before the XML editor, that one, and the
\* one after it.
Members == 1 .. 3

xvars == <<sent, logs, xml, digger, open, used, file, late, phase>>

XInit ==
  /\ sent = <<>> /\ logs = [m \in Members |-> <<>>] /\ xml = NewXml /\ digger = NewDigger
  /\ open = <<>> /\ used = {} /\ file = Null /\ late = <<>> /\ phase = "run"

\* What a member is given of a call: all of it, unless an earlier one failed;
\* when that was in its window handler, apply_textdelta without a window.
NoWindow(c) == [c EXCEPT !.val = ""]
Given(c, fail, window, m) ==
  IF fail = 0 \/ m <= fail THEN <<c>> ELSE IF window THEN <<NoWindow(c)>> ELSE <<>>

\* A call of the composed editor: each member in turn, and none after one
\* that fails (fail, 0 if none does), itself or its window handler.  What a
\* failing call of the XML editor has written is never parsed.
Compose(c, fail, window) ==
  /\ logs' = [m \in Members |-> logs[m] \o Given(c, fail, window, m)]
  /\ LET o == XmlOutput(xml, c)
     IN  IF fail \in {1, 2} THEN UNCHANGED <<xml, digger>>
         ELSE /\ xml' = o.eb
              /\ digger' = IF c.op = "close" THEN FinalParse(ParseBytes(digger, o.out))
                                             ELSE ParseBytes(digger, o.out)
  /\ sent' = Append(sent, c)

Fails == IF Len(sent) < MaxFailing THEN {0} \cup Members ELSE {0}

\* One editor call by the driver; when it fails the driver stops the edit.
Drive(c) ==
  /\ phase = "run" /\ Len(sent) < MaxCalls
  /\ \E fail \in Fails : \E window \in {FALSE, fail # 0 /\ c.op = "text"} :
       /\ Compose(c, fail, window)
       /\ phase' = IF fail # 0 THEN "failed" ELSE IF c.op = "close" THEN "over" ELSE "run"

InDir == open # <<>> /\ file = Null
Here == Last(open).path

\* svn_delta_compat_wrap joins the name to the parent's path.
WrapPath(name) == Append(Here, name)
Entry(name) == InDir /\ WrapPath(name) \notin used

OpenEdit ==
  IF sent = <<>>
    THEN Drive(Call("target", <<>>, 2, <<>>, "")) /\ UNCHANGED <<open, used, file, late>>
    ELSE /\ Len(sent) = 1
         /\ Drive(Call("root", <<>>, 1, <<>>, ""))
         /\ open' = <<[path |-> <<>>, addopen |-> "root", subdirs |-> FALSE]>>
         /\ UNCHANGED <<used, file, late>>

DeleteEntry(n) ==
  /\ Entry(n) /\ Drive(Call("delete", WrapPath(n), 1, <<>>, ""))
  /\ UNCHANGED <<open, used, file, late>>
  /\ ~\E i \in DOMAIN sent : sent[i].op = "delete" /\ sent[i].path = WrapPath(n)

AddDirectory(n) ==
  /\ Entry(n) /\ Len(open) < MaxDepth /\ \E copy \in {<<>>, <<"src">>} :
       Drive(Call("adddir", WrapPath(n), IF copy = <<>> THEN NoRev ELSE 1, copy, ""))
  /\ open' = Append(open, [path |-> WrapPath(n), addopen |-> "add", subdirs |-> FALSE])
  /\ used' = used \cup {WrapPath(n)} /\ UNCHANGED <<file, late>>

OpenDirectory(n) ==
  /\ Entry(n) /\ Len(open) < MaxDepth /\ Drive(Call("opendir", WrapPath(n), 1, <<>>, ""))
  /\ open' = Append(open, [path |-> WrapPath(n), addopen |-> "open", subdirs |-> FALSE])
  /\ used' = used \cup {WrapPath(n)} /\ UNCHANGED <<file, late>>

Changes == Cardinality({i \in DOMAIN sent : sent[i].op \in {"dirprop", "fileprop"}})

ChangeDirProp ==
  /\ InDir /\ Changes < MaxProps /\ \E v \in Vals : Drive(Call("dirprop", Here, NoRev, <<>>, v))
  /\ UNCHANGED <<open, used, file, late>>

CloseDir ==
  /\ InDir /\ Drive(Call("closedir", Here, NoRev, <<>>, Last(open).addopen))
  /\ open' = IF Len(open) = 1 THEN <<>> ELSE [Front(open) EXCEPT ![Len(open) - 1].subdirs = TRUE]
  /\ UNCHANGED <<used, file, late>>

AddFile(n) ==
  /\ Entry(n) /\ \E copy \in {<<>>, <<"src">>} :
       Drive(Call("addfile", WrapPath(n), IF copy = <<>> THEN NoRev ELSE 1, copy, ""))
  /\ file' = WrapPath(n) /\ used' = used \cup {WrapPath(n)} /\ UNCHANGED <<open, late>>

OpenFile(n) ==
  /\ Entry(n) /\ Drive(Call("openfile", WrapPath(n), 1, <<>>, ""))
  /\ file' = WrapPath(n) /\ used' = used \cup {WrapPath(n)} /\ UNCHANGED <<open, late>>

LastIs(op) == sent[Len(sent)].op = op

\* Properties of the file, then its text; one of each.
ChangeFileProp ==
  /\ file # Null /\ open # <<>> /\ (LastIs("addfile") \/ LastIs("openfile")) /\ Changes < MaxProps
  /\ \E v \in Vals : Drive(Call("fileprop", file, NoRev, <<>>, v))
  /\ UNCHANGED <<open, used, file, late>>

ApplyText ==
  /\ file # Null /\ ~LastIs("text")
  /\ Drive(Call("text", file, NoRev, <<>>, "t"))
  /\ UNCHANGED <<open, used, file, late>>

CloseTheFile ==
  /\ file # Null /\ (open = <<>> => LastIs("text"))
  /\ Drive(Call("closefile", file, NoRev, <<>>, ""))
  /\ file' = Null /\ UNCHANGED <<open, used, late>>

\* The driver puts the file's text off and goes on with the directory.
PutOff ==
  /\ phase = "run" /\ file # Null /\ open # <<>> /\ ~LastIs("text")
  /\ late' = Append(late, file) /\ file' = Null
  /\ UNCHANGED <<sent, logs, xml, digger, open, used, phase>>

\* After the root is closed the late files are taken up again.
TakeUp ==
  /\ phase = "run" /\ open = <<>> /\ file = Null /\ late # <<>>
  /\ file' = Head(late) /\ late' = Tail(late)
  /\ UNCHANGED <<sent, logs, xml, digger, open, used, phase>>

CloseEdit ==
  /\ Len(sent) > 2 /\ open = <<>> /\ file = Null /\ late = <<>>
  /\ Drive(Call("close", <<>>, NoRev, <<>>, "")) /\ UNCHANGED <<open, used, file, late>>

\* abort_edit of the composed editor, after a failure.  Its result is ignored,
\* but a member that fails at it keeps it from the next ones.
AbortEdit ==
  /\ phase = "failed" /\ \E fail \in {0} \cup Members : Compose(Call("abort", <<>>, NoRev, <<>>, ""), fail, FALSE)
  /\ phase' = "over" /\ UNCHANGED <<open, used, file, late>>

XNext ==
  \/ OpenEdit \/ ChangeDirProp \/ CloseDir \/ ChangeFileProp \/ ApplyText \/ CloseTheFile
  \/ PutOff \/ TakeUp \/ CloseEdit \/ AbortEdit
  \/ \E n \in DirNames : DeleteEntry(n) \/ AddDirectory(n) \/ OpenDirectory(n)
  \/ \E n \in FileNames : DeleteEntry(n) \/ AddFile(n) \/ OpenFile(n)

----------------------------------------------------------------------------
\* What the parser loses: the base revision of the root, copy
\* sources (an added file is even given one of its own making), and an empty
\* property value, which it takes for a deletion.
Surviving(c) ==
  LET d == CASE c.op = "root" -> [c EXCEPT !.rev = NoRev]
             [] c.op \in {"adddir", "addfile"} -> [c EXCEPT !.rev = NoRev, !.copy = <<>>]
             [] c.op \in {"dirprop", "fileprop"} /\ c.val = "empty" -> [c EXCEPT !.val = "none"]
             [] c.op = "closedir" -> [c EXCEPT !.val = ""]
             [] OTHER -> c
  IN  d
SurvivingLog(log) == [i \in DOMAIN log |-> Surviving(log[i])]

\* What the parser cannot take: a property of the root, which it refuses, and
\* a property of a directory changed after a subdirectory of it was closed.
RootProp == \E i \in DOMAIN sent : sent[i].op = "dirprop" /\ sent[i].path = <<>>
PropAfterSubdir ==
  \E i, j \in DOMAIN sent :
    i < j /\ sent[i].op = "closedir" /\ sent[i].path # <<>>
    /\ sent[j].op = "dirprop" /\ sent[j].path = Front(sent[i].path)
Empty == \A i \in DOMAIN sent : sent[i].op \in {"target", "root", "closedir", "close"}

(* A finished edit written as XML and parsed again drives the second editor
   with the same calls, on the same batons, in the same order: files whose
   text was put off included.  An edit of nothing never opens the root. *)
ReplayExact ==
  phase = "over" /\ Last(sent).op = "close" /\ ~RootProp /\ ~PropAfterSubdir =>
    /\ ~digger.err
    /\ SurvivingLog(digger.got) = SurvivingLog(IF Empty THEN <<sent[1], Last(sent)>> ELSE sent)

(* Composed editors stay in step (compose_editors.c).  Each is given the calls
   of the drive from the first on without a gap, up to the last but one at least,
   although any of them may fail at any call: no editor works on past a call
   that it missed, at most a text delta's windows are kept from it.  An edit that
   closed is whole in all of them, and while it is reported as failed none but an
   earlier one may have closed it; likewise for being told of the abort. *)
InStep ==
  LET aborted == sent # <<>> /\ Last(sent).op = "abort"
      calls == IF aborted THEN Front(sent) ELSE sent
      told(m) == logs[m] # <<>> /\ Last(logs[m]).op = "abort"
      own(m) == IF told(m) THEN Front(logs[m]) ELSE logs[m]
      closed(m) == own(m) # <<>> /\ Last(own(m)).op = "close"
  IN  \A m \in Members :
        /\ Len(own(m)) \in {Len(calls), Len(calls) - 1}
        /\ \/ own(m) = SubSeq(calls, 1, Len(own(m)))
           \/ own(m) = Append(Front(calls), NoWindow(Last(calls))) /\ Last(calls).op = "text"
        /\ phase = "run" \/ (phase = "over" /\ ~aborted) => own(m) = sent
        /\ \A k \in 1 .. (m - 1) : (closed(m) => closed(k)) /\ (told(m) => told(k))

=============================================================================
