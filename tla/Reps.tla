-------------------------------- MODULE Reps --------------------------------
(***************************************************************************)
(* Where the contents of nodes are kept: the `strings' and                 *)
(* `representations' tables (strings-table.c, reps-table.c, key-gen.c), the *)
(* representations built on them (reps-strings.c), and how they change     *)
(* from full texts to deltas and back (deltify.c).  One file is followed   *)
(* through its node revisions; transactions edit its text and properties,  *)
(* readers read old revisions piece by piece, and an administrator         *)
(* deltifies and undeltifies them (svnadmin).                              *)
(*                                                                         *)
(* Every action is one trail.  A text stream lives across trails: it only  *)
(* holds the key of its representation, and anything may happen to that    *)
(* representation between two reads or two writes.                         *)
(***************************************************************************)
EXTENDS FsIds, SequencesExt, FiniteSetsExt

CONSTANTS
  Txns,         \* transactions
  Readers,      \* streams on the text of a committed file
  Bytes,        \* the contents of texts, positive numbers
  PropLists,    \* property lists, as their unparsed (nonempty) texts
  FirstRecords, \* the file's first text, as the records of its string
  FirstProps,   \* its first property list
  Base,         \* how many digits keys are written with (36)
  WindowSize,   \* SVN_STREAM_CHUNK_SIZE: larger texts are not deltified
  WriteBuffer,  \* SVN_FS_WRITE_BUFFER_SIZE
  ReadSize,     \* how much a reader asks for at a time
  MaxText,      \* bound on the length of new texts
  MaxKeys       \* bound on the string keys handed out

ASSUME RepsAssumption ==
  /\ Bytes \subseteq Nat \ {0}
  /\ PropLists \cup {FirstProps} \subseteq Seq(Nat \ {0}) \ {<<>>}
  /\ FirstRecords \in Seq(Seq(Nat \ {0})) \ {<<>>}
  /\ Base \in Nat \ {0, 1}
  /\ WindowSize \in Nat /\ WriteBuffer \in Nat /\ ReadSize \in Nat \ {0}
  /\ MaxText \in Nat /\ MaxKeys \in Nat

VARIABLES
  db,      \* the two tables and their `next-key' records
  nodes,   \* node revisions of the file
  head,    \* the node revision in the youngest revision
  txn,     \* per transaction: its state, node revision and text stream
  reader,  \* per reader: the node revision and what was read so far
  text,    \* what clients sent as the text of each node revision (history)
  props,   \* and as its property list (history)
  tainted  \* svnadmin made a committed representation a delta against one of
           \* an open transaction (history)

vars == <<db, nodes, head, txn, reader, text, props, tainted>>

\* The table f with the record v stored under the key k.
Put(f, k, v) == [x \in DOMAIN f \cup {k} |-> IF x = k THEN v ELSE f[x]]

-----------------------------------------------------------------------------
(* Keys (key-gen.c).  A key is the sequence of its digits. *)

\* The key "": no representation.
NoKey == <<>>

\* svn_fs__next_key: digits are carried from the right; a carry left over
\* becomes a new first digit.
NextKey(key) ==
  LET i == Max({0} \cup {j \in 1..Len(key) : key[j] # Base - 1})
      digits == [j \in 1..Len(key) |->
                   IF j < i THEN key[j] ELSE IF j = i THEN key[j] + 1 ELSE 0]
  IN  IF i = 0 THEN <<1>> \o digits ELSE digits

-----------------------------------------------------------------------------
(* The strings table (strings-table.c).  A string is the sequence of the    *)
(* records stored under its key.                                            *)

\* get_key_and_bump and the first svn_fs__string_append to a null key.
NewString(s, records) ==
  [s EXCEPT !.strings = Put(@, s.nextString, records),
            !.nextString = NextKey(@)]

\* svn_fs__string_append to an existing key: one more record.
StringAppend(s, key, record) ==
  [s EXCEPT !.strings[key] = Append(@, record)]

\* svn_fs__string_clear: all records replaced by an empty one.
StringClear(s, key) == [s EXCEPT !.strings[key] = <<<<>>>>]

\* svn_fs__string_delete
StringDelete(s, key) ==
  [s EXCEPT !.strings = [k \in DOMAIN @ \ {key} |-> @[k]]]

\* svn_fs__string_copy: record by record, under a new key.
StringCopy(s, key) == NewString(s, s.strings[key])

\* string_read: a part of the record in which offset lies, the first that
\* ends beyond it; nothing at the end of the string.
ReadRecord(records, offset, len) ==
  LET End[m \in 0..Len(records)] ==
        IF m = 0 THEN 0 ELSE End[m - 1] + Len(records[m])
      beyond == {m \in 1..Len(records) : offset < End[m]}
      n == Min(beyond)
      start == offset - End[n - 1]
  IN  IF beyond = {} THEN <<>>
      ELSE SubSeq(records[n], start + 1, Min({start + len, Len(records[n])}))

\* svn_fs__string_read: read records until the request is filled or the
\* string ends.
StringRead(records, offset, len) ==
  LET From[amt \in Nat] ==
        LET piece == ReadRecord(records, offset + amt, len - amt)
        IN  IF piece = <<>> \/ amt + Len(piece) = len THEN piece
            ELSE piece \o From[amt + Len(piece)]
  IN  From[0]

-----------------------------------------------------------------------------
(* Representations (reps-table.c, reps-strings.c).  A `delta' has a single  *)
(* window: larger texts are not deltified.  Its string holds one svndiff    *)
(* instruction per byte of the text: b > 0 is the new byte b, -i a copy of  *)
(* the i-th byte of the base's text.                                        *)

Fulltext(string, mutable) ==
  [kind |-> "fulltext", mutable |-> mutable, string |-> string,
   base |-> NoKey, sview |-> 0]

Delta(string, base, sview) ==
  [kind |-> "delta", mutable |-> FALSE, string |-> string,
   base |-> base, sview |-> sview]

\* svn_fs__write_new_rep: stored under the next key, which is then bumped.
WriteNewRep(s, rep) ==
  [s EXCEPT !.reps = Put(@, s.nextRep, rep), !.nextRep = NextKey(@)]

\* What a read returns when svn_fs__read_rep finds no such representation,
\* and a byte of a buffer that nothing was read into.
ReadError == <<-1>>
Uninitialized == 0

\* window_handler: the instructions are played into a buffer until the
\* request is filled, and the part asked for is copied out.  The base's
\* text is read only when there is an instruction that needs it.
PlayWindow(ops, offset, len, source) ==
  LET played == SubSeq(ops, 1, Min({offset + len + 1, Len(ops)}))
      sbuf == IF \E i \in DOMAIN played : played[i] < 0
              THEN source ELSE <<>>
      Byte(op) == IF op > 0 THEN op
                  ELSE IF -op <= Len(sbuf) THEN sbuf[-op] ELSE Uninitialized
      tbuf == [i \in DOMAIN played |-> Byte(played[i])]
  IN  IF sbuf = ReadError THEN ReadError
      ELSE SubSeq(tbuf, offset + 1, Min({offset + len, Len(tbuf)}))

\* Mutant of RepReadRange: the base's text is taken from the read's offset.
RepReadRange_SourceAtOffset(s, key, off, n) ==
  LET Part[q \in Seq(Nat) \X Nat \X Nat] ==
        LET k == q[1]
            offset == q[2]
            len == q[3]
            rep == s.reps[k]
            ops == FlattenSeq(s.strings[rep.string])
            source == Part[<<rep.base, offset, rep.sview>>]
        IN  IF k \notin DOMAIN s.reps THEN ReadError
            ELSE IF rep.kind = "fulltext"
                 THEN StringRead(s.strings[rep.string], offset, len)
            ELSE IF Len(ops) - 1 < offset THEN <<>>
            ELSE PlayWindow(ops, offset, len, source)
  IN  Part[<<key, off, n>>]

\* rep_read_range: from the string, or through the window and the base.
RepReadRange(s, key, off, n) ==
  LET Part[q \in Seq(Nat) \X Nat \X Nat] ==
        LET k == q[1]
            offset == q[2]
            len == q[3]
            rep == s.reps[k]
            ops == FlattenSeq(s.strings[rep.string])
            source == Part[<<rep.base, 0, rep.sview>>]
        IN  IF k \notin DOMAIN s.reps THEN ReadError
            ELSE IF rep.kind = "fulltext"
                 THEN StringRead(s.strings[rep.string], offset, len)
            ELSE IF Len(ops) - 1 < offset THEN <<>>
            ELSE PlayWindow(ops, offset, len, source)
  IN  Part[<<key, off, n>>]

\* svn_fs__rep_contents_size: of the string, or of the last window.
RepContentsSize(s, key) ==
  Len(FlattenSeq(s.strings[s.reps[key].string]))

\* svn_fs__rep_contents; a node without a representation has no contents.
RepContents(s, key) ==
  IF key = NoKey THEN <<>>
  ELSE IF key \notin DOMAIN s.reps THEN ReadError
  ELSE RepReadRange(s, key, 0, RepContentsSize(s, key))

\* svn_fs__get_mutable_rep: the key's representation if it is mutable, else
\* a new mutable full text with its contents (empty for no key).
GetMutableRep(s, key) ==
  LET rep == s.reps[key]
      filled == IF key = NoKey THEN NewString(s, <<<<>>>>)
                ELSE IF rep.kind = "fulltext" THEN StringCopy(s, rep.string)
                ELSE NewString(s, <<RepContents(s, key)>>)
  IN  IF key # NoKey /\ rep.mutable
      THEN [db |-> s, key |-> key]
      ELSE [db |-> WriteNewRep(filled, Fulltext(s.nextString, TRUE)),
            key |-> s.nextRep]

\* svn_fs__make_rep_immutable
MakeRepImmutable(s, key) ==
  IF key = NoKey THEN s ELSE [s EXCEPT !.reps[key].mutable = FALSE]

\* Mutant of DeleteRepIfMutable: immutable ones are deleted as well.
DeleteRepIfMutable_Always(s, key) ==
  IF key = NoKey THEN s
  ELSE [StringDelete(s, s.reps[key].string) EXCEPT
          !.reps = [k \in DOMAIN @ \ {key} |-> @[k]]]

\* svn_fs__delete_rep_if_mutable: the string, then the representation.
DeleteRepIfMutable(s, key) ==
  IF key = NoKey \/ ~s.reps[key].mutable THEN s
  ELSE [StringDelete(s, s.reps[key].string) EXCEPT
          !.reps = [k \in DOMAIN @ \ {key} |-> @[k]]]

\* rep_write.  (That the representation is not mutable is noticed, but the
\* error is dropped.)
RepWrite(s, key, buf) == StringAppend(s, s.reps[key].string, buf)

\* svn_fs__rep_contents_clear, of a mutable representation.
RepContentsClear(s, key) == StringClear(s, s.reps[key].string)

\* The instructions svn_txdelta finds: bytes of the source where it has
\* them, new bytes elsewhere.
Window(source, target) ==
  [i \in 1..Len(target) |->
     IF \E j \in 1..Len(source) : source[j] = target[i]
     THEN -(CHOOSE j \in 1..Len(source) : source[j] = target[i])
     ELSE target[i]]

\* svn_fs__rep_deltify: the delta replaces what TARGET had if it takes less
\* space, which depends on the encoding (`saves').  An empty text has no
\* window; the svndiff header, stripped, leaves an empty string behind.
\* (If a base is missing the trail fails; ContentsKept excludes that.)
RepDeltify(s, target, source, saves) ==
  LET to == RepContents(s, target)
      from == RepContents(s, source)
      made == NewString(s, <<Window(from, to)>>)
  IN  IF Len(to) > WindowSize THEN s
      ELSE IF to = <<>> THEN NewString(s, <<<<>>>>)
      ELSE IF saves
      THEN StringDelete([made EXCEPT !.reps[target] =
                           Delta(s.nextString, source, Len(from))],
                        s.reps[target].string)
      ELSE StringDelete(made, s.nextString)

\* svn_fs__rep_undeltify: the text is read and written in large pieces, the
\* last of which is empty.
RepUndeltify(s, key) ==
  LET rep == s.reps[key]
      made == NewString(s, <<RepContents(s, key), <<>>>>)
  IN  IF key = NoKey \/ rep.kind = "fulltext" THEN s
      ELSE StringDelete([made EXCEPT !.reps[key] =
                           Fulltext(s.nextString, FALSE)], rep.string)
-----------------------------------------------------------------------------
(* The file's node revisions and the transactions on them. *)

\* The number that a key's digits stand for.
KeyValue(key) ==
  LET Value[n \in 0..Len(key)] ==
        IF n = 0 THEN 0 ELSE Base * Value[n - 1] + key[n]
  IN  Value[Len(key)]

\* The bound leaves room for the strings of one more trail.
Room == KeyValue(db.nextString) <= MaxKeys

FirstId == <<1, 1>>

Committed == {id \in DOMAIN nodes : ~nodes[id].mutable}

\* A transaction without changes: not begun, or over.
NoTxn(state) ==
  [state |-> state, base |-> NoId, node |-> NoId,
   stream |-> "none", buf |-> <<>>, sent |-> <<>>]

\* A file in the youngest revision, its text and properties just committed.
Init ==
  LET data == <<0>>
      prop == NextKey(data)
  IN  /\ db = [strings |-> [k \in {data, prop} |->
                            IF k = data THEN FirstRecords ELSE <<FirstProps>>],
               reps |-> [k \in {data, prop} |-> Fulltext(k, FALSE)],
               nextString |-> NextKey(prop), nextRep |-> NextKey(prop)]
      /\ nodes = [id \in {FirstId} |-> [prop |-> prop, data |-> data,
                                        edit |-> NoKey, mutable |-> FALSE]]
      /\ head = FirstId
      /\ txn = [t \in Txns |-> NoTxn("none")]
      /\ reader = [r \in Readers |-> [node |-> NoId, got |-> <<>>]]
      /\ text = [id \in {FirstId} |-> FlattenSeq(FirstRecords)]
      /\ props = [id \in {FirstId} |-> FirstProps]
      /\ tainted = FALSE

\* The node revision a transaction changes: its own, or the successor that
\* make_path_mutable clones from the base's.  It shares the base's keys.
OwnId(t) ==
  IF txn[t].node # NoId THEN txn[t].node
  ELSE NewSuccessorId(DOMAIN nodes, txn[t].base)

OwnNode(t) ==
  IF txn[t].node # NoId THEN nodes[txn[t].node]
  ELSE [nodes[txn[t].base] EXCEPT !.mutable = TRUE]

OwnText(t) == text[IF txn[t].node # NoId THEN txn[t].node ELSE txn[t].base]
OwnProps(t) == props[IF txn[t].node # NoId THEN txn[t].node ELSE txn[t].base]

\* put_node_revision of the transaction's node revision, and what clients
\* have made of it.
PutNode(t, node, newText, newProps) ==
  /\ nodes' = Put(nodes, OwnId(t), node)
  /\ text' = Put(text, OwnId(t), newText)
  /\ props' = Put(props, OwnId(t), newProps)

\* svn_fs_begin_txn
Begin(t) ==
  /\ txn[t].state = "none"
  /\ txn' = [txn EXCEPT ![t].state = "open", ![t].base = head]
  /\ UNCHANGED <<db, nodes, head, reader, text, props>>

\* svn_fs_change_node_prop: svn_fs__dag_set_proplist on a mutable version
\* of the property representation, cleared and written.
SetProplist(t, list) ==
  LET m == GetMutableRep(db, OwnNode(t).prop)
  IN  /\ txn[t].state = "open" /\ Room
      /\ db' = RepWrite(RepContentsClear(m.db, m.key), m.key, list)
      /\ PutNode(t, [OwnNode(t) EXCEPT !.prop = m.key], OwnText(t), list)
      /\ txn' = [txn EXCEPT ![t].node = OwnId(t)]
      /\ UNCHANGED <<head, reader>>

\* svn_fs_apply_textdelta: a new mutable representation under the edit key.
\* (With an edit key already there the trail fails.)
ApplyTextdelta(t) ==
  LET m == GetMutableRep(db, NoKey)
  IN  /\ txn[t].state = "open" /\ Room
      /\ OwnNode(t).edit = NoKey
      /\ db' = m.db
      /\ PutNode(t, [OwnNode(t) EXCEPT !.edit = m.key], OwnText(t), OwnProps(t))
      /\ txn' = [txn EXCEPT ![t].node = OwnId(t), ![t].stream = "edit",
                            ![t].buf = <<>>, ![t].sent = <<>>]
      /\ UNCHANGED <<head, reader>>

\* window_consumer, the window's instruction: a new byte, or the next byte
\* of the source stream, which is on the node revision's present text and
\* is read in a trail of its own.
Instruction(t, op) ==
  LET at == Len(txn[t].sent)
      bytes == IF op # 0 THEN <<op>>
               ELSE RepReadRange(db, nodes[txn[t].node].data, at, 1)
      meant == IF op # 0 THEN op ELSE OwnText(t)[at + 1]
  IN  /\ txn[t].state = "open" /\ txn[t].stream = "edit"
      /\ Len(txn[t].buf) <= WriteBuffer
      /\ at < MaxText
      /\ op = 0 => at < Len(OwnText(t))
      /\ txn' = [txn EXCEPT ![t].buf = @ \o bytes, ![t].sent = Append(@, meant)]
      /\ UNCHANGED <<db, nodes, head, reader, text, props>>

\* window_consumer: the buffer is flushed when it is full, and at the null
\* window, which is followed by the trail that finalizes the edit.
Flush(t, isNull) ==
  /\ txn[t].state = "open" /\ txn[t].stream = "edit"
  /\ isNull <=> Len(txn[t].buf) <= WriteBuffer
  /\ db' = RepWrite(db, nodes[txn[t].node].edit, txn[t].buf)
  /\ txn' = [txn EXCEPT ![t].buf = <<>>,
                        ![t].stream = IF isNull THEN "finish" ELSE @]
  /\ UNCHANGED <<nodes, head, reader, text, props>>

\* Mutant of FinalizeEdits: the old text stays in the tables.
FinalizeEdits_KeepsOld(t) ==
  LET node == nodes[txn[t].node]
  IN  /\ txn[t].state = "open" /\ txn[t].stream = "finish"
      /\ PutNode(t, [node EXCEPT !.data = node.edit, !.edit = NoKey],
                 txn[t].sent, OwnProps(t))
      /\ txn' = [txn EXCEPT ![t].stream = "none", ![t].sent = <<>>]
      /\ UNCHANGED <<db, head, reader>>

\* svn_fs__dag_finalize_edits: the edit becomes the text, and the old one
\* is deleted if no revision has it.
FinalizeEdits(t) ==
  LET node == nodes[txn[t].node]
  IN  /\ txn[t].state = "open" /\ txn[t].stream = "finish"
      /\ PutNode(t, [node EXCEPT !.data = node.edit, !.edit = NoKey],
                 txn[t].sent, OwnProps(t))
      /\ db' = DeleteRepIfMutable(db, node.data)
      /\ txn' = [txn EXCEPT ![t].stream = "none", ![t].sent = <<>>]
      /\ UNCHANGED <<head, reader>>

\* deltify: properties, then data, each if both sides have a representation
\* and they are not the same one.
Deltify(s, target, source, saves) ==
  LET One(u, to, from, b) ==
        IF to # NoKey /\ from # NoKey /\ to # from
        THEN RepDeltify(u, to, from, b) ELSE u
  IN  One(One(s, target.prop, source.prop, saves.prop),
          target.data, source.data, saves.data)

\* Whether the two new deltas would take less space.
Savings == [prop : BOOLEAN, data : BOOLEAN]

\* svn_fs_commit_txn on this file: a conflict unless the node revision was
\* made from the youngest one; then make_node_immutable, which fails on an
\* unfinished edit, and svn_fs__stable_node, which deltifies the
\* predecessor.
Commit(t) ==
  LET id == txn[t].node
      node == nodes[id]
      fixed == MakeRepImmutable(MakeRepImmutable(db, node.prop), node.data)
  IN  /\ txn[t].state = "open" /\ id # NoId /\ Room
      /\ txn[t].base = head
      /\ node.edit = NoKey
      /\ \E saves \in Savings :
           db' = Deltify(fixed, nodes[IdPredecessor(id)], node, saves)
      /\ nodes' = [nodes EXCEPT ![id].mutable = FALSE]
      /\ head' = id
      /\ txn' = [txn EXCEPT ![t] = NoTxn("done")]
      /\ UNCHANGED <<reader, text, props>>

\* svn_fs_abort_txn: svn_fs__dag_delete_if_mutable.
Abort(t) ==
  LET id == txn[t].node
      node == nodes[id]
      Rest(f) == [k \in DOMAIN f \ {id} |-> f[k]]
  IN  /\ txn[t].state = "open"
      /\ db' = IF id = NoId THEN db
               ELSE DeleteRepIfMutable(DeleteRepIfMutable(DeleteRepIfMutable(
                      db, node.prop), node.data), node.edit)
      /\ nodes' = Rest(nodes) /\ text' = Rest(text) /\ props' = Rest(props)
      /\ txn' = [txn EXCEPT ![t] = NoTxn("done")]
      /\ UNCHANGED <<head, reader>>

\* A delta against what a transaction may still change or take away.
AgainstOpen(target, source) ==
  source.mutable /\ (source.prop # target.prop \/ source.data # target.data)

\* svn_fs_deltify: against the next revision of the node if there is one,
\* else against the first revision of its first branch; nothing asks whether
\* that one is committed.
SvnadminDeltify(id) ==
  LET next == [id EXCEPT ![Len(id)] = @ + 1]
      branch == id \o <<1, 1>>
      source == IF next \in DOMAIN nodes THEN next ELSE branch
  IN  /\ source \in DOMAIN nodes /\ Room
      /\ \E saves \in Savings :
           db' = Deltify(db, nodes[id], nodes[source], saves)
      /\ tainted' = (tainted \/ AgainstOpen(nodes[id], nodes[source]))
      /\ UNCHANGED <<nodes, head, txn, reader, text, props>>

\* svn_fs_undeltify
SvnadminUndeltify(id) ==
  /\ Room
  /\ db' = RepUndeltify(RepUndeltify(db, nodes[id].prop), nodes[id].data)
  /\ UNCHANGED <<nodes, head, txn, reader, text, props>>

\* svn_fs_file_contents in a revision: a stream that holds the key.
FileContents(r, id) ==
  /\ reader[r].node = NoId
  /\ reader' = [reader EXCEPT ![r].node = id]
  /\ UNCHANGED <<db, nodes, head, txn, text, props>>

\* rep_read_contents: the next piece, in a trail of its own.
Read(r) ==
  LET key == nodes[reader[r].node].data
      piece == IF key = NoKey THEN <<>>
               ELSE RepReadRange(db, key, Len(reader[r].got), ReadSize)
  IN  /\ reader[r].node # NoId
      /\ piece # <<>>
      /\ reader' = [reader EXCEPT ![r].got = @ \o piece]
      /\ UNCHANGED <<db, nodes, head, txn, text, props>>

Next ==
  \/ /\ \/ \E t \in Txns :
              \/ Begin(t)
              \/ \E list \in PropLists : SetProplist(t, list)
              \/ ApplyTextdelta(t)
              \/ \E op \in Bytes \cup {0} : Instruction(t, op)
              \/ \E isNull \in BOOLEAN : Flush(t, isNull)
              \/ FinalizeEdits(t) \/ Commit(t) \/ Abort(t)
        \/ \E id \in Committed : SvnadminUndeltify(id)
        \/ \E r \in Readers :
              \/ \E id \in Committed : FileContents(r, id)
              \/ Read(r)
     /\ UNCHANGED tainted
  \/ \E id \in Committed : SvnadminDeltify(id)

Spec == Init /\ [][Next]_vars

-----------------------------------------------------------------------------
(* Properties *)

\* The tables hold records of the right shape; a mutable representation is
\* a full text, as rep_write's comment says; a committed node revision has
\* no edit, and an open transaction's is not committed.
TypeOK ==
  /\ \A k \in DOMAIN db.strings : db.strings[k] # <<>>
  /\ \A k \in DOMAIN db.reps :
       LET rep == db.reps[k]
       IN  /\ rep.kind \in {"fulltext", "delta"}
           /\ rep.mutable => rep.kind = "fulltext"
  /\ head \in Committed
  /\ DOMAIN text = DOMAIN nodes /\ DOMAIN props = DOMAIN nodes
  /\ \A id \in Committed : nodes[id].edit = NoKey
  /\ \A t \in Txns : txn[t].node = NoId \/ nodes[txn[t].node].mutable

\* What a revision holds is what clients sent for it, byte for byte,
\* however often its representations have been turned into deltas against
\* later ones and back since, and whatever other transactions do: commit,
\* abort, or hold half-written representations of their own.  (Here and
\* below: unless svnadmin has deltified a revision's text against that of an
\* open transaction, which the code does not prevent and which loses it.)
ContentsKept ==
  ~tainted =>
    \A id \in Committed :
      /\ RepContents(db, nodes[id].data) = text[id]
      /\ RepContents(db, nodes[id].prop) = props[id]

\* A transaction reads back its own changes.
OwnChangesRead ==
  \A id \in DOMAIN nodes \ Committed :
    /\ RepContents(db, nodes[id].data) = text[id]
    /\ RepContents(db, nodes[id].prop) = props[id]

\* A stream that reads a committed text piece by piece gets that text, also
\* when the representation changes between two pieces (the comment on
\* struct rep_read_baton).
ReadersGetText ==
  ~tainted =>
    \A r \in Readers :
      reader[r].node # NoId => IsPrefix(reader[r].got, text[reader[r].node])

\* Every representation has its string, no two share one, and no string is
\* left behind but the empty ones that deltifying an empty text makes.
StringsOwned ==
  LET reps == db.reps
  IN  /\ \A k \in DOMAIN reps : reps[k].string \in DOMAIN db.strings
      /\ \A k, l \in DOMAIN reps : k # l => reps[k].string # reps[l].string
      /\ \A key \in DOMAIN db.strings :
           \/ \E k \in DOMAIN reps : reps[k].string = key
           \/ db.strings[key] = <<<<>>>>

\* The representations a node revision names.
KeysOf(node) == {node.prop, node.data, node.edit} \ {NoKey}

\* The table holds exactly the representations that node revisions name; a
\* committed one names immutable ones, and a mutable one belongs to one
\* node revision.
RepsOwned ==
  /\ DOMAIN db.reps = UNION {KeysOf(nodes[id]) : id \in DOMAIN nodes}
  /\ \A id \in Committed : \A k \in KeysOf(nodes[id]) : ~db.reps[k].mutable
  /\ \A id1 \in DOMAIN nodes, id2 \in DOMAIN nodes \ Committed :
       id1 # id2 =>
         \A k \in KeysOf(nodes[id1]) \cap KeysOf(nodes[id2]) :
           ~db.reps[k].mutable

\* A delta's base is there and can no longer change (svn_fs.h: "Immutable
\* nodes, as part of revisions, never refer to mutable nodes").
BasesImmutable ==
  \A k \in DOMAIN db.reps :
    db.reps[k].kind = "delta" =>
      /\ db.reps[k].base \in DOMAIN db.reps
      /\ ~db.reps[db.reps[k].base].mutable

\* Keys are handed out in the order of the numbers they stand for, so one
\* in use is never handed out again.
KeysBelowNext ==
  LET strings == KeyValue(db.nextString)
      reps == KeyValue(db.nextRep)
  IN  /\ \A k \in DOMAIN db.strings : KeyValue(k) < strings
      /\ \A k \in DOMAIN db.reps : KeyValue(k) < reps

\* svn_fs__string_read gives the bytes asked for, as many as there are,
\* wherever the borders of the records are.
StringReadExact ==
  \A k \in {l \in DOMAIN db.strings : Len(db.strings[l]) > 1} :
    LET all == FlattenSeq(db.strings[k])
    IN  \A offset \in 0..Len(all), len \in 1..Len(all) :
          StringRead(db.strings[k], offset, len)
            = SubSeq(all, offset + 1, Min({offset + len, Len(all)}))

\* The strings and the representations are all there, each with one owner, and
\* read back as they were written.
TablesSound ==
  ~tainted =>
    /\ TypeOK /\ OwnChangesRead
    /\ StringsOwned /\ RepsOwned /\ BasesImmutable /\ KeysBelowNext
    /\ StringReadExact
=============================================================================
