--------------------------- MODULE WcProps_proofs ---------------------------
(***************************************************************************)
(* That the pristine properties are those of the entry's revision, but for *)
(* the names known to be off, and that status shows every change, for any  *)
(* properties, values, number of revisions and ticks of the clock.         *)
(*                                                                         *)
(* The inductive invariant PropsInv says besides what the time stamps mean *)
(* (TimesRight, ChangesSeen), what the temporary property file of a commit *)
(* under way holds (CommitRight), and that one left over by a commit that  *)
(* died is never taken for the sign of a later commit (LeftoversRight):    *)
(* either the lock is there until cleanup, or the file is out of date, so  *)
(* that its next commit is refused.  A directory may be committed although *)
(* it is out of date, but never without properties.                        *)
(***************************************************************************)
EXTENDS WcProps, SequenceTheorems, TLAPS

PropFile == {<<>>} \cup {<<p>> : p \in Props}
AllChanges == [name : Names, value : Values \cup {NoVal}]
Revision == [Items -> [props : Props, at : Nat]]
GhostType == [synced : Nat, fast : BOOLEAN, off : SUBSET Names]
CommitType == [phase : {"sent", "committed"}, item : Items, rev : Nat,
               props : BOOLEAN, raced : BOOLEAN, changes : SUBSET AllChanges]

PropsType ==
  /\ repos \in Seq(Revision)
  /\ files \in [Items -> [Areas -> PropFile]]
  /\ mtime \in [Items -> Nat] /\ ttime \in [Items -> Nat] /\ ptime \in [Items -> Nat]
  /\ dtime \in Nat /\ clock \in Nat
  /\ rev \in [Items -> Nat] /\ prej \in [Items -> BOOLEAN]
  /\ file \in [sched : {"normal", "delete"}, present : BOOLEAN, edited : BOOLEAN]
  /\ unver \in BOOLEAN /\ locked \in BOOLEAN
  /\ \/ commit = Idle
     \/ commit \in CommitType
  /\ ghost \in [Items -> GhostType]
  /\ subject \in Items

\* An item is in a revision as it was when it last changed; entries name
\* revisions.
HistoryRight ==
  /\ Len(repos) >= 1
  /\ \A i \in Items : \A r \in 0 .. Youngest :
       /\ At(r)[i].at <= r
       /\ \A q \in 0 .. r : At(r)[i].at <= q => At(r)[i] = At(q)[i]
  /\ \A i \in Items : rev[i] \in 0 .. Youngest

\* No time stamp was recorded after synced.
TimesRight ==
  /\ dtime <= clock
  /\ \A i \in Items : /\ ptime[i] <= ghost[i].synced /\ ttime[i] <= ghost[i].synced
                      /\ ghost[i].synced <= clock /\ mtime[i] <= clock

\* A change was made after the time stamp was recorded, or in that tick.
ChangesSeen ==
  \A i \in Items : Work(i) # Base(i) /\ ~ghost[i].fast => ptime[i] = 0 \/ ptime[i] < mtime[i]

Tmp(i) == files[i]["tmp/props"]
\* Two property lists agree but for some names.
AgreeBut(p, q, off) == \A n \in Names \ off : p[n] = q[n]

\* A commit of i with properties: the temporary file holds what was sent,
\* unless propset has taken it away.
SentRight(i) ==
  /\ Tmp(i) # <<>> =>
       /\ LoadPropFile(Tmp(i)) # Base(i)
       /\ files[i]["props"] = Tmp(i) => mtime[i] <= ghost[i].synced
       /\ Work(i) # LoadPropFile(Tmp(i)) /\ ~ghost[i].fast => ttime[i] < mtime[i]
  /\ commit.raced => Tmp(i) = <<>>
  /\ ~commit.raced =>
       Tmp(i) # <<>> /\ Applied(Base(i), commit.changes) = LoadPropFile(Tmp(i))

\* A commit of i without properties is of the file's text, and when it was
\* accepted there was no temporary file.
NotSentRight(i) ==
  /\ i = "f" /\ commit.changes = {} /\ ~commit.raced
  /\ commit.phase = "committed" => Tmp(i) = <<>>

CommitRight ==
  commit.phase # "idle" =>
    /\ commit.phase = "sent" => locked
    /\ commit.phase = "committed" =>
         /\ commit.rev \in 0 .. Youngest /\ rev[commit.item] < commit.rev
         /\ At(commit.rev)[commit.item].at = commit.rev
         /\ At(commit.rev)[commit.item].props
              = Applied(At(commit.rev - 1)[commit.item].props, commit.changes)
    /\ commit.props => SentRight(commit.item)
    /\ ~commit.props => NotSentRight(commit.item)

\* What a commit left in the tmp area for the file is not taken for the sign
\* of another one.  (A directory is only committed with its properties.)
SendingFile == commit.phase # "idle" /\ commit.item = "f" /\ commit.props
LeftoversRight ==
  Tmp("f") # <<>> /\ ~SendingFile =>
     (commit.phase = "idle" /\ locked) \/ At(Youngest)["f"].at > rev["f"]

PropsInv == PropsType /\ HistoryRight /\ TimesRight /\ ChangesSeen
            /\ CommitRight /\ LeftoversRight /\ PropBaseRight

----------------------------------------------------------------------------
\* The places of property files.
LEMMA Paths ==
  /\ PropPath(FALSE, FALSE) = "props" /\ PropPath(TRUE, FALSE) = "prop-base"
  /\ PropPath(FALSE, TRUE) = "tmp/props" /\ PropPath(TRUE, TRUE) = "tmp/prop-base"
BY DEF PropPath

\* What a property file holds is a property list.
LEMMA LoadType ==
  ASSUME NEW f \in PropFile
  PROVE  /\ LoadPropFile(f) \in Props
         /\ f # <<>> => f = <<LoadPropFile(f)>>
BY DEF PropFile, LoadPropFile, Props, NoProps

\* Saving a list and loading it again.
LEMMA SaveLoad ==
  ASSUME NEW p \in Props
  PROVE  <<p>> \in PropFile /\ LoadPropFile(<<p>>) = p /\ <<p>> # <<>>
BY DEF PropFile, LoadPropFile

\* Changes are of known names and values; there are none between equal lists
\* only.
LEMMA LocalType ==
  ASSUME NEW p \in Props, NEW q \in Props
  PROVE  /\ LocalPropchanges(p, q) \subseteq AllChanges
         /\ LocalPropchanges(p, q) = {} <=> p = q
<1>1. LocalPropchanges(p, q) \subseteq AllChanges
  BY DEF LocalPropchanges, AllChanges, Change, Props
<1>2. \A n \in Names : p[n] # q[n] => Change(n, p[n]) \in LocalPropchanges(p, q)
  BY DEF LocalPropchanges
<1>3. p = q => LocalPropchanges(p, q) = {}
  BY DEF LocalPropchanges
<1>4. LocalPropchanges(p, q) = {} => p = q
  BY <1>2 DEF Props
<1> QED
  BY <1>1, <1>3, <1>4

\* The changes from p to q, applied to p, give q.
LEMMA AppliedLocal ==
  ASSUME NEW p \in Props, NEW q \in Props
  PROVE  Applied(p, LocalPropchanges(q, p)) = q
<1> DEFINE ch == LocalPropchanges(q, p)
<1>1. ASSUME NEW n \in Names
      PROVE  (IF \E c \in ch : c.name = n THEN (CHOOSE c \in ch : c.name = n).value ELSE p[n]) = q[n]
  <2>1. CASE q[n] # p[n]
    <3>1. Change(n, q[n]) \in ch
      BY <2>1 DEF LocalPropchanges
    <3>2. \A c \in ch : c.name = n => c.value = q[n]
      BY DEF LocalPropchanges, Change
    <3>3. Change(n, q[n]).name = n
      BY DEF Change
    <3> HIDE DEF ch
    <3>4. \E c \in ch : c.name = n
      BY <3>1, <3>3
    <3>5. (CHOOSE c \in ch : c.name = n) \in ch /\ (CHOOSE c \in ch : c.name = n).name = n
      BY <3>4
    <3> QED
      BY <3>2, <3>4, <3>5
  <2>2. CASE q[n] = p[n]
    <3>1. ~\E c \in ch : c.name = n
      BY <2>2 DEF LocalPropchanges, Change
    <3> QED
      BY <3>1, <2>2
  <2> QED
    BY <2>1, <2>2
<1> HIDE DEF ch
<1>2. Applied(p, ch) = [n \in Names |-> q[n]]
  BY <1>1 DEF Applied
<1> QED
  BY <1>2 DEF Props, ch

\* Applying changes gives a property list; applying none changes nothing.
LEMMA AppliedType ==
  ASSUME NEW p \in Props, NEW ch \in SUBSET AllChanges
  PROVE  /\ Applied(p, ch) \in Props
         /\ ch = {} => Applied(p, ch) = p
<1>1. ASSUME NEW n \in Names
      PROVE  (IF \E c \in ch : c.name = n THEN (CHOOSE c \in ch : c.name = n).value ELSE p[n])
                 \in Values \cup {NoVal}
  <2>1. CASE \E c \in ch : c.name = n
    <3>1. (CHOOSE c \in ch : c.name = n) \in AllChanges
      BY <2>1
    <3> QED
      BY <2>1, <3>1 DEF AllChanges
  <2>2. CASE ~\E c \in ch : c.name = n
    BY <2>2 DEF Props
  <2> QED
    BY <2>1, <2>2
<1>2. Applied(p, ch) \in Props
  BY <1>1 DEF Applied, Props
<1>3. ch = {} => Applied(p, ch) = [n \in Names |-> p[n]]
  BY DEF Applied
<1> QED
  BY <1>2, <1>3 DEF Props

\* Changes decide the names they are about, and leave the others.
LEMMA AppliedNames ==
  ASSUME NEW p \in Props, NEW q \in Props, NEW ch \in SUBSET AllChanges, NEW n \in Names
  PROVE  /\ n \in NamesOf(ch) => Applied(p, ch)[n] = Applied(q, ch)[n]
         /\ n \notin NamesOf(ch) => Applied(p, ch)[n] = p[n]
<1>1. n \in NamesOf(ch) <=> \E c \in ch : c.name = n
  BY DEF NamesOf
<1>2. /\ Applied(p, ch)[n] = IF \E c \in ch : c.name = n THEN (CHOOSE c \in ch : c.name = n).value ELSE p[n]
      /\ Applied(q, ch)[n] = IF \E c \in ch : c.name = n THEN (CHOOSE c \in ch : c.name = n).value ELSE q[n]
  BY DEF Applied
<1> QED
  BY <1>1, <1>2

\* The changes from q to p bring a list that agrees with q but for some names
\* to one that agrees with p, also in the names they are about.
LEMMA AppliedAgrees ==
  ASSUME NEW b \in Props, NEW p \in Props, NEW q \in Props, NEW off, AgreeBut(b, q, off)
  PROVE  LET ch == LocalPropchanges(p, q)
         IN  AgreeBut(Applied(b, ch), p, off \ NamesOf(ch))
<1> PICK ch : ch = LocalPropchanges(p, q)
  OBVIOUS
<1>1. ch \in SUBSET AllChanges /\ Applied(q, ch) = p
  BY LocalType, AppliedLocal
<1>2. ASSUME NEW n \in Names \ (off \ NamesOf(ch))
      PROVE  Applied(b, ch)[n] = p[n]
  <2>1. CASE n \in NamesOf(ch)
    BY <1>1, <2>1, AppliedNames
  <2>2. CASE n \notin NamesOf(ch)
    <3>1. b[n] = q[n]
      BY <1>2, <2>2 DEF AgreeBut
    <3>2. Applied(b, ch)[n] = b[n] /\ Applied(q, ch)[n] = q[n]
      BY <1>1, <2>2, AppliedNames
    <3> QED
      BY <1>1, <3>1, <3>2
  <2> QED
    BY <2>1, <2>2
<1> QED
  BY <1>2 DEF AgreeBut

\* As the test is written no change conflicts with another.
LEMMA NoConflicts == \A i, ch : MergeConflicts(i, ch) = {}
BY DEF MergeConflicts, ConflictingPropchanges

\* Properties that are modified differ.
LEMMA ModifiedDiffers ==
  ASSUME PropsType, NEW i \in Items, PropsModified(i)
  PROVE  Work(i) # Base(i)
<1> DEFINE w == files[i]["props"]
           b == files[i]["prop-base"]
<1>1. w \in PropFile /\ b \in PropFile
  BY DEF PropsType, Areas
<1>2. Work(i) = LoadPropFile(w) /\ Base(i) = LoadPropFile(b)
  BY Paths DEF Work, Base
<1>4. \/ EmptyProps(b) /\ ~EmptyProps(w)
      \/ ~EmptyProps(b) /\ EmptyProps(w)
      \/ ~EmptyProps(b) /\ ~EmptyProps(w) /\ (Size(w[1]) # Size(b[1]) \/ LocalPropchanges(w[1], b[1]) # {})
  BY Paths DEF PropsModified, EmptyProps, TimestampsEqual
<1> HIDE DEF w, b
<1>5. \A x \in PropFile : EmptyProps(x) <=> LoadPropFile(x) = NoProps
  BY DEF EmptyProps, LoadPropFile
<1>6. \A x \in PropFile : ~EmptyProps(x) => LoadPropFile(x) = x[1]
  BY DEF EmptyProps, LoadPropFile
<1>7. LoadPropFile(w) \in Props /\ LoadPropFile(b) \in Props
  BY <1>1, LoadType
<1> QED
  BY <1>1, <1>2, <1>4, <1>5, <1>6, <1>7, LocalType

\* What differs is modified, or was changed in the tick of the time stamp.
LEMMA UnmodifiedSame ==
  ASSUME PropsType, ChangesSeen, NEW i \in Items, ~PropsModified(i)
  PROVE  Work(i) = Base(i) \/ ghost[i].fast
<1> DEFINE w == files[i]["props"]
           b == files[i]["prop-base"]
<1>1. w \in PropFile /\ b \in PropFile
  BY DEF PropsType, Areas
<1>2. Work(i) = LoadPropFile(w) /\ Base(i) = LoadPropFile(b)
  BY Paths DEF Work, Base
<1>4. \/ EmptyProps(b) /\ EmptyProps(w)
      \/ ~EmptyProps(b) /\ ~EmptyProps(w) /\ (TimestampsEqual(i) \/ LocalPropchanges(w[1], b[1]) = {})
  BY Paths DEF PropsModified, EmptyProps, TimestampsEqual
<1> HIDE DEF w, b
<1>5. \A x \in PropFile : EmptyProps(x) <=> LoadPropFile(x) = NoProps
  BY DEF EmptyProps, LoadPropFile
<1>6. \A x \in PropFile : ~EmptyProps(x) => LoadPropFile(x) = x[1]
  BY DEF EmptyProps, LoadPropFile
<1>7. LoadPropFile(w) \in Props /\ LoadPropFile(b) \in Props
  BY <1>1, LoadType
<1>8. CASE EmptyProps(b) /\ EmptyProps(w)
  BY <1>8, <1>1, <1>2, <1>5
<1>9. CASE ~EmptyProps(b) /\ ~EmptyProps(w) /\ LocalPropchanges(w[1], b[1]) = {}
  BY <1>9, <1>1, <1>2, <1>6, <1>7, LocalType
<1>10. CASE TimestampsEqual(i)
  BY <1>10 DEF TimestampsEqual, ChangesSeen, PropsType
<1> QED
  BY <1>4, <1>8, <1>9, <1>10

\* The properties of an item, and after a step.
LEMMA Views ==
  \A i : /\ Work(i) = LoadPropFile(files[i]["props"])
         /\ Base(i) = LoadPropFile(files[i]["prop-base"])
         /\ Work(i)' = LoadPropFile(files'[i]["props"])
         /\ Base(i)' = LoadPropFile(files'[i]["prop-base"])
<1>1. \A i : /\ Work(i) = LoadPropFile(files[i]["props"])
             /\ Base(i) = LoadPropFile(files[i]["prop-base"])
  BY Paths DEF Work, Base
<1>2. \A i : /\ Work(i)' = LoadPropFile(files'[i]["props"])
             /\ Base(i)' = LoadPropFile(files'[i]["prop-base"])
  BY Paths DEF Work, Base, LoadPropFile
<1> QED
  BY <1>1, <1>2

\* The types of an item's files.
LEMMA FileTypes ==
  ASSUME PropsType, NEW i \in Items
  PROVE  /\ \A a \in Areas : files[i][a] \in PropFile
         /\ files[i] \in [Areas -> PropFile]
         /\ Work(i) \in Props /\ Base(i) \in Props
         /\ LoadPropFile(Tmp(i)) \in Props
<1>1. files[i] \in [Areas -> PropFile]
  BY DEF PropsType
<1>2. \A a \in Areas : files[i][a] \in PropFile
  BY <1>1
<1>3. "props" \in Areas /\ "prop-base" \in Areas /\ "tmp/props" \in Areas
  BY DEF Areas
<1>4. LoadPropFile(files[i]["props"]) \in Props /\ LoadPropFile(files[i]["prop-base"]) \in Props
      /\ LoadPropFile(files[i]["tmp/props"]) \in Props
  BY <1>2, <1>3, LoadType
<1> QED
  BY <1>1, <1>2, <1>4, Views DEF Tmp

\* Steps that leave the property files, their times and the commit alone.
LEMMA Untouched ==
  ASSUME PropsInv,
         UNCHANGED <<subject, repos, files, mtime, ttime, ptime, rev, locked, commit, ghost>>,
         clock' \in Nat, clock' >= clock, dtime' \in Nat, dtime' <= clock',
         prej' \in [Items -> BOOLEAN], unver' \in BOOLEAN,
         file' \in [sched : {"normal", "delete"}, present : BOOLEAN, edited : BOOLEAN]
  PROVE  PropsInv'
<1>1. PropsType'
  BY DEF PropsInv, PropsType
<1>2. HistoryRight'
  BY DEF PropsInv, HistoryRight, Youngest, At
<1>3. TimesRight'
  BY DEF PropsInv, TimesRight, PropsType, GhostType
<1>4. \A i : Work(i)' = Work(i) /\ Base(i)' = Base(i) /\ Tmp(i)' = Tmp(i)
  BY Views DEF Tmp
<1>5. ChangesSeen'
  BY <1>4 DEF PropsInv, ChangesSeen
<1>6. \A i : (SentRight(i) => SentRight(i)') /\ (NotSentRight(i) => NotSentRight(i)')
  BY <1>4 DEF SentRight, NotSentRight, At
<1>7. CommitRight'
  BY <1>6 DEF PropsInv, CommitRight, Youngest, At
<1>8. LeftoversRight'
  BY <1>4 DEF PropsInv, LeftoversRight, SendingFile, Youngest, At
<1>9. PropBaseRight'
  BY <1>4 DEF PropsInv, PropBaseRight, At
<1> QED
  BY <1>1, <1>2, <1>3, <1>5, <1>7, <1>8, <1>9 DEF PropsInv

\* Edits, removals, unversioned items and the clock.
LEMMA PlainSteps ==
  ASSUME PropsInv, UNCHANGED subject,
         EditText \/ (\E s \in BOOLEAN : RemoveFile(s)) \/ DropUnversioned \/ Tick
  PROVE  PropsInv'
<1>0. /\ clock \in Nat /\ dtime \in Nat /\ dtime <= clock /\ prej \in [Items -> BOOLEAN]
      /\ unver \in BOOLEAN
      /\ file \in [sched : {"normal", "delete"}, present : BOOLEAN, edited : BOOLEAN]
  BY DEF PropsInv, PropsType, TimesRight
<1>1. CASE EditText
  <2>1. /\ clock' = clock /\ dtime' = dtime /\ prej' = prej /\ unver' = unver
        /\ file' \in [sched : {"normal", "delete"}, present : BOOLEAN, edited : BOOLEAN]
    BY <1>0, <1>1 DEF EditText
  <2> QED
    BY <2>1, <1>0, <1>1, Untouched DEF EditText
<1>2. CASE \E s \in BOOLEAN : RemoveFile(s)
  BY <1>0, <1>2, Untouched DEF RemoveFile
<1>3. CASE DropUnversioned
  BY <1>0, <1>3, Untouched DEF DropUnversioned
<1>4. CASE Tick
  <2>1. clock' \in Nat /\ clock' >= clock /\ dtime' <= clock' /\ dtime' = dtime
    BY <1>0, <1>4 DEF Tick
  <2> QED
    BY <2>1, <1>0, <1>4, Untouched DEF Tick
<1> QED
  BY <1>1, <1>2, <1>3, <1>4

\* A new revision in which one item changed.
LEMMA NewRevision ==
  ASSUME PropsType, HistoryRight, NEW i \in Items, NEW p \in Props, UNCHANGED rev,
         NEW y, y = Youngest,
         repos' = Append(repos, [At(y) EXCEPT ![i] = [props |-> p, at |-> y + 1]])
  PROVE  /\ repos' \in Seq(Revision) /\ HistoryRight'
         /\ y \in Nat /\ Youngest' = y + 1
         /\ \A r \in 0 .. y : At(r)' = At(r)
         /\ At(y + 1)' = [At(y) EXCEPT ![i] = [props |-> p, at |-> y + 1]]
         /\ At(y) \in Revision
<1>1. y \in Nat /\ Len(repos) = y + 1 /\ y = Youngest
  BY DEF PropsType, HistoryRight, Youngest
<1>2. At(y) \in Revision
  BY <1>1 DEF At, PropsType
<1> DEFINE new == [At(y) EXCEPT ![i] = [props |-> p, at |-> y + 1]]
<1>3. /\ new \in Revision /\ new[i] = [props |-> p, at |-> y + 1]
      /\ \A j \in Items \ {i} : new[j] = At(y)[j]
  BY <1>1, <1>2 DEF Revision
<1>4. repos' = Append(repos, new)
  OBVIOUS
<1> HIDE DEF new
<1>5. /\ repos' \in Seq(Revision) /\ Len(repos') = Len(repos) + 1
      /\ \A k \in 1 .. Len(repos) : repos'[k] = repos[k]
      /\ repos'[Len(repos) + 1] = new
  BY <1>3, <1>4 DEF PropsType
<1>6. Youngest' = y + 1
  BY <1>1, <1>5 DEF Youngest
<1>7. \A r \in 0 .. y : At(r)' = At(r)
  BY <1>1, <1>5 DEF At
<1>8. At(y + 1)' = new
  BY <1>1, <1>5 DEF At
<1>9. ASSUME NEW j \in Items, NEW r \in 0 .. Youngest', NEW q \in 0 .. r
      PROVE  At(r)'[j].at <= r /\ (At(r)'[j].at <= q => At(r)'[j] = At(q)'[j])
  <2>1. CASE r <= y
    <3>1. r \in 0 .. y /\ q \in 0 .. y
      BY <2>1, <1>1, <1>6
    <3> QED
      BY <3>1, <1>1, <1>7 DEF HistoryRight
  <2>2. CASE r = y + 1
    <3>1. CASE j = i
      BY <3>1, <2>2, <1>1, <1>3, <1>8
    <3>2. CASE j # i /\ q = r
      BY <3>2, <2>2, <1>1, <1>3, <1>8, <1>2 DEF HistoryRight, Revision
    <3>3. CASE j # i /\ q # r
      <4>1. q \in 0 .. y /\ y \in 0 .. y
        BY <3>3, <2>2, <1>1
      <4>2. At(r)'[j] = At(y)[j]
        BY <3>3, <2>2, <1>8, <1>3
      <4>3. At(y)[j].at <= y /\ (At(y)[j].at <= q => At(y)[j] = At(q)[j])
        BY <4>1, <1>1 DEF HistoryRight
      <4>4. At(q)' = At(q)
        BY <4>1, <1>7
      <4>5. At(y)[j].at \in Nat
        BY <1>2 DEF Revision
      <4> QED
        BY <4>2, <4>3, <4>4, <4>5, <2>2, <1>1
    <3> QED
      BY <3>1, <3>2, <3>3
  <2> QED
    BY <2>1, <2>2, <1>1, <1>6
<1>10. \A j \in Items : rev'[j] \in 0 .. Youngest'
  BY <1>1, <1>6 DEF HistoryRight
<1>11. Len(repos') >= 1
  BY <1>1, <1>5
<1>12. HistoryRight'
  BY <1>9, <1>10, <1>11 DEF HistoryRight
<1> QED
  BY <1>1, <1>2, <1>5, <1>6, <1>7, <1>8, <1>12 DEF new

\* Someone else commits a change.
LEMMA OtherCommitInv ==
  ASSUME PropsInv, UNCHANGED subject, NEW i \in Items, NEW n \in Names,
         NEW v \in Values \cup {NoVal}, OtherCommit(i, n, v)
  PROVE  PropsInv'
<1> PICK y : y = Youngest
  OBVIOUS
<1>1. PropsType /\ HistoryRight /\ TimesRight /\ ChangesSeen /\ CommitRight /\ LeftoversRight /\ PropBaseRight
  BY DEF PropsInv
<1>2. y \in Nat /\ At(y) \in Revision
  BY <1>1 DEF HistoryRight, PropsType, Youngest, At
<1> DEFINE p == [At(y)[i].props EXCEPT ![n] = v]
<1>3. p \in Props
  BY <1>2 DEF Revision, Props
<1>4. repos' = Append(repos, [At(y) EXCEPT ![i] = [props |-> p, at |-> y + 1]])
  BY <1>2 DEF OtherCommit
<1>5. /\ UNCHANGED <<files, mtime, ttime, ptime, dtime, clock, rev>>
      /\ UNCHANGED <<prej, file, unver, locked, commit, ghost>>
  BY DEF OtherCommit
<1> HIDE DEF p
<1>6. /\ repos' \in Seq(Revision) /\ HistoryRight'
      /\ Youngest' = y + 1
      /\ \A r \in 0 .. y : At(r)' = At(r)
      /\ At(y + 1)' = [At(y) EXCEPT ![i] = [props |-> p, at |-> y + 1]]
  BY <1>1, <1>3, <1>4, <1>5, NewRevision
<1>7. \A j : Work(j)' = Work(j) /\ Base(j)' = Base(j) /\ Tmp(j)' = Tmp(j)
  BY <1>5, Views DEF Tmp
<1>8. PropsType'
  BY <1>1, <1>5, <1>6 DEF PropsType
<1>9. TimesRight'
  BY <1>1, <1>5 DEF TimesRight
<1>10. ChangesSeen'
  BY <1>1, <1>5, <1>7 DEF ChangesSeen
<1>11. CommitRight'
  <2> SUFFICES ASSUME commit.phase # "idle"
               PROVE  CommitRight'
    BY <1>5 DEF CommitRight
  <2>1. commit.phase = "committed" =>
          /\ commit.rev \in 0 .. y /\ At(commit.rev)' = At(commit.rev)
          /\ At(commit.rev - 1)' = At(commit.rev - 1)
    <3>1. commit.phase = "committed" => commit.rev \in 0 .. y /\ commit.rev - 1 \in 0 .. y
      <4>1. rev[commit.item] \in Nat
        BY <1>1 DEF PropsType, CommitType, Idle
      <4> QED
        BY <4>1, <1>1, <1>2 DEF CommitRight
    <3> QED
      BY <3>1, <1>5, <1>6 DEF At
  <2>2. commit.props => SentRight(commit.item)'
    BY <1>1, <1>5, <1>7, <2>1 DEF CommitRight, SentRight
  <2>3. ~commit.props => NotSentRight(commit.item)'
    BY <1>1, <1>5, <1>7, <2>1 DEF CommitRight, NotSentRight
  <2> QED
    BY <1>1, <1>2, <1>5, <1>6, <2>1, <2>2, <2>3 DEF CommitRight
<1>12. LeftoversRight'
  <2>0. "f" \in Items /\ y \in 0 .. y
    BY <1>2 DEF Items
  <2>1. At(y + 1)'["f"] = IF i = "f" THEN [props |-> p, at |-> y + 1] ELSE At(y)["f"]
    BY <2>0, <1>2, <1>6 DEF Revision
  <2>4. At(y)["f"].at \in Nat /\ At(y)["f"].at <= y /\ rev["f"] \in Nat
    BY <1>1, <1>2, <2>0 DEF HistoryRight, Revision, PropsType
  <2>2. At(y + 1)'["f"].at \in Nat /\ At(y + 1)'["f"].at >= At(y)["f"].at
    BY <1>2, <2>1, <2>4
  <2>3. At(Youngest)' = At(y + 1)'
    BY <1>6 DEF At
  <2> QED
    BY <1>1, <1>5, <1>7, <2>4, <2>2, <2>3 DEF LeftoversRight, SendingFile
<1>13. PropBaseRight'
  <2>1. \A j \in Items : rev[j] \in 0 .. y /\ rev'[j] = rev[j] /\ ghost'[j] = ghost[j]
    BY <1>1, <1>5 DEF HistoryRight
  <2>2. \A j \in Items : At(rev[j])' = At(rev[j])
    BY <2>1, <1>5, <1>6 DEF At
  <2> QED
    BY <1>1, <1>7, <2>1, <2>2 DEF PropBaseRight
<1> QED
  BY <1>6, <1>8, <1>9, <1>10, <1>11, <1>12, <1>13 DEF PropsInv

\* The user sets a property.
LEMMA PropSetInv ==
  ASSUME PropsInv, UNCHANGED subject, NEW i \in Items, NEW n \in Names,
         NEW v \in Values \cup {NoVal}, PropSet(i, n, v)
  PROVE  PropsInv'
<1>1. PropsType /\ HistoryRight /\ TimesRight /\ ChangesSeen /\ CommitRight /\ LeftoversRight /\ PropBaseRight
  BY DEF PropsInv
<1>2. PropList(i) = Work(i)
  BY Paths DEF PropList, Work, LoadPropFile
<1> DEFINE p == [Work(i) EXCEPT ![n] = v]
<1>3. p \in Props
  BY <1>1, FileTypes DEF Props
<1>4. /\ UNCHANGED <<repos, ttime, ptime, dtime, clock, rev>>
      /\ UNCHANGED <<prej, file, unver, locked>>
      /\ mtime' = [mtime EXCEPT ![i] = clock]
      /\ commit' = IF SendingProps(i) THEN [commit EXCEPT !.raced = TRUE] ELSE commit
  BY DEF PropSet
<1>0. /\ commit = Idle \/ commit \in CommitType => commit' = Idle \/ commit' \in CommitType
      /\ commit'.phase = commit.phase
      /\ commit.phase # "idle" =>
           /\ commit'.item = commit.item /\ commit'.rev = commit.rev
           /\ commit'.props = commit.props /\ commit'.changes = commit.changes
           /\ SendingProps(i) => commit'.raced
           /\ ~SendingProps(i) => commit' = commit
  <2>1. CASE SendingProps(i)
    <3>1. commit \in CommitType /\ commit' = [commit EXCEPT !.raced = TRUE]
      BY <2>1, <1>1, <1>4 DEF SendingProps, PropsType, Idle
    <3> QED
      BY <2>1, <3>1 DEF CommitType
  <2>2. CASE ~SendingProps(i)
    BY <2>2, <1>4
  <2> QED
    BY <2>1, <2>2
<1>5. files' = [files EXCEPT ![i] = CloseProps(OpenProps(files[i], p))]
  BY <1>2 DEF PropSet
<1> HIDE DEF p
<1>6. CloseProps(OpenProps(files[i], p)) = [files[i] EXCEPT !["tmp/props"] = <<>>, !["props"] = <<p>>]
  BY <1>1, FileTypes, Paths DEF CloseProps, OpenProps, SavePropFile, Areas
<1>7. /\ files' \in [Items -> [Areas -> PropFile]]
      /\ files'[i]["props"] = <<p>> /\ files'[i]["tmp/props"] = <<>>
      /\ files'[i]["prop-base"] = files[i]["prop-base"]
      /\ \A j \in Items \ {i} : files'[j] = files[j]
  <2>1. [files[i] EXCEPT !["tmp/props"] = <<>>, !["props"] = <<p>>] \in [Areas -> PropFile]
    BY <1>1, <1>3, FileTypes, SaveLoad DEF PropFile
  <2> QED
    BY <1>1, <1>5, <1>6, <2>1 DEF PropsType, Areas
<1> DEFINE g == [ghost[i] EXCEPT !.fast = (ghost[i].synced = clock)]
<1>8. ghost' = [ghost EXCEPT ![i] = g]
  BY DEF PropSet
<1>9. /\ ghost' \in [Items -> GhostType]
      /\ \A j \in Items \ {i} : ghost'[j] = ghost[j]
      /\ ghost'[i].synced = ghost[i].synced /\ ghost'[i].off = ghost[i].off
      /\ ghost'[i].fast <=> ghost[i].synced = clock
  <2>1. ghost[i] \in GhostType
    BY <1>1 DEF PropsType
  <2>2. PICK b : b = (ghost[i].synced = clock)
    OBVIOUS
  <2>4. b \in BOOLEAN
    BY <2>2
  <2>5. g = [ghost[i] EXCEPT !.fast = b]
    BY <2>2
  <2> HIDE DEF g
  <2>6. /\ g \in GhostType
        /\ g.synced = ghost[i].synced /\ g.off = ghost[i].off /\ g.fast = b
    BY <2>1, <2>4, <2>5 DEF GhostType
  <2>7. /\ ghost' \in [Items -> GhostType]
        /\ ghost'[i] = g /\ \A j \in Items \ {i} : ghost'[j] = ghost[j]
    BY <1>1, <1>8, <2>6 DEF PropsType
  <2> QED
    BY <2>2, <2>6, <2>7
<1> HIDE DEF g
<1>10. /\ Base(i)' = Base(i) /\ Tmp(i)' = <<>>
       /\ \A j \in Items \ {i} : Work(j)' = Work(j) /\ Base(j)' = Base(j) /\ Tmp(j)' = Tmp(j)
  BY <1>7, Views DEF Tmp
<1>11. mtime' \in [Items -> Nat] /\ mtime'[i] = clock /\ \A j \in Items \ {i} : mtime'[j] = mtime[j]
  BY <1>1, <1>4 DEF PropsType
<1>12. PropsType'
  BY <1>0, <1>1, <1>4, <1>7, <1>9, <1>11 DEF PropsType
<1>13. HistoryRight'
  BY <1>1, <1>4 DEF HistoryRight, Youngest, At
<1>14. TimesRight'
  <2>1. clock <= clock
    BY <1>1 DEF PropsType
  <2> QED
    BY <1>1, <1>4, <1>9, <1>11, <2>1 DEF TimesRight
<1>15. ChangesSeen'
  <2>1. ~ghost'[i].fast => ptime[i] < clock
    BY <1>1, <1>9 DEF TimesRight, PropsType, GhostType
  <2> QED
    BY <1>1, <1>4, <1>9, <1>10, <1>11, <2>1 DEF ChangesSeen
<1>16. CommitRight'
  <2> SUFFICES ASSUME commit.phase # "idle"
               PROVE  CommitRight'
    BY <1>0 DEF CommitRight
  <2>0. commit.item \in Items
    BY <1>1 DEF PropsType, Idle, CommitType
  <2>1. commit.props => SentRight(commit.item)'
    <3>1. CASE commit.item = i /\ commit.props
      <4>1. commit'.raced
        BY <3>1, <1>0 DEF SendingProps
      <4> QED
        BY <3>1, <4>1, <1>0, <1>10 DEF SentRight
    <3>2. CASE commit.item # i
      <4>1. commit' = commit
        BY <3>2, <1>4 DEF SendingProps
      <4> QED
        BY <3>2, <4>1, <2>0, <1>1, <1>4, <1>7, <1>9, <1>10, <1>11 DEF CommitRight, SentRight
    <3> QED
      BY <3>1, <3>2
  <2>2. ~commit.props => NotSentRight(commit.item)'
    <3>1. CASE ~commit.props
      <4>1. commit' = commit
        BY <3>1, <1>4 DEF SendingProps
      <4> QED
        BY <3>1, <4>1, <2>0, <1>1, <1>10 DEF CommitRight, NotSentRight
    <3> QED
      BY <3>1
  <2>3. commit.phase = "sent" => locked'
    BY <1>1, <1>4 DEF CommitRight
  <2>4. commit.phase = "committed" =>
         /\ commit.rev \in 0 .. Youngest /\ rev[commit.item] < commit.rev
         /\ At(commit.rev)[commit.item].at = commit.rev
         /\ At(commit.rev)[commit.item].props
              = Applied(At(commit.rev - 1)[commit.item].props, commit.changes)
    BY <1>1 DEF CommitRight
  <2> QED
    BY <1>0, <1>4, <2>1, <2>2, <2>3, <2>4 DEF CommitRight, Youngest, At
<1>17. LeftoversRight'
  <2>1. SendingFile' <=> SendingFile
    BY <1>0 DEF SendingFile
  <2> QED
    BY <2>1, <1>0, <1>1, <1>4, <1>10 DEF LeftoversRight, Youngest, At, Items
<1>18. PropBaseRight'
  BY <1>1, <1>4, <1>9, <1>10 DEF PropBaseRight, At
<1> QED
  BY <1>12, <1>13, <1>14, <1>15, <1>16, <1>17, <1>18 DEF PropsInv

\* Revert, when the properties are modified.
LEMMA RevertProps ==
  ASSUME PropsInv, UNCHANGED subject, NEW i \in Items, Revert(i), PropsModified(i)
  PROVE  PropsInv'
<1>1. PropsType /\ HistoryRight /\ TimesRight /\ ChangesSeen /\ CommitRight /\ LeftoversRight /\ PropBaseRight
  BY DEF PropsInv
<1> DEFINE b == files[i]["prop-base"]
           t == IF b # <<>> /\ ItemKind(i) = "file" THEN clock ELSE ptime[i]
           hit == commit.phase # "idle" /\ commit.item = i
           s == IF ItemKind(i) = "file" THEN clock ELSE ghost[i].synced
           g == [ghost[i] EXCEPT !.synced = s, !.fast = (hit /\ ghost[i].synced = clock)]
<1>2. /\ UNCHANGED <<repos, ttime, clock, rev, unver, locked, commit>>
      /\ prej' = [prej EXCEPT ![i] = FALSE]
      /\ file' = IF i = "f" THEN [sched |-> "normal", present |-> TRUE, edited |-> FALSE] ELSE file
      /\ dtime' = IF i = "f" /\ ~file.present THEN clock ELSE dtime
  BY DEF Revert
<1>3. /\ files' = [files EXCEPT ![i]["props"] = b]
      /\ mtime' = [mtime EXCEPT ![i] = clock]
      /\ ptime' = [ptime EXCEPT ![i] = t]
  BY Paths DEF Revert, RevertAdminThings
<1>4. ghost' = [ghost EXCEPT ![i] = g]
  BY Paths DEF Revert, RevertAdminThings
<1>5. clock \in Nat /\ ptime[i] \in Nat /\ ghost[i].synced \in Nat
  BY <1>1 DEF PropsType, GhostType
<1>6. t \in Nat /\ s \in Nat /\ t <= s /\ s <= clock /\ ghost[i].synced <= s
  BY <1>1, <1>5 DEF TimesRight
<1>7. /\ ghost' \in [Items -> GhostType]
      /\ \A j \in Items \ {i} : ghost'[j] = ghost[j]
      /\ ghost'[i].synced = s /\ ghost'[i].off = ghost[i].off
      /\ ghost'[i].fast <=> hit /\ ghost[i].synced = clock
  <2>1. ghost[i] \in GhostType
    BY <1>1 DEF PropsType
  <2>2. PICK c : c = (hit /\ ghost[i].synced = clock)
    OBVIOUS
  <2>3. c \in BOOLEAN
    BY <2>2
  <2>4. g = [ghost[i] EXCEPT !.synced = s, !.fast = c]
    BY <2>2
  <2> HIDE DEF g, hit, s
  <2>5. /\ g \in GhostType
        /\ g.synced = s /\ g.off = ghost[i].off /\ g.fast = c
    BY <2>1, <2>3, <2>4, <1>6 DEF GhostType
  <2>6. /\ ghost' \in [Items -> GhostType]
        /\ ghost'[i] = g /\ \A j \in Items \ {i} : ghost'[j] = ghost[j]
    BY <1>1, <1>4, <2>5 DEF PropsType
  <2> QED
    BY <2>2, <2>5, <2>6
<1>8. b \in PropFile
  BY <1>1, FileTypes DEF Areas
<1> HIDE DEF g, t, s, b
<1>9. /\ files' \in [Items -> [Areas -> PropFile]]
      /\ files'[i]["props"] = b /\ files'[i]["tmp/props"] = files[i]["tmp/props"]
      /\ files'[i]["prop-base"] = b
      /\ \A j \in Items \ {i} : files'[j] = files[j]
  BY <1>1, <1>3, <1>8 DEF PropsType, Areas, b
<1>10. /\ Base(i) = LoadPropFile(b) /\ Base(i)' = Base(i) /\ Work(i)' = Base(i) /\ Tmp(i)' = Tmp(i)
       /\ \A j \in Items \ {i} : Work(j)' = Work(j) /\ Base(j)' = Base(j) /\ Tmp(j)' = Tmp(j)
  BY <1>9, Views DEF Tmp, b
<1>11. /\ mtime' \in [Items -> Nat] /\ mtime'[i] = clock /\ \A j \in Items \ {i} : mtime'[j] = mtime[j]
       /\ ptime' \in [Items -> Nat] /\ ptime'[i] = t /\ \A j \in Items \ {i} : ptime'[j] = ptime[j]
  BY <1>1, <1>3, <1>5, <1>6 DEF PropsType
<1>12. PropsType'
  <2>1. prej' \in [Items -> BOOLEAN] /\ dtime' \in Nat
        /\ file' \in [sched : {"normal", "delete"}, present : BOOLEAN, edited : BOOLEAN]
    BY <1>1, <1>2 DEF PropsType
  <2> QED
    BY <1>1, <1>2, <1>7, <1>9, <1>11, <2>1 DEF PropsType
<1>13. HistoryRight'
  BY <1>1, <1>2 DEF HistoryRight, Youngest, At
<1>14. TimesRight'
  <2>1. dtime' <= clock'
    BY <1>1, <1>2 DEF TimesRight, PropsType
  <2>2. ASSUME NEW j \in Items
        PROVE  /\ ptime'[j] <= ghost'[j].synced /\ ttime'[j] <= ghost'[j].synced
               /\ ghost'[j].synced <= clock' /\ mtime'[j] <= clock'
    <3>1. CASE j = i
      <4>1. ttime[i] \in Nat /\ ttime[i] <= ghost[i].synced
        BY <1>1 DEF TimesRight, PropsType
      <4> QED
        BY <3>1, <4>1, <1>2, <1>5, <1>6, <1>7, <1>11
    <3>2. CASE j # i
      BY <3>2, <1>1, <1>2, <1>7, <1>11 DEF TimesRight
    <3> QED
      BY <3>1, <3>2
  <2> QED
    BY <2>1, <2>2 DEF TimesRight
<1>15. ChangesSeen'
  BY <1>1, <1>2, <1>7, <1>10, <1>11 DEF ChangesSeen
<1>16. CommitRight'
  <2> SUFFICES ASSUME commit.phase # "idle"
               PROVE  CommitRight'
    BY <1>2 DEF CommitRight
  <2>0. commit.item \in Items
    BY <1>1 DEF PropsType, Idle, CommitType
  <2>1. commit.props => SentRight(commit.item)'
    <3>1. CASE commit.item = i /\ commit.props
      <4>1. SentRight(i)
        BY <3>1, <1>1 DEF CommitRight
      <4>2. ~ghost'[i].fast => ttime[i] < clock
        BY <3>1, <1>1, <1>7 DEF TimesRight, PropsType, GhostType
      <4>3. Tmp(i) # <<>> => LoadPropFile(Tmp(i)) # Base(i) /\ files'[i]["props"] # Tmp(i)
        BY <4>1, <1>9, <1>10 DEF SentRight
      <4> QED
        BY <3>1, <4>1, <4>2, <4>3, <1>2, <1>9, <1>10, <1>11 DEF SentRight, At
    <3>2. CASE commit.item # i
      BY <3>2, <2>0, <1>1, <1>2, <1>7, <1>9, <1>10, <1>11 DEF CommitRight, SentRight, At
    <3> QED
      BY <3>1, <3>2
  <2>2. ~commit.props => NotSentRight(commit.item)'
    BY <2>0, <1>1, <1>2, <1>7, <1>10 DEF CommitRight, NotSentRight, At
  <2> QED
    BY <1>1, <1>2, <2>1, <2>2 DEF CommitRight, Youngest, At
<1>17. LeftoversRight'
  BY <1>1, <1>2, <1>10 DEF LeftoversRight, SendingFile, Youngest, At, Items
<1>18. PropBaseRight'
  BY <1>1, <1>2, <1>7, <1>10 DEF PropBaseRight, At
<1> QED
  BY <1>12, <1>13, <1>14, <1>15, <1>16, <1>17, <1>18 DEF PropsInv

\* Revert of an item, with its properties or not.
LEMMA RevertInv ==
  ASSUME PropsInv, UNCHANGED subject, NEW i \in Items, Revert(i)
  PROVE  PropsInv'
<1>1. CASE PropsModified(i)
  BY <1>1, RevertProps
<1>2. CASE ~PropsModified(i)
  <2>1. UNCHANGED <<repos, files, mtime, ttime, ptime, clock, rev, unver, locked, commit, ghost>>
    BY <1>2 DEF Revert, RevertAdminThings
  <2>2. /\ clock \in Nat /\ dtime' \in Nat /\ dtime' <= clock /\ unver \in BOOLEAN
        /\ prej' \in [Items -> BOOLEAN]
        /\ file' \in [sched : {"normal", "delete"}, present : BOOLEAN, edited : BOOLEAN]
    BY DEF Revert, PropsInv, PropsType, TimesRight
  <2> QED
    BY <2>1, <2>2, Untouched
<1> QED
  BY <1>1, <1>2

\* The files after a merge of changes.
LEMMA MergedParts ==
  ASSUME PropsType, NEW i \in Items, NEW ch \in SUBSET AllChanges
  PROVE  /\ MergedFiles(i, ch) \in [Areas -> PropFile]
         /\ MergedFiles(i, ch)["props"] = <<Applied(Work(i), ch)>>
         /\ MergedFiles(i, ch)["prop-base"] = <<Applied(Base(i), ch)>>
         /\ MergedFiles(i, ch)["tmp/props"] = <<>>
<1>1. files[i] \in [Areas -> PropFile] /\ Work(i) \in Props /\ Base(i) \in Props
  BY FileTypes
<1> PICK w : w = Applied(Work(i), ch)
  OBVIOUS
<1> PICK b : b = Applied(Base(i), ch)
  OBVIOUS
<1>2. w \in Props /\ b \in Props
  BY <1>1, AppliedType
<1>3. <<w>> \in PropFile /\ <<b>> \in PropFile /\ <<>> \in PropFile
  BY <1>2 DEF PropFile
<1>4. ch \ MergeConflicts(i, ch) = ch
  BY NoConflicts
<1> PICK fs : fs = files[i]
  OBVIOUS
<1> DEFINE tmp == [fs EXCEPT !["tmp/prop-base"] = <<b>>, !["tmp/props"] = <<w>>]
<1>5. MergedFiles(i, ch) =
        [tmp EXCEPT !["prop-base"] = tmp["tmp/prop-base"], !["props"] = tmp["tmp/props"],
                    !["tmp/prop-base"] = <<>>, !["tmp/props"] = <<>>]
  BY <1>4, Paths DEF MergedFiles, SavePropFile
<1>6. tmp \in [Areas -> PropFile] /\ tmp["tmp/prop-base"] = <<b>> /\ tmp["tmp/props"] = <<w>>
  BY <1>1, <1>3 DEF Areas
<1> HIDE DEF tmp
<1> QED
  BY <1>3, <1>5, <1>6 DEF Areas

\* A step that merges changes into the properties of i: what it does to them,
\* to the times, and to the rest.
Merging(i, ch) ==
  /\ commit.phase = "idle"
  /\ UNCHANGED <<subject, repos, ttime, clock, unver, locked, commit>>
  /\ files' = [files EXCEPT ![i] = MergedFiles(i, ch)]
  /\ mtime' = [mtime EXCEPT ![i] = clock]
  /\ prej' \in [Items -> BOOLEAN]
  /\ file' \in [sched : {"normal", "delete"}, present : BOOLEAN, edited : BOOLEAN]
  /\ dtime' \in Nat /\ dtime' <= clock
  /\ \E r \in 0 .. Youngest :
       /\ rev' = [rev EXCEPT ![i] = r]
       /\ AgreeBut(Applied(Base(i), ch), At(r)[i].props, ghost'[i].off)
  /\ \E g \in GhostType, t \in Nat :
       /\ ghost' = [ghost EXCEPT ![i] = g] /\ ptime' = [ptime EXCEPT ![i] = t]
       /\ g.fast = ghost[i].fast
       /\ t <= g.synced /\ ghost[i].synced <= g.synced /\ g.synced <= clock
       /\ Work(i) = Base(i) \/ ghost[i].fast \/ t = 0 \/ t < clock

\* Such a step keeps the invariant.
LEMMA MergingInv ==
  ASSUME PropsInv, NEW i \in Items, NEW ch \in SUBSET AllChanges, Merging(i, ch)
  PROVE  PropsInv'
<1>1. PropsType /\ HistoryRight /\ TimesRight /\ ChangesSeen /\ CommitRight /\ LeftoversRight /\ PropBaseRight
  BY DEF PropsInv
<1>2. /\ commit.phase = "idle"
      /\ UNCHANGED <<subject, repos, ttime, clock, unver, locked, commit>>
  BY DEF Merging
<1>3. PICK r \in 0 .. Youngest :
        /\ rev' = [rev EXCEPT ![i] = r]
        /\ AgreeBut(Applied(Base(i), ch), At(r)[i].props, ghost'[i].off)
  BY DEF Merging
<1>4. PICK g \in GhostType, t \in Nat :
        /\ ghost' = [ghost EXCEPT ![i] = g] /\ ptime' = [ptime EXCEPT ![i] = t]
        /\ g.fast = ghost[i].fast
        /\ t <= g.synced /\ ghost[i].synced <= g.synced /\ g.synced <= clock
        /\ Work(i) = Base(i) \/ ghost[i].fast \/ t = 0 \/ t < clock
  BY DEF Merging
<1>5. /\ ghost' \in [Items -> GhostType] /\ ghost'[i] = g /\ \A j \in Items \ {i} : ghost'[j] = ghost[j]
      /\ ptime' \in [Items -> Nat] /\ ptime'[i] = t /\ \A j \in Items \ {i} : ptime'[j] = ptime[j]
  BY <1>1, <1>4 DEF PropsType, GhostType
<1>6. /\ rev' \in [Items -> Nat] /\ rev'[i] = r /\ \A j \in Items \ {i} : rev'[j] = rev[j]
  BY <1>1, <1>3 DEF PropsType
<1>7. /\ mtime' \in [Items -> Nat] /\ mtime'[i] = clock /\ \A j \in Items \ {i} : mtime'[j] = mtime[j]
  BY <1>1 DEF PropsType, Merging
<1>8. /\ files' \in [Items -> [Areas -> PropFile]]
      /\ files'[i] = MergedFiles(i, ch)
      /\ \A j \in Items \ {i} : files'[j] = files[j]
  BY <1>1, MergedParts DEF PropsType, Merging
<1>9. Work(i) \in Props /\ Base(i) \in Props
  BY <1>1, FileTypes
<1>10. /\ Work(i)' = Applied(Work(i), ch) /\ Base(i)' = Applied(Base(i), ch) /\ Tmp(i)' = <<>>
       /\ \A j \in Items \ {i} : Work(j)' = Work(j) /\ Base(j)' = Base(j) /\ Tmp(j)' = Tmp(j)
  <2>1. Applied(Work(i), ch) \in Props /\ Applied(Base(i), ch) \in Props
    BY <1>9, AppliedType
  <2>2. LoadPropFile(<<Applied(Work(i), ch)>>) = Applied(Work(i), ch)
        /\ LoadPropFile(<<Applied(Base(i), ch)>>) = Applied(Base(i), ch)
    BY <2>1, SaveLoad
  <2>3. /\ files'[i]["props"] = <<Applied(Work(i), ch)>>
        /\ files'[i]["prop-base"] = <<Applied(Base(i), ch)>>
        /\ files'[i]["tmp/props"] = <<>>
    BY <1>1, <1>8, MergedParts
  <2>4. Work(i)' = Applied(Work(i), ch) /\ Base(i)' = Applied(Base(i), ch) /\ Tmp(i)' = <<>>
    BY <2>2, <2>3, Views DEF Tmp
  <2>5. \A j \in Items \ {i} : Work(j)' = Work(j) /\ Base(j)' = Base(j) /\ Tmp(j)' = Tmp(j)
    BY <1>8, Views DEF Tmp
  <2> QED
    BY <2>4, <2>5
<1>11. PropsType'
  <2>1. /\ prej' \in [Items -> BOOLEAN] /\ dtime' \in Nat
        /\ file' \in [sched : {"normal", "delete"}, present : BOOLEAN, edited : BOOLEAN]
        /\ UNCHANGED <<subject, repos, ttime, clock, unver, locked, commit>>
    BY DEF Merging
  <2> QED
    BY <1>1, <1>5, <1>6, <1>7, <1>8, <2>1 DEF PropsType
<1>12. HistoryRight'
  <2>1. Youngest' = Youngest /\ Len(repos') = Len(repos) /\ \A q : At(q)' = At(q)
    BY <1>2 DEF Youngest, At
  <2> QED
    BY <1>1, <1>3, <1>6, <2>1 DEF HistoryRight
<1>13. TimesRight'
  <2>1. dtime' <= clock'
    BY <1>2 DEF Merging
  <2>2. ASSUME NEW j \in Items
        PROVE  /\ ptime'[j] <= ghost'[j].synced /\ ttime'[j] <= ghost'[j].synced
               /\ ghost'[j].synced <= clock' /\ mtime'[j] <= clock'
    <3>1. CASE j = i
      <4>1. ttime[i] \in Nat /\ ghost[i].synced \in Nat /\ g.synced \in Nat /\ clock \in Nat
            /\ ttime[i] <= ghost[i].synced
        BY <1>1 DEF TimesRight, PropsType, GhostType
      <4> QED
        BY <3>1, <4>1, <1>2, <1>4, <1>5, <1>7
    <3>2. CASE j # i
      BY <3>2, <1>1, <1>2, <1>5, <1>7 DEF TimesRight
    <3> QED
      BY <3>1, <3>2
  <2> QED
    BY <2>1, <2>2 DEF TimesRight
<1>14. ChangesSeen'
  BY <1>1, <1>4, <1>5, <1>7, <1>10 DEF ChangesSeen
<1>15. CommitRight'
  BY <1>2 DEF CommitRight
<1>16. LeftoversRight'
  BY <1>1, <1>2, <1>6, <1>10 DEF LeftoversRight, SendingFile, Youngest, At, Items
<1>17. PropBaseRight'
  <2>1. \A j \in Items : AgreeBut(Base(j)', At(rev'[j])[j].props, ghost'[j].off)
    BY <1>1, <1>3, <1>5, <1>6, <1>10 DEF PropBaseRight, AgreeBut
  <2>2. \A j \in Items : At(rev[j])' = At(rev'[j])
    BY <1>2 DEF At
  <2> QED
    BY <2>1, <2>2 DEF PropBaseRight, AgreeBut
<1> QED
  BY <1>11, <1>12, <1>13, <1>14, <1>15, <1>16, <1>17 DEF PropsInv

\* svn_wc_install_file and close_directory.
LEMMA InstalledInv ==
  ASSUME PropsInv, NEW i \in Items, NEW ch \in SUBSET AllChanges, NEW r \in 0 .. Youngest,
         Installed(i, ch), commit.phase = "idle",
         UNCHANGED <<subject, repos, ttime, clock, unver, locked, commit>>,
         rev' = [rev EXCEPT ![i] = r], dtime' \in Nat, dtime' <= clock,
         file' \in [sched : {"normal", "delete"}, present : BOOLEAN, edited : BOOLEAN],
         AgreeBut(Applied(Base(i), ch), At(r)[i].props, ghost[i].off \ NamesOf(ch))
  PROVE  PropsInv'
<1>1. PropsType /\ HistoryRight /\ TimesRight /\ ChangesSeen
  BY DEF PropsInv
<1>2. prej' \in [Items -> BOOLEAN]
  BY <1>1 DEF Installed, Rejected, PropsType
<1>3. ghost[i] \in GhostType /\ ptime[i] \in Nat /\ clock \in Nat /\ ghost \in [Items -> GhostType]
      /\ ptime \in [Items -> Nat]
  BY <1>1 DEF PropsType, GhostType
<1> PICK o : o = ghost[i].off \ NamesOf(ch)
  OBVIOUS
<1>7. o \in SUBSET Names
  BY <1>3 DEF GhostType
<1>4. \E g \in GhostType, t \in Nat :
       /\ ghost' = [ghost EXCEPT ![i] = g] /\ ptime' = [ptime EXCEPT ![i] = t]
       /\ g.fast = ghost[i].fast /\ g.off = o
       /\ t <= g.synced /\ ghost[i].synced <= g.synced /\ g.synced <= clock
       /\ Work(i) = Base(i) \/ ghost[i].fast \/ t = 0 \/ t < clock
  <2> PICK sy : sy = IF PropsModified(i) THEN ghost[i].synced ELSE clock
    OBVIOUS
  <2> PICK t : t = IF PropsModified(i) THEN ptime[i] ELSE dtime'
    OBVIOUS
  <2> DEFINE g == [ghost[i] EXCEPT !.synced = sy, !.off = o]
  <2>0. ghost[i].synced \in Nat /\ sy \in Nat /\ t \in Nat
    BY <1>3 DEF GhostType
  <2>1. ghost' = [ghost EXCEPT ![i] = g]
    BY DEF Installed
  <2>2. ptime' = [ptime EXCEPT ![i] = t]
    BY <1>3 DEF Installed, Stamp
  <2>3. g \in GhostType /\ g.fast = ghost[i].fast /\ g.off = o /\ g.synced = sy
    BY <1>3, <1>7, <2>0 DEF GhostType
  <2> HIDE DEF g
  <2>4. /\ t <= sy /\ ghost[i].synced <= sy /\ sy <= clock
        /\ Work(i) = Base(i) \/ ghost[i].fast \/ t = 0 \/ t < clock
    <3>1. CASE PropsModified(i)
      <4>1. ghost[i].fast \/ ptime[i] = 0 \/ ptime[i] < mtime[i]
        BY <1>1, <3>1, ModifiedDiffers DEF ChangesSeen
      <4>2. mtime[i] \in Nat /\ mtime[i] <= clock /\ ptime[i] <= ghost[i].synced /\ ghost[i].synced <= clock
        BY <1>1 DEF TimesRight, PropsType
      <4> QED
        BY <1>3, <2>0, <3>1, <4>1, <4>2
    <3>2. CASE ~PropsModified(i)
      <4>1. ghost[i].synced <= clock
        BY <1>1 DEF TimesRight
      <4>2. Work(i) = Base(i) \/ ghost[i].fast
        BY <1>1, <3>2, UnmodifiedSame
      <4> QED
        BY <1>3, <2>0, <3>2, <4>1, <4>2
    <3> QED
      BY <3>1, <3>2
  <2> g \in GhostType /\ t \in Nat
    BY <2>0, <2>3
  <2> WITNESS g \in GhostType, t \in Nat
  <2> QED
    BY <2>1, <2>2, <2>3, <2>4
<1>5. ghost'[i].off = o
  BY <1>3, <1>4
<1>6. Merging(i, ch)
  <2>1. files' = [files EXCEPT ![i] = MergedFiles(i, ch)] /\ mtime' = [mtime EXCEPT ![i] = clock]
    BY DEF Installed
  <2>2. \E q \in 0 .. Youngest :
         /\ rev' = [rev EXCEPT ![i] = q]
         /\ AgreeBut(Applied(Base(i), ch), At(q)[i].props, ghost'[i].off)
    BY <1>5
  <2> QED
    BY <1>2, <1>4, <2>1, <2>2 DEF Merging
<1> QED
  BY <1>6, MergingInv

\* What an update of i to r brings are the changes between two revisions.
LEMMA ReceivedChanges ==
  ASSUME PropsType, HistoryRight, NEW i \in Items, NEW r \in 0 .. Youngest, NEW a \in BOOLEAN
  PROVE  LET ch == LocalPropchanges(At(r)[i].props, At(rev[i])[i].props)
         IN  /\ At(r)[i].props \in Props /\ At(rev[i])[i].props \in Props
             /\ ch \in SUBSET AllChanges
             /\ Regular(Received(i, r, a)) = ch
             /\ Regular(ChangeDirProp(Received(i, r, a))) = ch
             /\ ChangeDirProp(Received(i, r, a)) = {} => ch = {}
<1> DEFINE ch == LocalPropchanges(At(r)[i].props, At(rev[i])[i].props)
           last == Change("svn:entry:last-author", IF a THEN NoVal ELSE "someone")
<1>1. rev[i] \in 0 .. Youngest
  BY DEF HistoryRight
<1>2. \A q \in 0 .. Youngest : At(q) \in Revision
  BY DEF PropsType, HistoryRight, Youngest, At
<1>3. At(r)[i].props \in Props /\ At(rev[i])[i].props \in Props
  BY <1>1, <1>2 DEF Revision
<1>4. ch \in SUBSET AllChanges
  BY <1>3, LocalType
<1>5. Received(i, r, a) = ch \cup {last}
  BY DEF Received
<1> HIDE DEF ch
<1>6. \A c \in ch : PropKind(c.name) = "normal"
  BY <1>4, PropConstants DEF AllChanges, PropKind
<1>7. PropKind(last.name) = "entry"
  BY DEF PropKind, Change
<1> HIDE DEF last
<1>8. Regular(ch \cup {last}) = ch
  BY <1>6, <1>7 DEF Regular
<1>9. ch \subseteq ChangeDirProp(ch \cup {last}) /\ ChangeDirProp(ch \cup {last}) \subseteq ch \cup {last}
  BY <1>6 DEF ChangeDirProp
<1>10. Regular(ChangeDirProp(ch \cup {last})) = ch
  BY <1>6, <1>7, <1>9 DEF Regular
<1> QED
  BY <1>3, <1>4, <1>5, <1>8, <1>9, <1>10 DEF ch

\* A step that changes only which revision an entry names, to one in which
\* the item is the same or, for the directory, has the same properties.
LEMMA OnlyRevision ==
  ASSUME PropsInv, NEW i \in Items, NEW r \in 0 .. Youngest, commit.phase = "idle",
         UNCHANGED <<subject, repos, files, mtime, ttime, ptime, dtime, clock>>,
         UNCHANGED <<prej, file, unver, locked, commit, ghost>>,
         rev' = [rev EXCEPT ![i] = r],
         At(r)[i].props = At(rev[i])[i].props,
         i = "D" \/ At(r)[i] = At(rev[i])[i]
  PROVE  PropsInv'
<1>1. PropsType /\ HistoryRight /\ TimesRight /\ ChangesSeen /\ CommitRight /\ LeftoversRight /\ PropBaseRight
  BY DEF PropsInv
<1>2. /\ rev' \in [Items -> Nat] /\ rev'[i] = r /\ \A j \in Items \ {i} : rev'[j] = rev[j]
  BY <1>1 DEF PropsType
<1>3. PropsType'
  BY <1>1, <1>2 DEF PropsType
<1>4. HistoryRight'
  <2>1. Youngest' = Youngest /\ Len(repos') = Len(repos) /\ \A q : At(q)' = At(q)
    BY DEF Youngest, At
  <2> QED
    BY <1>1, <1>2, <2>1 DEF HistoryRight
<1>5. TimesRight'
  BY <1>1 DEF TimesRight
<1>6. \A j : Work(j)' = Work(j) /\ Base(j)' = Base(j) /\ Tmp(j)' = Tmp(j)
  BY Views DEF Tmp
<1>7. ChangesSeen'
  BY <1>1, <1>6 DEF ChangesSeen
<1>8. CommitRight'
  BY DEF CommitRight
<1>9. LeftoversRight'
  <2>1. At(Youngest)' = At(Youngest)
    BY DEF At, Youngest
  <2>2. CASE i # "f"
    BY <2>1, <2>2, <1>1, <1>2, <1>6 DEF LeftoversRight, SendingFile, Items
  <2>3. CASE i = "f"
    <3>1. At(Youngest)["f"].at > rev["f"] => At(Youngest)["f"].at > r
      <4> PICK y : y = Youngest
        OBVIOUS
      <4>1. y \in Nat /\ y \in 0 .. y /\ r \in 0 .. y /\ rev["f"] \in 0 .. y /\ "f" \in Items
        BY <1>1 DEF HistoryRight, Youngest, PropsType, Items
      <4>2. \A q \in 0 .. y : At(q) \in Revision
        BY DEF PropsType, HistoryRight, Youngest, At, PropsInv
      <4>3. At(y)["f"].at \in Nat /\ At(r)["f"].at \in Nat /\ At(rev["f"])["f"].at \in Nat
        BY <4>1, <4>2 DEF Revision
      <4>4. At(y)["f"].at <= r => At(y)["f"] = At(r)["f"]
        BY <4>1, <1>1 DEF HistoryRight
      <4>5. At(r)["f"] = At(rev["f"])["f"] /\ At(rev["f"])["f"].at <= rev["f"]
        BY <4>1, <2>3, <1>1 DEF HistoryRight
      <4> QED
        BY <4>1, <4>3, <4>4, <4>5
    <3> QED
      BY <2>1, <2>3, <3>1, <1>1, <1>2, <1>6 DEF LeftoversRight, SendingFile
  <2> QED
    BY <2>2, <2>3
<1>10. PropBaseRight'
  <2>1. \A j \in Items : AgreeBut(Base(j), At(rev'[j])[j].props, ghost[j].off)
    BY <1>1, <1>2 DEF PropBaseRight, AgreeBut
  <2>2. \A j \in Items : At(rev[j])' = At(rev'[j])
    BY DEF At
  <2> QED
    BY <1>6, <2>1, <2>2 DEF PropBaseRight, AgreeBut
<1> QED
  BY <1>3, <1>4, <1>5, <1>7, <1>8, <1>9, <1>10 DEF PropsInv

\* An update of the directory.
LEMMA UpdateDirInv ==
  ASSUME PropsInv, UNCHANGED subject, NEW r \in 0 .. Youngest, NEW a \in BOOLEAN, UpdateDir(r, a)
  PROVE  PropsInv'
<1>1. PropsType /\ HistoryRight /\ TimesRight /\ PropBaseRight
  BY DEF PropsInv
<1>2. /\ commit.phase = "idle" /\ dtime' = dtime /\ rev' = [rev EXCEPT !["D"] = r]
      /\ UNCHANGED <<repos, ttime, clock, file, unver, locked, commit>>
  BY DEF UpdateDir
<1>3. "D" \in Items
  BY DEF Items
<1> DEFINE ch == LocalPropchanges(At(r)["D"].props, At(rev["D"])["D"].props)
<1>4. /\ At(r)["D"].props \in Props /\ At(rev["D"])["D"].props \in Props
      /\ ch \in SUBSET AllChanges
      /\ Regular(ChangeDirProp(Received("D", r, a))) = ch
      /\ ChangeDirProp(Received("D", r, a)) = {} => ch = {}
  BY <1>1, <1>3, ReceivedChanges
<1>5. CASE UNCHANGED <<files, prej, mtime, ptime, ghost>> /\ At(r)["D"].props = At(rev["D"])["D"].props
  BY <1>2, <1>3, <1>5, OnlyRevision
<1>6. CASE Installed("D", ch)
  <2>1. AgreeBut(Applied(Base("D"), ch), At(r)["D"].props, ghost["D"].off \ NamesOf(ch))
    <3>1. AgreeBut(Base("D"), At(rev["D"])["D"].props, ghost["D"].off) /\ Base("D") \in Props
      BY <1>1, <1>3, FileTypes DEF PropBaseRight, AgreeBut
    <3> QED
      BY <1>4, <3>1, AppliedAgrees
  <2>2. /\ dtime' \in Nat /\ dtime' <= clock
        /\ file' \in [sched : {"normal", "delete"}, present : BOOLEAN, edited : BOOLEAN]
    BY <1>1, <1>2 DEF PropsType, TimesRight
  <2> HIDE DEF ch
  <2> QED
    BY <1>2, <1>3, <1>4, <1>6, <2>1, <2>2, InstalledInv
<1>7. ch = {} => At(r)["D"].props = At(rev["D"])["D"].props
  BY <1>4, LocalType
<1> HIDE DEF ch
<1> QED
  BY <1>4, <1>5, <1>6, <1>7 DEF UpdateDir, CloseDirectory

\* An update of the file, or a switch.
LEMMA UpdateFileInv ==
  ASSUME PropsInv, UNCHANGED subject, NEW r \in 0 .. Youngest, NEW full \in BOOLEAN,
         UpdateFile(r, full)
  PROVE  PropsInv'
<1>1. PropsType /\ HistoryRight /\ TimesRight /\ PropBaseRight
  BY DEF PropsInv
<1>2. /\ commit.phase = "idle" /\ rev' = [rev EXCEPT !["f"] = r]
      /\ UNCHANGED <<repos, ttime, clock, unver, locked, commit>>
  BY DEF UpdateFile
<1>3. "f" \in Items
  BY DEF Items
<1>4. CASE /\ At(r)["f"] = At(rev["f"])["f"]
           /\ UNCHANGED <<files, prej, mtime, ptime, ghost, dtime, file>>
  BY <1>2, <1>3, <1>4, OnlyRevision
<1>5. CASE /\ dtime' \in {dtime, clock}
           /\ file' = [file EXCEPT !.present = TRUE]
           /\ InstallFile(r, full)
  <2> DEFINE ch == FileChanges(r, full)
  <2>1. /\ At(r)["f"].props \in Props /\ At(rev["f"])["f"].props \in Props
        /\ LocalPropchanges(At(r)["f"].props, At(rev["f"])["f"].props) \in SUBSET AllChanges
        /\ Regular(Received("f", r, FALSE)) = LocalPropchanges(At(r)["f"].props, At(rev["f"])["f"].props)
    BY <1>1, <1>3, ReceivedChanges
  <2>2. Base("f") \in Props
    BY <1>1, <1>3, FileTypes
  <2>3. /\ ch \in SUBSET AllChanges
        /\ AgreeBut(Applied(Base("f"), ch), At(r)["f"].props, ghost["f"].off \ NamesOf(ch))
    <3>1. CASE full
      <4>1. ch = LocalPropchanges(At(r)["f"].props, Base("f"))
        BY <3>1 DEF FileChanges
      <4> QED
        BY <4>1, <2>1, <2>2, LocalType, AppliedLocal DEF AgreeBut
    <3>2. CASE ~full
      <4>1. ch = LocalPropchanges(At(r)["f"].props, At(rev["f"])["f"].props)
        BY <3>2, <2>1 DEF FileChanges, ChangeFileProp
      <4>2. AgreeBut(Base("f"), At(rev["f"])["f"].props, ghost["f"].off)
        BY <1>1, <1>3 DEF PropBaseRight, AgreeBut
      <4> QED
        BY <4>1, <4>2, <2>1, <2>2, AppliedAgrees
    <3> QED
      BY <3>1, <3>2
  <2>4. /\ dtime' \in Nat /\ dtime' <= clock
        /\ file' \in [sched : {"normal", "delete"}, present : BOOLEAN, edited : BOOLEAN]
    <3>1. clock \in Nat /\ dtime \in Nat /\ dtime <= clock
          /\ file \in [sched : {"normal", "delete"}, present : BOOLEAN, edited : BOOLEAN]
      BY <1>1 DEF PropsType, TimesRight
    <3>2. dtime' \in Nat /\ dtime' <= clock
      BY <3>1, <1>5
    <3>3. file' \in [sched : {"normal", "delete"}, present : BOOLEAN, edited : BOOLEAN]
      BY <3>1, <1>5
    <3> QED
      BY <3>2, <3>3
  <2>5. Installed("f", ch)
    BY <1>5 DEF InstallFile
  <2> HIDE DEF ch
  <2> QED
    BY <1>2, <1>3, <2>3, <2>4, <2>5, InstalledInv
<1> QED
  BY <1>4, <1>5 DEF UpdateFile

\* `svn merge'.
LEMMA MergePropDiffsInv ==
  ASSUME PropsInv, UNCHANGED subject, NEW i \in Items, NEW q \in 0 .. Youngest, NEW r \in 0 .. Youngest,
         MergePropDiffs(i, q, r)
  PROVE  PropsInv'
<1>1. PropsType /\ HistoryRight /\ TimesRight /\ ChangesSeen
  BY DEF PropsInv
<1> DEFINE ch == LocalPropchanges(At(r)[i].props, At(q)[i].props)
<1>2. \A s \in 0 .. Youngest : At(s) \in Revision
  BY DEF PropsInv, PropsType, HistoryRight, Youngest, At
<1>3. At(r)[i].props \in Props /\ At(q)[i].props \in Props
  BY <1>2 DEF Revision
<1>4. ch \in SUBSET AllChanges
  BY <1>3, LocalType
<1>5. /\ commit.phase = "idle"
      /\ UNCHANGED <<repos, ttime, ptime, dtime, clock, rev, file, unver, locked, commit>>
      /\ files' = [files EXCEPT ![i] = MergedFiles(i, ch)]
      /\ mtime' = [mtime EXCEPT ![i] = clock]
      /\ ghost' = [ghost EXCEPT ![i].off = @ \cup NamesOf(ch)]
      /\ prej' = [prej EXCEPT ![i] = Rejected(i, ch)]
  BY DEF MergePropDiffs
<1> HIDE DEF ch
<1>6. prej' \in [Items -> BOOLEAN]
  BY <1>1, <1>5 DEF PropsType, Rejected
<1>7. /\ file' \in [sched : {"normal", "delete"}, present : BOOLEAN, edited : BOOLEAN]
      /\ dtime' \in Nat /\ dtime' <= clock
  BY <1>1, <1>5 DEF PropsType, TimesRight
<1> PICK o : o = ghost[i].off \cup NamesOf(ch)
  OBVIOUS
<1> DEFINE g == [ghost[i] EXCEPT !.off = o]
<1>8. ghost' = [ghost EXCEPT ![i] = g]
  BY <1>5
<1>15. o \in SUBSET Names /\ ghost[i] \in GhostType
  BY <1>1, <1>4 DEF PropsType, GhostType, NamesOf, AllChanges
<1>9. g \in GhostType /\ g.fast = ghost[i].fast /\ g.synced = ghost[i].synced /\ g.off = o
  BY <1>15 DEF GhostType
<1> HIDE DEF g
<1>16. ghost'[i].off = o
  BY <1>1, <1>8, <1>9 DEF PropsType
<1>10. AgreeBut(Applied(Base(i), ch), At(rev[i])[i].props, ghost'[i].off)
  <2> SUFFICES ASSUME NEW n \in Names \ o PROVE Applied(Base(i), ch)[n] = At(rev[i])[i].props[n]
    BY <1>16 DEF AgreeBut
  <2>1. n \notin NamesOf(ch) /\ n \notin ghost[i].off
    OBVIOUS
  <2>2. Base(i) \in Props
    BY <1>1, FileTypes
  <2>3. Applied(Base(i), ch)[n] = Base(i)[n]
    BY <1>4, <2>1, <2>2, AppliedNames
  <2> QED
    BY <2>1, <2>3 DEF PropsInv, PropBaseRight
<1>11. rev[i] \in 0 .. Youngest /\ rev' = [rev EXCEPT ![i] = rev[i]]
  BY <1>1, <1>5 DEF HistoryRight, PropsType
<1>12. \E s \in 0 .. Youngest :
         /\ rev' = [rev EXCEPT ![i] = s]
         /\ AgreeBut(Applied(Base(i), ch), At(s)[i].props, ghost'[i].off)
  BY <1>10, <1>11
<1>13. \E h \in GhostType, t \in Nat :
         /\ ghost' = [ghost EXCEPT ![i] = h] /\ ptime' = [ptime EXCEPT ![i] = t]
         /\ h.fast = ghost[i].fast
         /\ t <= h.synced /\ ghost[i].synced <= h.synced /\ h.synced <= clock
         /\ Work(i) = Base(i) \/ ghost[i].fast \/ t = 0 \/ t < clock
  <2>1. ptime[i] \in Nat /\ ptime' = [ptime EXCEPT ![i] = ptime[i]]
    BY <1>1, <1>5 DEF PropsType
  <2>2. /\ ptime[i] <= ghost[i].synced /\ ghost[i].synced <= clock /\ mtime[i] <= clock
        /\ ghost[i].synced \in Nat /\ mtime[i] \in Nat /\ clock \in Nat
    BY <1>1 DEF PropsType, TimesRight, GhostType
  <2>3. Work(i) = Base(i) \/ ghost[i].fast \/ ptime[i] = 0 \/ ptime[i] < mtime[i]
    BY <1>1 DEF ChangesSeen
  <2>4. Work(i) = Base(i) \/ ghost[i].fast \/ ptime[i] = 0 \/ ptime[i] < clock
    BY <2>1, <2>2, <2>3
  <2>5. ptime[i] <= g.synced /\ ghost[i].synced <= g.synced /\ g.synced <= clock
    BY <1>9, <2>2
  <2> g \in GhostType /\ ptime[i] \in Nat
    BY <1>9, <2>1
  <2> WITNESS g \in GhostType, ptime[i] \in Nat
  <2> QED
    BY <1>8, <1>9, <2>1, <2>4, <2>5
<1>14. Merging(i, ch)
  BY <1>5, <1>6, <1>7, <1>12, <1>13 DEF Merging
<1> QED
  BY <1>4, <1>14, MergingInv

\* A commit is sent with properties: they are copied to the tmp area.
LEMMA SendProps ==
  ASSUME PropsInv, UNCHANGED subject, NEW i \in Items, CommitSend(i), PropsModified(i)
  PROVE  PropsInv'
<1>1. PropsType /\ HistoryRight /\ TimesRight /\ ChangesSeen /\ CommitRight /\ LeftoversRight /\ PropBaseRight
  BY DEF PropsInv
<1> DEFINE w == files[i]["props"]
           ch == LocalPropchanges(Work(i), Base(i))
           g == [ghost[i] EXCEPT !.synced = clock]
<1>2. /\ UNCHANGED <<repos, mtime, ptime, dtime, clock, rev, prej, file, unver>>
      /\ w # <<>>
      /\ files' = [files EXCEPT ![i]["tmp/props"] = w]
      /\ ttime' = [ttime EXCEPT ![i] = clock]
      /\ ghost' = [ghost EXCEPT ![i] = g]
      /\ locked' = TRUE
      /\ commit.phase = "idle"
  BY Paths DEF CommitSend
<1>3. commit' = [phase |-> "sent", item |-> i, rev |-> 0, props |-> TRUE, raced |-> FALSE, changes |-> ch]
  BY DEF CommitSend, TransmitPropDeltas
<1>4. w \in PropFile /\ Work(i) \in Props /\ Base(i) \in Props /\ Work(i) = LoadPropFile(w)
  BY <1>1, FileTypes, Views DEF Areas
<1>5. ch \in SUBSET AllChanges /\ Applied(Base(i), ch) = Work(i)
  BY <1>4, LocalType, AppliedLocal
<1>6. Work(i) # Base(i)
  BY <1>1, ModifiedDiffers
<1> HIDE DEF w, ch
<1>7. /\ files' \in [Items -> [Areas -> PropFile]]
      /\ files'[i]["props"] = files[i]["props"] /\ files'[i]["tmp/props"] = w
      /\ files'[i]["prop-base"] = files[i]["prop-base"]
      /\ \A j \in Items \ {i} : files'[j] = files[j]
  BY <1>1, <1>2, <1>4 DEF PropsType, Areas
<1>8. /\ \A j \in Items : Work(j)' = Work(j) /\ Base(j)' = Base(j)
      /\ Tmp(i)' = w /\ \A j \in Items \ {i} : Tmp(j)' = Tmp(j)
  BY <1>7, Views DEF Tmp
<1>9. /\ ghost' \in [Items -> GhostType] /\ ghost'[i] = g /\ \A j \in Items \ {i} : ghost'[j] = ghost[j]
      /\ g.synced = clock /\ g.fast = ghost[i].fast /\ g.off = ghost[i].off
  BY <1>1, <1>2 DEF PropsType, GhostType
<1> HIDE DEF g
<1>10. ttime' \in [Items -> Nat] /\ ttime'[i] = clock /\ \A j \in Items \ {i} : ttime'[j] = ttime[j]
  BY <1>1, <1>2 DEF PropsType
<1>11. PropsType'
  <2>1. commit' \in CommitType
    BY <1>3, <1>5 DEF CommitType
  <2> QED
    BY <1>1, <1>2, <1>7, <1>9, <1>10, <2>1 DEF PropsType, GhostType
<1>12. HistoryRight'
  BY <1>1, <1>2 DEF HistoryRight, Youngest, At
<1>13. TimesRight'
  <2>1. ASSUME NEW j \in Items
        PROVE  /\ ptime'[j] <= ghost'[j].synced /\ ttime'[j] <= ghost'[j].synced
               /\ ghost'[j].synced <= clock' /\ mtime'[j] <= clock'
    <3>1. /\ ptime[j] \in Nat /\ mtime[j] \in Nat /\ clock \in Nat /\ ghost[j].synced \in Nat
          /\ ptime[j] <= ghost[j].synced /\ ttime[j] <= ghost[j].synced
          /\ ghost[j].synced <= clock /\ mtime[j] <= clock
      BY <1>1 DEF TimesRight, PropsType, GhostType
    <3> QED
      BY <3>1, <1>2, <1>9, <1>10
  <2> QED
    BY <1>1, <1>2, <2>1 DEF TimesRight
<1>14. ChangesSeen'
  BY <1>1, <1>2, <1>8, <1>9 DEF ChangesSeen
<1>15. CommitRight'
  <2>1. SentRight(i)'
    <3>1. mtime[i] <= clock
      BY <1>1 DEF TimesRight
    <3>2. LoadPropFile(w) = Work(i) /\ LoadPropFile(w) # Base(i)
      BY <1>4, <1>6
    <3> QED
      BY <3>1, <3>2, <1>2, <1>3, <1>5, <1>8, <1>9 DEF SentRight, At
  <2> QED
    BY <2>1, <1>2, <1>3 DEF CommitRight
<1>16. LeftoversRight'
  <2>1. At(Youngest)' = At(Youngest)
    BY <1>2 DEF At, Youngest
  <2>2. ~locked
    BY DEF CommitSend
  <2> QED
    BY <2>1, <2>2, <1>1, <1>2, <1>3, <1>8 DEF LeftoversRight, SendingFile, Items
<1>17. PropBaseRight'
  BY <1>1, <1>2, <1>8, <1>9 DEF PropBaseRight, At
<1> QED
  BY <1>11, <1>12, <1>13, <1>14, <1>15, <1>16, <1>17 DEF PropsInv

\* A commit of the file's text alone is sent.
LEMMA SendText ==
  ASSUME PropsInv, UNCHANGED subject, NEW i \in Items, CommitSend(i), ~PropsModified(i)
  PROVE  PropsInv'
<1>1. PropsType /\ HistoryRight /\ TimesRight /\ ChangesSeen /\ CommitRight /\ LeftoversRight /\ PropBaseRight
  BY DEF PropsInv
<1>2. /\ UNCHANGED <<repos, mtime, ptime, dtime, clock, rev, prej, file, unver>>
      /\ UNCHANGED <<files, ttime, ghost>>
      /\ locked' = TRUE /\ ~locked /\ commit.phase = "idle" /\ i = "f"
  BY DEF CommitSend, TextModified
<1>3. commit' = [phase |-> "sent", item |-> i, rev |-> 0, props |-> FALSE, raced |-> FALSE, changes |-> {}]
  <2>1. PropsModified(i) = FALSE
    BY DEF PropsModified
  <2> QED
    BY <2>1 DEF CommitSend
<1>4. PropsType'
  <2>1. commit' \in CommitType
    BY <1>3 DEF CommitType
  <2> QED
    BY <1>1, <1>2, <2>1 DEF PropsType
<1>5. HistoryRight'
  BY <1>1, <1>2 DEF HistoryRight, Youngest, At
<1>6. TimesRight'
  BY <1>1, <1>2 DEF TimesRight
<1>7. \A j : Work(j)' = Work(j) /\ Base(j)' = Base(j) /\ Tmp(j)' = Tmp(j)
  BY <1>2, Views DEF Tmp
<1>8. ChangesSeen'
  BY <1>1, <1>2, <1>7 DEF ChangesSeen
<1>9. CommitRight'
  BY <1>2, <1>3 DEF CommitRight, NotSentRight
<1>10. LeftoversRight'
  BY <1>1, <1>2, <1>3, <1>7 DEF LeftoversRight, SendingFile, At, Youngest
<1>11. PropBaseRight'
  BY <1>1, <1>2, <1>7 DEF PropBaseRight, At
<1> QED
  BY <1>4, <1>5, <1>6, <1>8, <1>9, <1>10, <1>11 DEF PropsInv

\* The repository accepts: the item is in the new revision with what was sent
\* applied to its youngest properties; a file was not out of date.
LEMMA CommitAcceptedInv ==
  ASSUME PropsInv, UNCHANGED subject, CommitAccepted
  PROVE  PropsInv'
<1> PICK y : y = Youngest
  OBVIOUS
<1> PICK i : i = commit.item
  OBVIOUS
<1>1. PropsType /\ HistoryRight /\ TimesRight /\ ChangesSeen /\ CommitRight /\ LeftoversRight /\ PropBaseRight
  BY DEF PropsInv
<1>2. y \in Nat /\ At(y) \in Revision
  BY <1>1 DEF HistoryRight, PropsType, Youngest, At
<1>3. /\ commit.phase = "sent" /\ (i = "f" => ~(At(y)[i].at > rev[i]))
      /\ repos' = Append(repos, [At(y) EXCEPT
                    ![i] = [props |-> Applied(@.props, commit.changes), at |-> y + 1]])
      /\ locked' = FALSE
      /\ commit' = [commit EXCEPT !.phase = "committed", !.rev = y + 1]
      /\ UNCHANGED <<files, mtime, ttime, ptime, dtime, clock, rev, prej, file, unver, ghost>>
  BY DEF CommitAccepted, OutOfDate, ItemKind
<1>4. commit \in CommitType
  BY <1>1, <1>3 DEF PropsType, Idle
<1>5. i \in Items /\ commit.changes \in SUBSET AllChanges
  BY <1>4 DEF CommitType
<1>p. PICK p : p = Applied(At(y)[i].props, commit.changes)
  OBVIOUS
<1>6. At(y)[i].props \in Props /\ p \in Props
  BY <1>2, <1>5, <1>p, AppliedType DEF Revision
<1>7. repos' = Append(repos, [At(y) EXCEPT ![i] = [props |-> p, at |-> y + 1]])
  BY <1>3, <1>p
<1>8. /\ repos' \in Seq(Revision) /\ HistoryRight'
      /\ Youngest' = y + 1
      /\ \A r \in 0 .. y : At(r)' = At(r)
      /\ At(y + 1)' = [At(y) EXCEPT ![i] = [props |-> p, at |-> y + 1]]
  <2>1. UNCHANGED rev
    BY <1>3
  <2>2. PropsType /\ HistoryRight /\ i \in Items /\ p \in Props
    BY <1>1, <1>5, <1>6
  <2> QED
    BY <1>7, <2>1, <2>2, NewRevision
<1>9. /\ At(y + 1)'[i] = [props |-> p, at |-> y + 1]
      /\ \A j \in Items \ {i} : At(y + 1)'[j] = At(y)[j]
  BY <1>2, <1>5, <1>8 DEF Revision
<1>10. /\ commit' \in CommitType
       /\ commit'.phase = "committed" /\ commit'.item = i /\ commit'.rev = y + 1
       /\ commit'.props = commit.props /\ commit'.changes = commit.changes
       /\ commit'.raced = commit.raced
  <2> PICK ch : ch = commit.changes
    OBVIOUS
  <2> PICK b : b = commit.props
    OBVIOUS
  <2> PICK ra : ra = commit.raced
    OBVIOUS
  <2>1. commit' = [phase |-> "committed", item |-> i, rev |-> y + 1, props |-> b, raced |-> ra, changes |-> ch]
    BY <1>3, <1>4 DEF CommitType
  <2>2. b \in BOOLEAN /\ ra \in BOOLEAN /\ ch \in SUBSET AllChanges
    BY <1>4 DEF CommitType
  <2> QED
    BY <2>1, <2>2, <1>2, <1>5 DEF CommitType
<1>11. \A j : Work(j)' = Work(j) /\ Base(j)' = Base(j) /\ Tmp(j)' = Tmp(j)
  BY <1>3, Views DEF Tmp
<1>12. rev[i] \in 0 .. y /\ y \in 0 .. y
  BY <1>1, <1>2, <1>5 DEF HistoryRight
<1>14. PropsType'
  BY <1>1, <1>3, <1>8, <1>10 DEF PropsType
<1>15. TimesRight'
  BY <1>1, <1>3 DEF TimesRight
<1>16. ChangesSeen'
  BY <1>1, <1>3, <1>11 DEF ChangesSeen
<1>17. CommitRight'
  <2>0. At(commit.rev)' = At(y + 1)' /\ At(commit.rev - 1)' = At(y)
    <3>1. y \in Nat /\ commit'.rev = y + 1 /\ commit'.rev - 1 = y
      BY <1>2, <1>10
    <3>2. At(y)' = At(y)
      BY <1>8, <1>12
    <3> QED
      BY <3>1, <3>2, Zenon DEF At
  <2>1. commit.props => SentRight(i)'
    <3>1. commit.props => SentRight(i)
      BY <1>1, <1>3 DEF CommitRight
    <3> QED
      BY <3>1, <1>3, <1>10, <1>11 DEF SentRight
  <2>2. ~commit.props => NotSentRight(i)'
    <3>1. ~commit.props => NotSentRight(i)
      BY <1>1, <1>3 DEF CommitRight
    <3>2. ~commit.props => Tmp(i) = <<>>
      BY <3>1, <1>1, <1>3 DEF NotSentRight, LeftoversRight, SendingFile
    <3> QED
      BY <3>1, <3>2, <1>10, <1>11 DEF NotSentRight
  <2>3. rev[i] < y + 1 /\ y + 1 \in 0 .. y + 1
    BY <1>2, <1>12
  <2>4. At(y + 1)'[i].props = Applied(At(y)[i].props, commit.changes) /\ At(y + 1)'[i].at = y + 1
    BY <1>9, <1>p
  <2> QED
    BY <2>0, <2>1, <2>2, <2>3, <2>4, <1>3, <1>8, <1>10 DEF CommitRight
<1>18. LeftoversRight'
  <2>0. "f" \in Items /\ rev["f"] \in 0 .. y
    BY <1>1 DEF HistoryRight, Items
  <2>1. At(Youngest)' = At(y + 1)'
    BY <1>8 DEF At
  <2>2. CASE i = "f"
    BY <2>0, <2>1, <2>2, <1>2, <1>3, <1>9 DEF LeftoversRight
  <2>3. CASE i # "f"
    BY <2>0, <2>1, <2>3, <1>1, <1>3, <1>9, <1>10, <1>11 DEF LeftoversRight, SendingFile
  <2> QED
    BY <2>2, <2>3
<1>19. PropBaseRight'
  <2>1. \A j \in Items : rev[j] \in 0 .. y /\ rev'[j] = rev[j] /\ ghost'[j] = ghost[j]
    BY <1>1, <1>3 DEF HistoryRight
  <2>2. \A j \in Items : At(rev[j])' = At(rev[j])
    BY <2>1, <1>3, <1>8 DEF At
  <2> QED
    BY <1>1, <1>11, <2>1, <2>2 DEF PropBaseRight
<1> QED
  BY <1>8, <1>14, <1>15, <1>16, <1>17, <1>18, <1>19 DEF PropsInv

\* The repository refuses: the item is out of date.
LEMMA CommitRefusedInv ==
  ASSUME PropsInv, UNCHANGED subject, CommitRefused
  PROVE  PropsInv'
<1> PICK i : i = commit.item
  OBVIOUS
<1>1. PropsType /\ HistoryRight /\ TimesRight /\ ChangesSeen /\ LeftoversRight /\ PropBaseRight
  BY DEF PropsInv
<1>2. /\ commit.phase = "sent" /\ At(Youngest)[i].at > rev[i]
      /\ files' = IF commit.props THEN [files EXCEPT ![i]["tmp/props"] = <<>>] ELSE files
      /\ locked' = FALSE /\ commit' = Idle
      /\ UNCHANGED <<repos, mtime, ttime, ptime, dtime, clock, rev, prej, file, unver, ghost>>
  BY Paths DEF CommitRefused, OutOfDate
<1>3. i \in Items
  BY <1>1, <1>2 DEF PropsType, Idle, CommitType
<1>4. /\ files' \in [Items -> [Areas -> PropFile]]
      /\ \A j \in Items : /\ files'[j]["props"] = files[j]["props"]
                          /\ files'[j]["prop-base"] = files[j]["prop-base"]
                          /\ files'[j]["tmp/props"] =
                               IF commit.props /\ j = i THEN <<>> ELSE files[j]["tmp/props"]
  <2>1. CASE commit.props
    BY <2>1, <1>1, <1>2, <1>3 DEF PropsType, Areas, PropFile
  <2>2. CASE ~commit.props
    BY <2>2, <1>1, <1>2 DEF PropsType
  <2> QED
    BY <2>1, <2>2
<1>5. \A j \in Items : /\ Work(j)' = Work(j) /\ Base(j)' = Base(j)
                       /\ Tmp(j)' = IF commit.props /\ j = i THEN <<>> ELSE Tmp(j)
  BY <1>4, Views DEF Tmp
<1>6. PropsType'
  BY <1>1, <1>2, <1>4 DEF PropsType
<1>7. HistoryRight'
  BY <1>1, <1>2 DEF HistoryRight, Youngest, At
<1>8. TimesRight'
  BY <1>1, <1>2 DEF TimesRight
<1>9. ChangesSeen'
  BY <1>1, <1>2, <1>5 DEF ChangesSeen
<1>10. CommitRight'
  BY <1>2 DEF CommitRight, Idle
<1>11. LeftoversRight'
  <2>1. At(Youngest)' = At(Youngest)
    BY <1>2 DEF At, Youngest
  <2> QED
    BY <2>1, <1>1, <1>2, <1>3, <1>5 DEF LeftoversRight, SendingFile, Items
<1>12. PropBaseRight'
  BY <1>1, <1>2, <1>5 DEF PropBaseRight, At
<1> QED
  BY <1>6, <1>7, <1>8, <1>9, <1>10, <1>11, <1>12 DEF PropsInv

\* The committing process dies.
LEMMA DieInv ==
  ASSUME PropsInv, UNCHANGED subject, Die
  PROVE  PropsInv'
<1>1. PropsType /\ HistoryRight /\ TimesRight /\ ChangesSeen /\ CommitRight /\ LeftoversRight /\ PropBaseRight
  BY DEF PropsInv
<1>2. /\ commit.phase # "idle" /\ commit' = Idle
      /\ UNCHANGED <<repos, files, mtime, ttime, ptime, dtime, clock, rev, prej>>
      /\ UNCHANGED <<file, unver, locked, ghost>>
  BY DEF Die
<1>3. commit.item \in Items /\ commit.phase \in {"sent", "committed"}
  BY <1>1, <1>2 DEF PropsType, Idle, CommitType
<1>4. \A j : Work(j)' = Work(j) /\ Base(j)' = Base(j) /\ Tmp(j)' = Tmp(j)
  BY <1>2, Views DEF Tmp
<1>5. PropsType'
  BY <1>1, <1>2 DEF PropsType
<1>6. HistoryRight'
  BY <1>1, <1>2 DEF HistoryRight, Youngest, At
<1>7. TimesRight'
  BY <1>1, <1>2 DEF TimesRight
<1>8. ChangesSeen'
  BY <1>1, <1>2, <1>4 DEF ChangesSeen
<1>9. CommitRight'
  BY <1>2 DEF CommitRight, Idle
<1>10. LeftoversRight'
  <2>1. At(Youngest)' = At(Youngest)
    BY <1>2 DEF At, Youngest
  <2>2. CASE commit.phase = "sent"
    BY <2>2, <1>1, <1>2 DEF CommitRight, LeftoversRight, Idle
  <2>3. CASE commit.phase = "committed" /\ SendingFile
    <3> PICK y : y = Youngest
      OBVIOUS
    <3> PICK c : c = commit.rev
      OBVIOUS
    <3>1. c \in 0 .. y /\ rev["f"] < c /\ At(c)["f"].at = c
      BY <2>3, <1>1 DEF CommitRight, SendingFile
    <3>2. y \in Nat /\ y \in 0 .. y /\ "f" \in Items
      BY <1>1 DEF HistoryRight, Youngest, PropsType, Items
    <3>3. At(y)["f"].at <= c => At(y)["f"] = At(c)["f"]
      BY <3>1, <3>2, <1>1 DEF HistoryRight
    <3>4. At(y)["f"].at \in Nat /\ rev["f"] \in Nat
      BY <3>2, <1>1 DEF PropsType, HistoryRight, Youngest, At, Revision
    <3>5. At(y)["f"].at > rev["f"]
      BY <3>1, <3>2, <3>3, <3>4
    <3> QED
      BY <3>5, <2>1, <1>2 DEF LeftoversRight
  <2>4. CASE commit.phase = "committed" /\ ~SendingFile
    BY <2>1, <2>4, <1>1, <1>2, <1>4 DEF LeftoversRight
  <2> QED
    BY <2>2, <2>3, <2>4, <1>3
<1>11. PropBaseRight'
  BY <1>1, <1>2, <1>4 DEF PropBaseRight, At
<1> QED
  BY <1>5, <1>6, <1>7, <1>8, <1>9, <1>10, <1>11 DEF PropsInv

\* svn cleanup.
LEMMA CleanupInv ==
  ASSUME PropsInv, UNCHANGED subject, Cleanup
  PROVE  PropsInv'
<1>1. PropsType /\ HistoryRight /\ TimesRight /\ ChangesSeen /\ PropBaseRight
  BY DEF PropsInv
<1>2. /\ commit.phase = "idle" /\ locked' = FALSE
      /\ files' = [i \in Items |-> [files[i] EXCEPT !["tmp/props"] = <<>>, !["tmp/prop-base"] = <<>>]]
      /\ UNCHANGED <<repos, mtime, ttime, ptime, dtime, clock, rev, prej>>
      /\ UNCHANGED <<file, unver, commit, ghost>>
  BY Paths DEF Cleanup, CleanedUp
<1>3. /\ files' \in [Items -> [Areas -> PropFile]]
      /\ \A j \in Items : /\ files'[j]["props"] = files[j]["props"]
                          /\ files'[j]["prop-base"] = files[j]["prop-base"]
                          /\ files'[j]["tmp/props"] = <<>>
  BY <1>1, <1>2 DEF PropsType, Areas, PropFile
<1>4. \A j \in Items : Work(j)' = Work(j) /\ Base(j)' = Base(j) /\ Tmp(j)' = <<>>
  BY <1>3, Views DEF Tmp
<1>5. PropsType'
  BY <1>1, <1>2, <1>3 DEF PropsType
<1>6. HistoryRight'
  BY <1>1, <1>2 DEF HistoryRight, Youngest, At
<1>7. TimesRight'
  BY <1>1, <1>2 DEF TimesRight
<1>8. ChangesSeen'
  BY <1>1, <1>2, <1>4 DEF ChangesSeen
<1>9. CommitRight'
  BY <1>2 DEF CommitRight
<1>10. LeftoversRight'
  BY <1>4 DEF LeftoversRight, Items
<1>11. PropBaseRight'
  BY <1>1, <1>2, <1>4 DEF PropBaseRight, At
<1> QED
  BY <1>5, <1>6, <1>7, <1>8, <1>9, <1>10, <1>11 DEF PropsInv

\* The log's "committed" command.
LEMMA PostCommitInv ==
  ASSUME PropsInv, UNCHANGED subject, PostCommit
  PROVE  PropsInv'
<1> PICK i : i = commit.item
  OBVIOUS
<1> PICK c : c = commit.rev
  OBVIOUS
<1> PICK b : b = IF Tmp(i) # <<>> THEN Tmp(i) ELSE files[i]["prop-base"]
  OBVIOUS
<1> PICK t : t = IF Tmp(i) # <<>> THEN ChosenTime(i) ELSE 0
  OBVIOUS
<1>1. PropsType /\ HistoryRight /\ TimesRight /\ ChangesSeen /\ CommitRight /\ LeftoversRight /\ PropBaseRight
  BY DEF PropsInv
<1>2. /\ commit.phase = "committed" /\ commit' = Idle
      /\ rev' = [rev EXCEPT ![i] = c] /\ prej' = [prej EXCEPT ![i] = FALSE]
      /\ file' = IF i = "f" THEN [file EXCEPT !.edited = FALSE] ELSE file
      /\ ptime' = [ptime EXCEPT ![i] = t]
      /\ UNCHANGED <<repos, mtime, ttime, dtime, clock, unver, locked>>
      /\ ghost' = [ghost EXCEPT ![i].off = OffAfterCommit(i)]
  BY Paths DEF PostCommit, Tmp
<1>3. commit.item \in Items /\ i \in Items
  BY <1>1, <1>2 DEF PropsType, Idle, CommitType
<1>4. files[i] \in [Areas -> PropFile] /\ b \in PropFile
  BY <1>1, <1>3, FileTypes DEF Tmp, Areas
<1>5. /\ files' \in [Items -> [Areas -> PropFile]]
      /\ files'[i]["props"] = files[i]["props"] /\ files'[i]["prop-base"] = b
      /\ files'[i]["tmp/props"] = <<>>
      /\ \A j \in Items \ {i} : files'[j] = files[j]
  <2>1. CASE Tmp(i) # <<>>
    <3>1. files' = [files EXCEPT ![i] = [files[i] EXCEPT !["prop-base"] = b, !["tmp/props"] = <<>>]]
      BY <2>1, Paths DEF PostCommit, Tmp
    <3>2. [files[i] EXCEPT !["prop-base"] = b, !["tmp/props"] = <<>>] \in [Areas -> PropFile]
      BY <1>4 DEF PropFile
    <3> QED
      BY <3>1, <3>2, <1>1, <1>3, <1>4 DEF PropsType, Areas
  <2>2. CASE Tmp(i) = <<>>
    <3>1. files' = files
      BY <2>2, Paths DEF PostCommit, Tmp
    <3> QED
      BY <2>2, <3>1, <1>1 DEF PropsType, Tmp
  <2> QED
    BY <2>1, <2>2
<1>6. /\ Work(i)' = Work(i) /\ Base(i)' = LoadPropFile(b) /\ Tmp(i)' = <<>>
      /\ \A j \in Items \ {i} : Work(j)' = Work(j) /\ Base(j)' = Base(j) /\ Tmp(j)' = Tmp(j)
  BY <1>5, Views DEF Tmp
<1>7. c \in 0 .. Youngest /\ commit.props \in BOOLEAN /\ commit.raced \in BOOLEAN
      /\ commit.changes \in SUBSET AllChanges
  BY <1>1, <1>2 DEF CommitRight, PropsType, Idle, CommitType
<1>8. /\ commit.props => SentRight(i)
      /\ ~commit.props => NotSentRight(i)
  BY <1>1, <1>2 DEF CommitRight
<1>9. mtime[i] \in Nat /\ ttime[i] \in Nat /\ ghost[i].synced \in Nat /\ ttime[i] <= ghost[i].synced
  BY <1>1, <1>3 DEF PropsType, TimesRight, GhostType
<1>10. t \in Nat /\ t <= ghost[i].synced
  <2>1. CASE Tmp(i) = <<>>
    BY <2>1, <1>9
  <2>2. CASE Tmp(i) # <<>>
    <3>1. t = IF files[i]["props"] = Tmp(i) THEN mtime[i] ELSE ttime[i]
      BY <2>2, Paths DEF ChosenTime, FilesContentsSame, Tmp
    <3>2. files[i]["props"] = Tmp(i) => mtime[i] <= ghost[i].synced
      BY <2>2, <1>2, <1>8 DEF SentRight, NotSentRight
    <3> QED
      BY <3>1, <3>2, <1>9
  <2> QED
    BY <2>1, <2>2
<1>11. Work(i) # LoadPropFile(b) /\ ~ghost[i].fast => t = 0 \/ t < mtime[i]
  <2>1. CASE Tmp(i) = <<>>
    BY <2>1
  <2>2. CASE Tmp(i) # <<>> /\ Work(i) # LoadPropFile(Tmp(i)) /\ ~ghost[i].fast
    <3>1. files[i]["props"] # Tmp(i)
      BY <2>2, Views
    <3>2. t = ttime[i]
      BY <2>2, <3>1, Paths DEF ChosenTime, FilesContentsSame, Tmp
    <3>3. ttime[i] < mtime[i]
      BY <2>2, <1>2, <1>8 DEF SentRight, NotSentRight
    <3> QED
      BY <3>2, <3>3
  <2> QED
    BY <2>1, <2>2
<1> PICK o : o = OffAfterCommit(i)
  OBVIOUS
<1>21. o \in SUBSET Names /\ ghost[i] \in GhostType /\ ghost \in [Items -> GhostType]
  <2>1. ghost[i] \in GhostType /\ ghost \in [Items -> GhostType]
    BY <1>1, <1>3 DEF PropsType
  <2>2. ghost[i].off \in SUBSET Names /\ NamesOf(commit.changes) \in SUBSET Names
        /\ ChangedByOthers(i) \in SUBSET Names
    BY <2>1, <1>7 DEF GhostType, NamesOf, AllChanges, ChangedByOthers
  <2> QED
    BY <2>1, <2>2 DEF OffAfterCommit
<1>22. /\ ghost' \in [Items -> GhostType] /\ \A j \in Items \ {i} : ghost'[j] = ghost[j]
       /\ ghost'[i].off = o /\ ghost'[i].synced = ghost[i].synced /\ ghost'[i].fast = ghost[i].fast
  BY <1>2, <1>3, <1>21 DEF GhostType
<1>12. AgreeBut(LoadPropFile(b), At(c)[i].props, o)
  <2> PICK ch : ch = commit.changes
    OBVIOUS
  <2> PICK q : q = At(c - 1)[i].props
    OBVIOUS
  <2>1. q \in Props /\ At(c)[i].props = Applied(q, ch) /\ Base(i) \in Props /\ ch \in SUBSET AllChanges
    <3>0. rev[i] < c /\ At(c)[i].props = Applied(q, ch)
      BY <1>1, <1>2 DEF CommitRight
    <3>1. rev[i] \in Nat /\ rev[i] < c /\ c \in Nat /\ At(c)[i].props = Applied(q, ch)
      BY <3>0, <1>1, <1>3, <1>7 DEF PropsType
    <3>4. Youngest \in Nat
      BY <1>1 DEF HistoryRight, PropsType, Youngest
    <3>2. c - 1 \in 0 .. Youngest
      BY <3>1, <3>4, <1>7
    <3>3. At(c - 1) \in Revision
      BY <3>2, <1>1 DEF HistoryRight, PropsType, Youngest, At
    <3> QED
      BY <3>1, <3>3, <1>1, <1>3, <1>7, FileTypes DEF Revision
  <2>2. ASSUME NEW n \in Names \ o, n \notin NamesOf(ch)
        PROVE  Base(i)[n] = At(c)[i].props[n]
    <3>1. n \notin ghost[i].off /\ n \notin ChangedByOthers(i)
      BY <2>2 DEF OffAfterCommit
    <3>2. Base(i)[n] = At(rev[i])[i].props[n]
      BY <3>1, <1>1, <1>3 DEF PropBaseRight
    <3>3. q[n] = At(rev[i])[i].props[n]
      BY <3>1 DEF ChangedByOthers
    <3>4. Applied(q, ch)[n] = q[n]
      BY <2>1, <2>2, AppliedNames
    <3> QED
      BY <2>1, <3>2, <3>3, <3>4
  <2>3. CASE commit.props /\ ~commit.raced
    <3>1. LoadPropFile(b) = Applied(Base(i), ch)
      BY <2>3, <1>8 DEF SentRight
    <3>2. ASSUME NEW n \in Names \ o
          PROVE  LoadPropFile(b)[n] = At(c)[i].props[n]
      <4>1. CASE n \in NamesOf(ch)
        BY <2>1, <3>1, <4>1, AppliedNames
      <4>2. CASE n \notin NamesOf(ch)
        BY <2>1, <2>2, <3>1, <4>2, AppliedNames
      <4> QED
        BY <4>1, <4>2
    <3> QED
      BY <3>2 DEF AgreeBut
  <2>4. CASE ~commit.props \/ commit.raced
    <3>1. Tmp(i) = <<>>
      BY <2>4, <1>2, <1>8 DEF SentRight, NotSentRight
    <3>2. LoadPropFile(b) = Base(i)
      BY <3>1, Views
    <3>3. ASSUME NEW n \in Names \ o
          PROVE  n \notin NamesOf(ch)
      <4>1. CASE commit.raced
        BY <4>1 DEF OffAfterCommit
      <4>2. CASE ~commit.props
        <5>1. ch = {}
          BY <4>2, <1>8 DEF NotSentRight
        <5> QED
          BY <5>1 DEF NamesOf
      <4> QED
        BY <2>4, <4>1, <4>2
    <3> QED
      BY <2>2, <3>2, <3>3 DEF AgreeBut
  <2> QED
    BY <2>3, <2>4
<1>13. /\ rev' \in [Items -> Nat] /\ rev'[i] = c /\ \A j \in Items \ {i} : rev'[j] = rev[j]
       /\ ptime' \in [Items -> Nat] /\ ptime'[i] = t /\ \A j \in Items \ {i} : ptime'[j] = ptime[j]
  <2>1. c \in Nat /\ rev \in [Items -> Nat] /\ ptime \in [Items -> Nat]
    BY <1>1, <1>7 DEF PropsType
  <2>2. rev' = [rev EXCEPT ![i] = c] /\ ptime' = [ptime EXCEPT ![i] = t]
    BY <1>2
  <2> QED
    BY <2>1, <2>2, <1>3, <1>10
<1>14. PropsType'
  <2>1. prej' \in [Items -> BOOLEAN]
    BY <1>1, <1>2 DEF PropsType
  <2>2. file' \in [sched : {"normal", "delete"}, present : BOOLEAN, edited : BOOLEAN]
    BY <1>1, <1>2 DEF PropsType
  <2> QED
    BY <1>1, <1>2, <1>5, <1>13, <1>22, <2>1, <2>2 DEF PropsType
<1>15. HistoryRight'
  BY <1>1, <1>2, <1>7, <1>13 DEF HistoryRight, Youngest, At
<1>16. TimesRight'
  BY <1>1, <1>2, <1>3, <1>10, <1>13, <1>22 DEF TimesRight
<1>17. ChangesSeen'
  BY <1>1, <1>2, <1>6, <1>11, <1>13, <1>22 DEF ChangesSeen
<1>18. CommitRight'
  BY <1>2 DEF CommitRight, Idle
<1>19. LeftoversRight'
  <2>1. At(Youngest)' = At(Youngest)
    BY <1>2 DEF At, Youngest
  <2> QED
    BY <2>1, <1>1, <1>2, <1>3, <1>6, <1>13 DEF LeftoversRight, SendingFile, Items
<1>20. PropBaseRight'
  <2>1. \A j \in Items : AgreeBut(Base(j)', At(rev'[j])[j].props, ghost'[j].off)
    <3>1. AgreeBut(Base(i)', At(rev'[i])[i].props, ghost'[i].off)
      BY <1>6, <1>12, <1>13, <1>22
    <3>2. ASSUME NEW j \in Items \ {i}
          PROVE  AgreeBut(Base(j)', At(rev'[j])[j].props, ghost'[j].off)
      <4>1. Base(j)' = Base(j) /\ rev'[j] = rev[j] /\ ghost'[j] = ghost[j]
        BY <1>6, <1>13, <1>22
      <4>2. AgreeBut(Base(j), At(rev[j])[j].props, ghost[j].off)
        BY <1>1 DEF PropBaseRight, AgreeBut
      <4> QED
        BY <4>1, <4>2
    <3> QED
      BY <3>1, <3>2
  <2>2. \A j \in Items : At(rev[j])' = At(rev'[j])
    BY <1>2 DEF At
  <2> QED
    BY <2>1, <2>2 DEF PropBaseRight, AgreeBut
<1> QED
  BY <1>14, <1>15, <1>16, <1>17, <1>18, <1>19, <1>20 DEF PropsInv

----------------------------------------------------------------------------
\* A working copy just checked out.
LEMMA InitInv == PropsInit => PropsInv
<1> SUFFICES ASSUME PropsInit PROVE PropsInv
  OBVIOUS
<1> PICK rv : rv = [i \in Items |-> [props |-> NoProps, at |-> 0]]
  OBVIOUS
<1>1. NoProps \in Props
  BY DEF NoProps, Props
<1>2. rv \in Revision /\ \A i \in Items : rv[i].props = NoProps /\ rv[i].at = 0
  BY <1>1 DEF Revision
<1>3. repos = <<rv>> /\ repos \in Seq(Revision) /\ Len(repos) = 1 /\ Youngest = 0 /\ At(0) = rv
  BY <1>2 DEF PropsInit, Youngest, At
<1>4. \A i \in Items : \A a \in Areas : files[i][a] = <<>>
  BY DEF PropsInit
<1>5. \A i \in Items : Work(i) = NoProps /\ Base(i) = NoProps /\ Tmp(i) = <<>>
  BY <1>4, Views DEF LoadPropFile, Tmp, Areas
<1>6. PropsType
  <2>1. files \in [Items -> [Areas -> PropFile]]
    BY DEF PropsInit, PropFile
  <2>2. ghost \in [Items -> GhostType]
    BY DEF PropsInit, GhostInit, GhostType
  <2> QED
    BY <1>3, <2>1, <2>2 DEF PropsType, PropsInit
<1>7. HistoryRight
  BY <1>2, <1>3 DEF HistoryRight, PropsInit
<1>8. TimesRight
  BY DEF TimesRight, PropsInit, GhostInit
<1>9. ChangesSeen
  BY <1>5 DEF ChangesSeen
<1>10. CommitRight
  BY DEF CommitRight, PropsInit, Idle
<1>11. LeftoversRight
  BY <1>5 DEF LeftoversRight, Items
<1>12. PropBaseRight
  BY <1>2, <1>3, <1>5 DEF PropBaseRight, PropsInit
<1> QED
  BY <1>6, <1>7, <1>8, <1>9, <1>10, <1>11, <1>12 DEF PropsInv

\* Every step keeps the invariant.
LEMMA NextInv == PropsInv /\ [PropsNext]_propVars => PropsInv'
<1> SUFFICES ASSUME PropsInv, [PropsNext]_propVars PROVE PropsInv'
  OBVIOUS
<1>1. subject \in Items
  BY DEF PropsInv, PropsType
<1>2. CASE UNCHANGED propVars
  <2>1. /\ clock \in Nat /\ dtime \in Nat /\ dtime <= clock /\ prej \in [Items -> BOOLEAN]
        /\ unver \in BOOLEAN /\ clock >= clock
        /\ file \in [sched : {"normal", "delete"}, present : BOOLEAN, edited : BOOLEAN]
    BY DEF PropsInv, PropsType, TimesRight
  <2> QED
    BY <1>2, <2>1, Untouched DEF propVars
<1>3. CASE PropsNext
  <2>0. UNCHANGED subject
    BY <1>3 DEF PropsNext
  <2>1. CASE \E n \in Names, v \in Values \cup {NoVal} : PropSet(subject, n, v) \/ OtherCommit(subject, n, v)
    BY <2>0, <2>1, <1>1, PropSetInv, OtherCommitInv
  <2>2. CASE DropUnversioned \/ Tick \/ EditText \/ \E s \in BOOLEAN : RemoveFile(s)
    BY <2>0, <2>2, PlainSteps
  <2>3. CASE Revert(subject)
    BY <2>0, <2>3, <1>1, RevertInv
  <2>4. CASE CommitSend(subject)
    BY <2>0, <2>4, <1>1, SendProps, SendText
  <2>5. CASE \E r \in 0 .. Youngest, b \in BOOLEAN : UpdateDir(r, b) \/ UpdateFile(r, b)
    BY <2>0, <2>5, UpdateDirInv, UpdateFileInv
  <2>6. CASE \E r, s \in 0 .. Youngest : MergePropDiffs(subject, r, s)
    BY <2>0, <2>6, <1>1, MergePropDiffsInv
  <2>7. CASE CommitAccepted \/ CommitRefused \/ PostCommit \/ Die \/ Cleanup
    BY <2>0, <2>7, CommitAcceptedInv, CommitRefusedInv, PostCommitInv, DieInv, CleanupInv
  <2> QED
    BY <1>3, <2>1, <2>2, <2>3, <2>4, <2>5, <2>6, <2>7 DEF PropsNext
<1> QED
  BY <1>2, <1>3

\* What status passes over is unchanged.
LEMMA StatusRight ==
  ASSUME PropsInv
  PROVE  StatusShowsChanges
<1>1. PropsType /\ ChangesSeen
  BY DEF PropsInv
<1> SUFFICES ASSUME NEW i \in Items \ Statuses
             PROVE  /\ Work(i) = Base(i) \/ ghost[i].fast
                    /\ Present(i) /\ ~TextModified(i) /\ Schedule(i) = "normal"
  BY DEF StatusShowsChanges
<1>2. TextStatus(i) \in {"none", "normal"} /\ PropStatus(i) \in {"none", "normal"}
  BY DEF Statuses, Interesting
<1>3. Schedule(i) \in {"normal", "delete"}
  BY <1>1 DEF Schedule, PropsType
<1>4. Schedule(i) = "normal" /\ Present(i) /\ ~TextModified(i)
  BY <1>2, <1>3 DEF TextStatus, DiscoveredText, ScheduledStatus
<1>5. ~PropsModified(i)
  BY <1>2, <1>4 DEF PropStatus, DiscoveredProp
<1>6. Work(i) = Base(i) \/ ghost[i].fast
  BY <1>1, <1>5, UnmodifiedSame
<1> QED
  BY <1>4, <1>6

\* The inductive invariant of the properties of a working copy.
THEOREM PropsInvariant == PropsSpec => []PropsInv
BY InitInv, NextInv, PTL DEF PropsSpec

\* The pristine value of every property that is not off is that of the revision
\* the item's entry names, and `svn status' passes over no change (props.c,
\* status.c, log.c).
THEOREM PropsAreRight == PropsSpec => []PropsRight
<1>1. PropsInv => PropsRight
  BY StatusRight DEF PropsRight, PropsInv
<1> QED
  BY <1>1, PropsInvariant, PTL

=============================================================================
