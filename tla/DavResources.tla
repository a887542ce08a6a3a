--------------------------- MODULE DavResources ---------------------------
(***************************************************************************)
(* The resources of the Apache module and the questions a network client    *)
(* asks of them: how mod_dav_svn turns a URI into a resource (repos.c,       *)
(* util.c), which properties it reports of one (liveprops.c), and how        *)
(* libsvn_ra_dav finds, by a series of PROPFIND requests, where a path of a  *)
(* revision is to be read (props.c).                                         *)
(*                                                                           *)
(* A request is one step; other clients commit, and answers get lost,        *)
(* between two of them.  A URI is the sequence of its components below the   *)
(* repository's location; revisions and node ID's occur in it by name, as    *)
(* the text they are printed as.  mod_dav itself, and neon, are external:    *)
(* a resource that cannot be prepared or does not exist fails the request.   *)
(***************************************************************************)
EXTENDS Integers, Sequences, SequencesExt, FiniteSets

CONSTANTS
  DavPaths,    \* the paths of the repository, the root <<>> among them
  RevNames,    \* revision r is written RevNames[r + 1]
  IdNames,     \* node i is written IdNames[i]
  Activities,  \* the activities' names
  Imported,    \* what revision 1 holds: path -> kind
  MaxDavRev,   \* bounds: revisions,
  MaxTxns,     \* transactions
  MaxLost      \* and answers that get lost

Special == "$svn"
Empty == ""     \* the empty text: no component, no label, no name

\* Names and paths are of components that are not empty, and none of the
\* repository's paths is below the special URI; two numbers are not written
\* alike.  There are names for all the bounds allow.
Components(s) == s \in Seq(Range(s)) /\ Empty \notin Range(s)

ASSUME DavConstants ==
  /\ \A p \in DavPaths : Components(p) /\ (p # <<>> => p[1] # Special)
  /\ DOMAIN Imported \subseteq DavPaths /\ IsFiniteSet(DOMAIN Imported)
  /\ \A p \in DOMAIN Imported : Imported[p] \in {"dir", "file"}
  /\ <<>> \in DOMAIN Imported
  /\ Components(RevNames) /\ IsInjective(RevNames) /\ MaxDavRev < Len(RevNames)
  /\ Components(IdNames) /\ IsInjective(IdNames)
  /\ Cardinality(DOMAIN Imported) < Len(IdNames)
  /\ Empty \notin Activities
  /\ MaxDavRev \in Nat \ {0} /\ MaxTxns \in Nat /\ MaxLost \in Nat

VARIABLES
  drevs,       \* the revisions: drevs[r + 1] maps the paths of r to nodes
  dnodes,      \* the nodes ever made: [kind, created, pred]
  dacts,       \* dav/activities: activity -> transaction, 0 for none
  dtxns,       \* the transactions: [open, base]
  ask,         \* svn_ra_dav__get_baseline_info, as far as it has come
  answer,      \* what it returned
  held,        \* the version and the working resource URL's the client keeps
  lost         \* answers lost so far

davVars == <<drevs, dnodes, dacts, dtxns, ask, answer, held, lost>>

Latest == -1
DavYoungest == Len(drevs) - 1
DavTree(r) == drevs[r + 1]
NodeKind(id) == dnodes[id].kind

----------------------------------------------------------------------------
(* URI's *)

IndexIn(names, s) == SelectInSeq(names, LAMBDA n : n = s)

\* SVN_STR_TO_REV is atol: what is not a number is revision 0.
StrToRev(s) == IF IndexIn(RevNames, s) > 0 THEN IndexIn(RevNames, s) - 1 ELSE 0
ParseId(s) == IndexIn(IdNames, s)

BuildUri(what, rev, id, path) ==
  CASE what = "act" -> <<Special, "act">>
    [] what = "bln" -> <<Special, "bln", RevNames[rev + 1]>>
    [] what = "bc" -> <<Special, "bc", RevNames[rev + 1], Empty>>
    [] what = "public" -> path
    [] what = "ver" -> <<Special, "ver", IdNames[id]>> \o path
    [] what = "vcc" -> <<Special, "vcc", "default">>

NoResource ==
  [type |-> "none", restype |-> Empty, baselined |-> FALSE, rev |-> Latest, id |-> 0,
   path |-> <<>>, act |-> Empty, exists |-> FALSE, coll |-> FALSE, uri |-> <<>>]
Failed == [NoResource EXCEPT !.type = "error"]

\* The part of a URI after "$svn/ver/": NODE_ID/REPOS_PATH.
ParseVersionUri(rest) ==
  IF ParseId(rest[1]) = 0 THEN Failed
  ELSE [NoResource EXCEPT !.type = "version", !.id = ParseId(rest[1]), !.path = Tail(rest)]

ParseHistoryUri(rest) == [NoResource EXCEPT !.type = "history", !.path = rest]

\* ACTIVITY_ID/REPOS_PATH
ParseWorkingUri(rest) ==
  [NoResource EXCEPT !.type = "working", !.act = rest[1], !.path = Tail(rest)]

ParseActivityUri(rest) ==
  [NoResource EXCEPT !.type = "activity", !.act = IF Len(rest) = 1 THEN rest[1] ELSE Empty]

\* "default": the configuration, or with a Label header one of its baselines.
ParseVccUri(rest, label) ==
  IF rest # <<"default">> THEN Failed
  ELSE IF label = Empty THEN [NoResource EXCEPT !.type = "private", !.restype = "vcc",
                                             !.exists = TRUE, !.baselined = TRUE]
  ELSE [NoResource EXCEPT !.type = "version", !.baselined = TRUE, !.rev = StrToRev(label)]

ParseBaselineCollUri(rest) ==
  [NoResource EXCEPT !.type = "regular", !.rev = StrToRev(rest[1]), !.path = Tail(rest)]

ParseBaselineUri(rest) ==
  [NoResource EXCEPT !.type = "version", !.baselined = TRUE, !.rev = StrToRev(rest[1])]

\* ACTIVITY_ID/REVISION
ParseWrkBaselineUri(rest) ==
  IF Len(rest) < 2 THEN Failed
  ELSE [NoResource EXCEPT !.type = "working", !.baselined = TRUE,
                          !.act = rest[1], !.rev = StrToRev(rest[2])]

SpecialSubdirs == {"ver", "his", "wrk", "act", "vcc", "bc", "bln", "wbl"}

ParseSpecial(dir, rest, label) ==
  CASE dir = "ver" -> ParseVersionUri(rest)
    [] dir = "his" -> ParseHistoryUri(rest)
    [] dir = "wrk" -> ParseWorkingUri(rest)
    [] dir = "act" -> ParseActivityUri(rest)
    [] dir = "vcc" -> ParseVccUri(rest, label)
    [] dir = "bc" -> ParseBaselineCollUri(rest)
    [] dir = "bln" -> ParseBaselineUri(rest)
    [] dir = "wbl" -> ParseWrkBaselineUri(rest)

\* dav_svn_parse_uri.  "$svn" alone is taken for a path of the repository: the
\* test for it asks for a URI longer than the name.
ParseUri(uri, label) ==
  IF Len(uri) > 1 /\ uri[1] = Special
  THEN IF uri[2] \notin SpecialSubdirs THEN Failed
       ELSE IF Len(uri) = 2 THEN [NoResource EXCEPT !.type = "private", !.restype = uri[2]]
       ELSE ParseSpecial(uri[2], SubSeq(uri, 3, Len(uri)), label)
  ELSE [NoResource EXCEPT !.type = "regular", !.path = uri]

NoInfo == [ok |-> FALSE, act |-> Empty, id |-> 0, path |-> <<>>]

\* dav_svn_simple_parse_uri, which reads the URI's in a request's headers and
\* body: a public path, an activity or a version resource.
SimpleParseUri(uri) ==
  IF uri = <<>> \/ uri = <<Special>> THEN NoInfo
  ELSE IF uri[1] # Special THEN [NoInfo EXCEPT !.ok = TRUE, !.path = uri]
  ELSE IF Len(uri) < 3 THEN NoInfo
  ELSE CASE uri[2] = "act" -> [NoInfo EXCEPT !.ok = TRUE, !.act = uri[3]]
         [] uri[2] = "ver" -> [NoInfo EXCEPT !.ok = ParseId(uri[3]) # 0, !.id = ParseId(uri[3]),
                                             !.path = SubSeq(uri, 4, Len(uri))]
         [] OTHER -> NoInfo

----------------------------------------------------------------------------
(* Preparing a resource *)

\* The youngest revision unless the URI names one; there is no resource that
\* does not exist.
PrepRegular(res) ==
  LET rev == IF res.rev = Latest THEN DavYoungest ELSE res.rev
  IN  IF rev > DavYoungest \/ res.path \notin DOMAIN DavTree(rev) THEN Failed
      ELSE [res EXCEPT !.rev = rev, !.exists = TRUE, !.id = DavTree(rev)[res.path],
                       !.coll = NodeKind(DavTree(rev)[res.path]) = "dir"]

\* By node ID; or a baseline, whose revision is not looked for.
PrepVersion(res) ==
  IF res.id # 0
  THEN IF res.id > Len(dnodes) THEN res
       ELSE [res EXCEPT !.exists = TRUE, !.coll = NodeKind(res.id) = "dir"]
  ELSE LET rev == IF res.rev = Latest THEN DavYoungest ELSE res.rev
       IN  [res EXCEPT !.rev = rev, !.exists = TRUE, !.uri = BuildUri("bln", rev, 0, <<>>)]

GetTxn(act) == IF act \in Activities THEN dacts[act] ELSE 0

PrepWorking(res) ==
  LET t == GetTxn(res.act)
  IN  IF t = 0 THEN Failed
      ELSE IF ~dtxns[t].open THEN Failed
      ELSE IF res.baselined THEN [res EXCEPT !.exists = TRUE]
      ELSE IF res.path \notin DOMAIN DavTree(dtxns[t].base) THEN res
      ELSE LET id == DavTree(dtxns[t].base)[res.path]
           IN  [res EXCEPT !.exists = TRUE, !.id = id, !.coll = NodeKind(id) = "dir"]

PrepActivity(res) == [res EXCEPT !.exists = GetTxn(res.act) # 0]

PrepResource(res) ==
  CASE res.type = "regular" -> PrepRegular(res)
    [] res.type = "version" -> PrepVersion(res)
    [] res.type = "working" -> PrepWorking(res)
    [] res.type = "activity" -> PrepActivity(res)
    [] OTHER -> res

\* A collection's URI may end in a slash, and a path joined to it doubles it:
\* components that are empty are dropped.
Clean(uri) ==
  LET upTo[i \in 0 .. Len(uri)] ==
        IF i = 0 THEN <<>> ELSE IF uri[i] = Empty THEN upTo[i - 1] ELSE Append(upTo[i - 1], uri[i])
  IN  upTo[Len(uri)]

\* dav_svn_get_resource: parse, and prepare.
GetResource(uri, label) ==
  LET res == ParseUri(Clean(uri), label)
  IN  IF res.type = "error" THEN Failed ELSE PrepResource([res EXCEPT !.uri = Clean(uri)])

----------------------------------------------------------------------------
(* Live properties *)

NoProp == <<>>
Prop(v) == <<v>>

VersionName(res) ==
  IF res.type = "regular" \/ res.type = "version" \/ res.type = "working"
  THEN Prop(IF res.baselined THEN res.rev ELSE dnodes[res.id].created) ELSE NoProp

BaselineCollection_Youngest(res) ==
  IF res.type = "version" /\ res.baselined
  THEN Prop(BuildUri("bc", DavYoungest, 0, <<>>)) ELSE NoProp

\* Only of baselines.
BaselineCollection(res) ==
  IF res.type = "version" /\ res.baselined
  THEN Prop(BuildUri("bc", res.rev, 0, <<>>)) ELSE NoProp

CheckedIn_ByPath(res) ==
  CASE res.type = "private" /\ res.restype = "vcc" -> Prop(BuildUri("bln", DavYoungest, 0, <<>>))
    [] res.type = "regular" -> Prop(BuildUri("public", 0, 0, res.path))
    [] OTHER -> NoProp

\* The latest baseline of the configuration; the node of a path, with the path.
CheckedIn(res) ==
  CASE res.type = "private" /\ res.restype = "vcc" -> Prop(BuildUri("bln", DavYoungest, 0, <<>>))
    [] res.type = "regular" -> Prop(BuildUri("ver", 0, res.id, res.path))
    [] OTHER -> NoProp

Vcc(res) == IF res.type = "regular" THEN Prop(BuildUri("vcc", 0, 0, <<>>)) ELSE NoProp
RelativePath(res) == IF res.type = "regular" THEN Prop(res.path) ELSE NoProp

\* dav_svn_walk below a regular collection, to Depth 1: the collection, and
\* each name in it with a URI, a path and a kind of its own.
Walk(root) ==
  LET tree == DavTree(root.rev)
      names == {p \in DOMAIN tree : p # <<>> /\ Front(p) = root.path}
  IN  {[uri |-> root.uri, path |-> root.path, coll |-> TRUE]}
      \cup {[uri |-> Append(root.uri, Last(p)), path |-> p, coll |-> NodeKind(tree[p]) = "dir"] : p \in names}

----------------------------------------------------------------------------
(* The client's requests *)

NoAsk == [step |-> "idle", path |-> <<>>, rev |-> Latest, left |-> <<>>, lopped |-> <<>>,
          cuts |-> 0, rel |-> <<>>, bln |-> <<>>, bc |-> <<>>, got |-> Latest, start |-> 0, hurt |-> FALSE]
NoAnswer == [ok |-> FALSE, path |-> <<>>, rev |-> Latest, rel |-> <<>>, bc |-> <<>>, got |-> Latest,
             dir |-> FALSE, cuts |-> 0, start |-> 0, end |-> 0, hurt |-> FALSE, listing |-> {}]
NoUrl == [uri |-> <<>>, rev |-> 0, path |-> <<>>, act |-> Empty, txn |-> 0]

\* What the client takes from a response (start_element, end_element): the
\* hrefs under the name of the element around them, texts, the kind.
Propset(res) ==
  [vcc |-> Vcc(res), rel |-> RelativePath(res), checked |-> CheckedIn(res),
   bc |-> BaselineCollection(res), name |-> VersionName(res), coll |-> res.coll]

GetProps(uri, label) ==
  LET res == GetResource(uri, label)
  IN  IF res.type # "error" /\ res.exists THEN Prop(Propset(res)) ELSE NoProp

\* Anything but an answer is SVN_ERR_RA_REQUEST_FAILED, a timeout as much as a
\* resource that is not there.
GetPropsResource(uri, label, set) ==
  \/ set = GetProps(uri, label) /\ UNCHANGED lost
  \/ set = NoProp /\ lost < MaxLost /\ lost' = lost + 1

Return(a) ==
  /\ ask' = NoAsk
  /\ answer' = [NoAnswer EXCEPT !.path = ask.path, !.rev = ask.rev, !.rel = ask.rel, !.bc = ask.bc,
       !.got = ask.got, !.cuts = ask.cuts, !.start = ask.start, !.end = DavYoungest,
       !.ok = a.ok, !.dir = a.dir, !.hurt = a.hurt]
Gives(dir) == [ok |-> TRUE, dir |-> dir, hurt |-> ask.hurt]
Error == [ok |-> FALSE, dir |-> FALSE, hurt |-> ask.hurt \/ lost' # lost]

\* The client asks, as for an update, before it keeps a URL; it uses that for a
\* commit.
StartInfo(p, r) ==
  /\ ask.step = "idle" /\ held.ver = NoUrl
  /\ ask' = [NoAsk EXCEPT !.step = "start", !.path = p, !.rev = r, !.left = p, !.start = DavYoungest]
  /\ answer' = NoAnswer
  /\ UNCHANGED <<drevs, dnodes, dacts, dtxns, held, lost>>

\* The properties of the public resource; when that fails, of its parent.  The
\* names cut off are joined behind those cut off before.
FindStart ==
  /\ ask.step = "start"
  /\ \E set \in {GetProps(ask.left, Empty), NoProp} :
       /\ GetPropsResource(ask.left, Empty, set)
       /\ IF set # NoProp /\ set[1].vcc # NoProp /\ set[1].rel # NoProp
          THEN /\ ask' = [ask EXCEPT !.step = IF ask.rev = Latest THEN "checked" ELSE "baseline",
                                     !.rel = set[1].rel[1] \o ask.lopped, !.bln = set[1].vcc[1]]
               /\ UNCHANGED answer
          ELSE IF set = NoProp /\ ask.left # <<>>
          THEN /\ ask' = [ask EXCEPT !.left = Front(@), !.cuts = @ + 1,
                                     !.lopped = Append(@, Last(ask.left)),
                                     !.hurt = @ \/ lost' # lost]
               /\ UNCHANGED answer
          ELSE Return(Error)
  /\ UNCHANGED <<drevs, dnodes, dacts, dtxns, held>>

\* DAV:checked-in of the configuration: the latest baseline.
FetchCheckedIn ==
  /\ ask.step = "checked"
  /\ \E set \in {GetProps(ask.bln, Empty), NoProp} :
       /\ GetPropsResource(ask.bln, Empty, set)
       /\ IF set # NoProp /\ set[1].checked # NoProp
          THEN ask' = [ask EXCEPT !.step = "baseline", !.bln = set[1].checked[1]] /\ UNCHANGED answer
          ELSE Return(Error)
  /\ UNCHANGED <<drevs, dnodes, dacts, dtxns, held>>

\* The baseline's collection and revision; a given revision is the Label of a
\* request to the configuration.
FetchBaseline ==
  /\ ask.step = "baseline"
  /\ LET label == IF ask.rev = Latest THEN Empty ELSE RevNames[ask.rev + 1]
     IN \E set \in {GetProps(ask.bln, label), NoProp} :
          /\ GetPropsResource(ask.bln, label, set)
          /\ IF set # NoProp /\ set[1].bc # NoProp /\ set[1].name # NoProp
             THEN /\ ask' = [ask EXCEPT !.step = "kind", !.bc = set[1].bc[1], !.got = set[1].name[1]]
                  /\ UNCHANGED answer
             ELSE Return(Error)
  /\ UNCHANGED <<drevs, dnodes, dacts, dtxns, held>>

FetchKind ==
  /\ ask.step = "kind"
  /\ \E set \in {GetProps(ask.bc \o ask.rel, Empty), NoProp} :
       /\ GetPropsResource(ask.bc \o ask.rel, Empty, set)
       /\ Return(IF set # NoProp THEN Gives(set[1].coll) ELSE Error)
  /\ UNCHANGED <<drevs, dnodes, dacts, dtxns, held>>

\* svn_ra_dav__do_check_path takes any failure for a path that is not there.
CheckPath(a) == IF ~a.ok THEN "none" ELSE IF a.dir THEN "dir" ELSE "file"

\* begin_checkout: a PROPFIND of Depth 1 on the baseline collection just found.
ListDirectory ==
  /\ ask.step = "idle" /\ answer.ok /\ answer.dir /\ answer.listing = {}
  /\ LET res == GetResource(answer.bc \o answer.rel, Empty)
     IN answer' = [answer EXCEPT !.listing = Walk(res)]
  /\ UNCHANGED <<drevs, dnodes, dacts, dtxns, ask, held, lost>>

\* The client keeps the version resource's URL of what it has just found.
FetchVersionUrl ==
  /\ ask.step = "idle" /\ answer.ok /\ answer.cuts <= 1
  /\ LET res == GetResource(answer.bc \o answer.rel, Empty)
     IN held' = [held EXCEPT !.ver = [NoUrl EXCEPT !.uri = Propset(res).checked[1], !.rev = answer.got,
                                                   !.path = answer.path]]
  /\ answer' = NoAnswer
  /\ UNCHANGED <<drevs, dnodes, dacts, dtxns, ask, lost>>

\* MKACTIVITY, of an activity that is not there yet.  That the record could
\* not be stored is not noticed.
MakeActivity(a) ==
  /\ held.ver # NoUrl /\ Len(dtxns) < MaxTxns
  /\ ~GetResource(<<Special, "act", a>>, Empty).exists
  /\ dtxns' = Append(dtxns, [open |-> TRUE, base |-> DavYoungest])
  /\ \/ dacts' = [dacts EXCEPT ![a] = Len(dtxns')] /\ UNCHANGED lost
     \/ lost < MaxLost /\ lost' = lost + 1 /\ UNCHANGED dacts
  /\ UNCHANGED <<drevs, dnodes, ask, answer, held>>

\* The transaction is committed or aborted; the activity's record stays.
EndTxn(t) ==
  /\ t \in DOMAIN dtxns /\ dtxns[t].open
  /\ dtxns' = [dtxns EXCEPT ![t].open = FALSE]
  /\ UNCHANGED <<drevs, dnodes, dacts, ask, answer, held, lost>>

\* svn_fs_txn_path_is_id
SameNode(t, path, id) ==
  LET tree == DavTree(dtxns[t].base)
  IN  path \in DOMAIN tree
      /\ (tree[path] = id \/ (dnodes[tree[path]].pred = id /\ NodeKind(tree[path]) = "dir"))

CreateWorkingResource(res, act) ==
  IF res.baselined THEN <<Special, "wbl", act, RevNames[res.rev + 1]>>
  ELSE <<Special, "wrk", act>> \o res.path

\* CHECKOUT of the version resource into an activity.
Checkout(a) ==
  /\ held.ver # NoUrl
  /\ LET res == GetResource(held.ver.uri, Empty)
         info == SimpleParseUri(<<Special, "act", a>>)
         t == GetTxn(info.act)
     IN /\ res.type = "version" /\ res.exists
        /\ info.ok /\ t # 0 /\ dtxns[t].open
        /\ SameNode(t, res.path, res.id)
        /\ held' = [held EXCEPT !.wrk = [NoUrl EXCEPT !.uri = CreateWorkingResource(res, info.act),
                                           !.path = held.ver.path, !.act = a, !.txn = t]]
  /\ UNCHANGED <<drevs, dnodes, dacts, dtxns, ask, answer, lost>>

----------------------------------------------------------------------------
(* Other clients' commits: one path made, changed or deleted.  The nodes of  *)
(* the path and of the directories above it are new.                         *)

Replacing(p, kept, kinds) ==
  LET n == Len(dnodes)
      tree == DavTree(DavYoungest)
      new == {SubSeq(p, 1, k) : k \in 0 .. Len(kinds) - 1}
      old(q) == IF q \in DOMAIN tree THEN tree[q] ELSE 0
  IN  /\ n + Len(kinds) <= Len(IdNames)   \* bound: names for nodes
      /\ drevs' = Append(drevs, [q \in kept \cup new |-> IF q \in new THEN n + 1 + Len(q) ELSE tree[q]])
      /\ dnodes' = dnodes \o [i \in DOMAIN kinds |->
                     [kind |-> kinds[i], created |-> DavYoungest + 1, pred |-> old(SubSeq(p, 1, i - 1))]]

DirsAbove(p) == [i \in 1 .. Len(p) |-> "dir"]

OtherPut(p, kind) ==
  /\ DavYoungest < MaxDavRev /\ p # <<>>
  /\ LET tree == DavTree(DavYoungest)
     IN /\ Front(p) \in DOMAIN tree /\ NodeKind(tree[Front(p)]) = "dir"
        /\ p \in DOMAIN tree => NodeKind(tree[p]) = "file" /\ kind = "file"
        /\ Replacing(p, DOMAIN tree, Append(DirsAbove(p), kind))
  /\ UNCHANGED <<dacts, dtxns, ask, answer, held, lost>>

OtherDelete(p) ==
  /\ DavYoungest < MaxDavRev /\ p # <<>>
  /\ LET tree == DavTree(DavYoungest)
     IN /\ p \in DOMAIN tree
        /\ Replacing(p, {q \in DOMAIN tree : ~IsPrefix(p, q)}, DirsAbove(p))
  /\ UNCHANGED <<dacts, dtxns, ask, answer, held, lost>>

\* Revision 0, and an import.
DavInit ==
  /\ LET order == SetToSeq(DOMAIN Imported)
     IN /\ drevs = <<[p \in {<<>>} |-> 1], [p \in DOMAIN Imported |-> IndexIn(order, p) + 1]>>
        /\ dnodes = <<[kind |-> "dir", created |-> 0, pred |-> 0]>> \o [i \in DOMAIN order |->
             [kind |-> Imported[order[i]], created |-> 1, pred |-> IF order[i] = <<>> THEN 1 ELSE 0]]
  /\ dacts = [a \in Activities |-> 0]
  /\ dtxns = <<>>
  /\ ask = NoAsk
  /\ answer = NoAnswer
  /\ held = [ver |-> NoUrl, wrk |-> NoUrl]
  /\ lost = 0

DavNext ==
  \/ \E p \in DavPaths, r \in {Latest} \cup (0 .. MaxDavRev) : StartInfo(p, r)
  \/ FindStart \/ FetchCheckedIn \/ FetchBaseline \/ FetchKind
  \/ ListDirectory \/ FetchVersionUrl
  \/ \E a \in Activities : MakeActivity(a) \/ Checkout(a)
  \/ \E t \in DOMAIN dtxns : EndTxn(t)
  \/ \E p \in DavPaths : OtherPut(p, "file") \/ OtherPut(p, "dir") \/ OtherDelete(p)

DavSpec == DavInit /\ [][DavNext]_davVars

----------------------------------------------------------------------------
(* Properties *)

\* svn_ra_dav__get_baseline_info and svn_ra_dav__do_check_path tell the truth
\* whatever others commit between their requests: what they return is the
\* asked path in one revision, the asked one or one that was the youngest
\* while they ran, and the collection read from there is that revision's; they
\* report nothing there only if nothing is, or an answer was lost.  This is
\* said of calls that had to go up one directory at most: see the README for
\* the ones that had to go further.
AnswerTrue ==
  answer # NoAnswer /\ answer.cuts <= 1 =>
    LET r == IF answer.rev = Latest THEN answer.got ELSE answer.rev
        tree == DavTree(r)
    IN  IF answer.ok
        THEN /\ answer.rel = answer.path /\ answer.got = r
             /\ answer.rev = Latest => r \in answer.start .. answer.end
             /\ answer.path \in DOMAIN tree
             /\ CheckPath(answer) = NodeKind(tree[answer.path])
             /\ answer.listing # {} => answer.listing =
                  {[uri |-> Clean(answer.bc) \o p, path |-> p, coll |-> NodeKind(tree[p]) = "dir"] :
                     p \in {q \in DOMAIN tree : q = answer.path \/ (q # <<>> /\ Front(q) = answer.path)}}
        ELSE \/ answer.hurt
             \/ IF answer.rev = Latest
                THEN \E s \in answer.start .. answer.end : answer.path \notin DOMAIN DavTree(s)
                ELSE answer.rev > answer.start \/ answer.path \notin DOMAIN DavTree(answer.rev)

\* A URL the server gave to the client stays what it was given for, whatever is
\* committed later: the version resource of a path is its node in the revision
\* the client saw, to the parser of request lines as to that of headers; a
\* working resource is the path in the activity's transaction, until that ends.
UrlsStable ==
  /\ held.ver # NoUrl =>
       LET id == DavTree(held.ver.rev)[held.ver.path]
           res == GetResource(held.ver.uri, Empty)
           info == SimpleParseUri(held.ver.uri)
       IN  /\ res.type = "version" /\ res.exists /\ res.id = id /\ res.path = held.ver.path
           /\ res.coll = (NodeKind(id) = "dir")
           /\ info.ok /\ info.id = id /\ info.path = held.ver.path
  /\ held.wrk # NoUrl =>
       LET res == GetResource(held.wrk.uri, Empty)
       IN  IF dtxns[held.wrk.txn].open
           THEN res.type = "working" /\ res.exists /\ res.path = held.wrk.path
                /\ dacts[res.act] = held.wrk.txn
           ELSE res.type = "error"
============================================================================
