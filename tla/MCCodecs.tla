----------------------------- MODULE MCCodecs -----------------------------
(***************************************************************************)
(* The conversions, one machine or set of samples at a time: which says      *)
(* whose turn it is, and the variables of the others stay as they are.       *)
(***************************************************************************)
EXTENDS TextDelta, XmlDelta, Encodings, WcTranslate, CommitDriver

VARIABLE which

\* As sources and targets of each other: windows of several instructions, with
\* inserts before and after copies, copies of the source and of the target,
\* overlapping ones included; up to three windows, over sources that end before,
\* with and after the target.
MCTexts == {<<>>, <<0>>, <<1, 0>>, <<0, 0, 0, 0>>, <<1, 0, 1, 0, 1>>, <<0, 1, 1, 0, 0, 1, 0>>,
            <<1, 1, 0, 1, 0, 0, 1, 0, 1, 1>>}

\* Bytes that matter to the encodings: NUL, "=", 255; names, digits, spaces,
\* parentheses, markup, a line that looks like the hash dump's own.
MCSamples == UNION {[1 .. n -> {0, 61, 255}] : n \in 0 .. 4}
Words == {<<>>, <<65>>, <<53>>, <<10>>, <<32, 65>>, <<65, 41>>, <<75, 32, 49, 10>>, <<38, 63, 37>>, <<60, 43, 200>>}
Pair(k, v) == [key |-> k, val |-> v]
Hashes == {<<Pair(k, v)>> : k \in Words, v \in Words}
          \cup {<<Pair(<<65>>, v), Pair(w, <<65>>)>> : v \in Words, w \in Words \ {<<65>>}}
Skels == {Atom(w) : w \in Words} \cup {ListOf(<<>>)} \cup {ListOf(<<Atom(w)>>) : w \in Words}
         \cup {ListOf(<<Atom(w), Atom(v)>>) : w, v \in Words}
         \cup {ListOf(<<ListOf(<<Atom(w)>>), Atom(v)>>) : w, v \in Words}
Whole(h, s, t) == [hash |-> h, skel |-> s, text |-> t]
Nothing == Whole(<<>>, Atom(<<>>), <<>>)
MCStored == {Nothing} \cup {Whole(h, Atom(<<>>), <<>>) : h \in Hashes} \cup {Whole(<<>>, s, <<>>) : s \in Skels}
            \cup {Whole(<<>>, Atom(<<>>), w \o v \o u) : w, v, u \in Words}

\* Texts of up to four pieces: keywords contracted and expanded, dollars, lines.
Pieces == {<<"$", "K", "$">>, <<"$", "K", ":", " ", "x", " ", "$">>, <<"$">>, <<"x">>, <<LF>>, <<CR, LF>>, <<CR>>}
MCWorkTexts ==
  LET More(S) == S \cup {p \o t : p \in Pieces, t \in S}
  IN  More(More(More(More({<<>>}))))
MCPlatforms == {<<LF>>, <<CR, LF>>}
MCKeywords == <<[word |-> "K", names |-> <<<<"K", "L">>, <<"K">>>>, value |-> <<"v", "w">>]>>
MCWordLists == {<<>>, <<"K">>, <<"other", "K">>}

MCPathSet == UNION {[1 .. n -> {"/", "a", "."}] : n \in 0 .. 3}
Absolute == {<<"/", "a">>, <<"/", "a", "/", "a">>, <<"/", "a", "/", "b">>, <<"/", "a", "a">>,
             <<"/", "a", "/", "a", "/", "b">>, <<"/", "b">>}
MCTargetLists == UNION {[1 .. n -> Absolute] : n \in 1 .. 3} \cup {<<q, p, r, p>> : q, p, r \in Absolute}

\* A directory, two below it, a file in each and one whose name starts with a
\* directory's; the schedules a working copy allows of them, three at a time.
Url == <<"s", "/", "u">>
DirUrls == {Url, Url \o <<"/", "a">>, Url \o <<"/", "a", "/", "a">>, Url \o <<"/", "d">>}
FileUrls == {Url \o <<"/", "a", "a">>, Url \o <<"/", "a", "/", "b">>, Url \o <<"/", "a", "/", "a", "/", "b">>,
             Url \o <<"/", "d", "/", "b">>}
Item(kind, p, f) == [url |-> p, kind |-> kind, flags |-> f]
AllItems == {Item("dir", p, f) : p \in DirUrls, f \in {{"del"}, {"add"}, {"prop"}, {"add", "prop"}, {"del", "add"}}}
            \cup {Item("file", p, f) : p \in FileUrls,
                    f \in {{"del"}, {"add", "text"}, {"text"}, {"prop"}, {"text", "prop"}, {"add"}, {"del", "add", "text"}}}
Child == {p \in (DirUrls \cup FileUrls) \X (DirUrls \cup FileUrls) : IsChild(p[1], p[2]) # <<>>}
Agree(a, b) ==
  /\ a.url # b.url
  /\ <<a.url, b.url>> \in Child =>
       a.flags # {"del"} /\ ("add" \in a.flags => "add" \in b.flags /\ "del" \notin b.flags)
MCItemSets ==
  LET Good(a, b) == Agree(a, b) /\ Agree(b, a)
      pairs == {p \in AllItems \X AllItems : Good(p[1], p[2])}
  IN  {{a} : a \in AllItems} \cup {{p[1], p[2]} : p \in pairs}
      \cup {{t[1][1], t[1][2], t[2]} : t \in {u \in pairs \X AllItems : Good(u[1][1], u[2]) /\ Good(u[1][2], u[2])}}

DIdle == /\ source = <<>> /\ target = <<>> /\ stream = NewStream /\ headed = FALSE /\ wire = <<>>
         /\ parser = NewParser /\ apply = NewApply /\ end = "open"
EIdle == /\ codec = "base64" /\ plain = <<>> /\ left = <<>> /\ encoder = NewEncoder /\ decoder = NewDecoder
         /\ shut = FALSE /\ record = Nothing
WIdle == worktext = <<>> /\ style = EolStyle("none", <<LF>>) /\ kwords = <<>> /\ repairing = FALSE
PIdle == one = <<>> /\ two = <<>> /\ three = <<>> /\ targs = <<>>
CIdle == /\ items = <<>> /\ done = 0 /\ dbs = <<>> /\ lastUrl = <<>> /\ mods = <<>> /\ calls = <<>>
         /\ found = [set |-> {}, base |-> <<>>]

Init ==
  \/ which = "text delta" /\ DInit /\ XInit /\ EIdle /\ WIdle /\ PIdle /\ CIdle
  \/ which = "xml delta" /\ XInit /\ DIdle /\ EIdle /\ WIdle /\ PIdle /\ CIdle
  \/ which = "encoding" /\ EInit /\ (record = Nothing \/ (codec = "base64" /\ plain = <<>>))
                        /\ DIdle /\ XInit /\ WIdle /\ PIdle /\ CIdle
  \/ which = "translation" /\ WInit /\ DIdle /\ XInit /\ EIdle /\ PIdle /\ CIdle
  \/ which = "paths" /\ PInit /\ DIdle /\ XInit /\ EIdle /\ WIdle /\ CIdle
  \/ which = "commit drive" /\ CInit /\ DIdle /\ XInit /\ EIdle /\ WIdle /\ PIdle

Next ==
  /\ UNCHANGED <<which, wvars, pvars>>
  /\ \/ which = "text delta" /\ DNext /\ UNCHANGED <<xvars, evars, cvars>>
     \/ which = "xml delta" /\ XNext /\ UNCHANGED <<dvars, evars, cvars>>
     \/ which = "encoding" /\ ENext /\ UNCHANGED <<dvars, xvars, cvars>>
     \/ which = "commit drive" /\ CNext /\ UNCHANGED <<dvars, xvars, evars>>

Spec == Init /\ [][Next]_<<which, dvars, xvars, evars, wvars, pvars, cvars>>

\* A text that goes through vdelta, svndiff and back, in pieces of any size, is
\* the target; a stream that is cut short is noticed.
DeltasRight == DeltaExact /\ CutsSeen

\* A drive of an editor comes out of the XML writer and parser, and of composed
\* editors, as it went in.
DrivesRight == ReplayExact /\ InStep

\* What is encoded, stored or translated is read back as it was.
ConversionsRight == StreamExact /\ StoredExact /\ UntouchedUnmodified /\ EolExact

\* Paths, targets and commit items are sorted out so that the editor is driven
\* once over everything the user named.
CommitDriveRight == PathsAgree /\ TargetsCovered /\ DriverExact
=============================================================================
