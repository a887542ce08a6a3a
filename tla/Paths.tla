------------------------------- MODULE Paths -------------------------------
(***************************************************************************)
(* Paths and targets (libsvn_subr path.c, target.c).  A path is a sequence   *)
(* of one-character strings; "/" separates.                                  *)
(***************************************************************************)
EXTENDS Integers, Sequences, FiniteSets, SequencesExt

Slash == "/"
Sep == <<Slash>>

\* svn_path_canonicalize: no slash at the end.
RECURSIVE Canonicalize(_)
Canonicalize(p) == IF p # <<>> /\ Last(p) = Slash THEN Canonicalize(Front(p)) ELSE p

\* svn_path_join
Join(base, comp) ==
  IF base = <<>> THEN comp
  ELSE IF comp # <<>> /\ comp[1] = Slash THEN comp
  ELSE IF comp = <<>> THEN base
  ELSE (IF Last(base) = Slash THEN Front(base) ELSE base) \o Sep \o comp

\* svn_path_join_many: one slash is taken from the end of every argument
\* longer than one byte; an absolute argument starts over.
Trimmed(s) == IF Len(s) > 1 /\ Last(s) = Slash THEN Front(s) ELSE s

JoinMany(base, comps) ==
  FoldLeft(LAMBDA path, s : IF s = <<>> THEN path
                            ELSE IF path = <<>> \/ s[1] = Slash THEN s
                            ELSE path \o (IF Last(path) = Slash THEN <<>> ELSE Sep) \o s,
           Trimmed(base), [i \in DOMAIN comps |-> Trimmed(comps[i])])

\* The length join_many computes in its first pass, which its assertion
\* compares with what the second pass wrote.  st: total, base_arg,
\* base_is_root.
JoinManyLength(base, comps) ==
  LET b == Trimmed(base)
      first == [total |-> Len(b), arg |-> IF b = <<>> THEN 1 ELSE 0, root |-> b = Sep, n |-> 0]
      Step(st, s) ==
        LET n == st.n + 1
            len == Len(s)
        IN  IF len = 0 THEN [st EXCEPT !.n = n, !.arg = IF st.total = 0 THEN n + 1 ELSE @]
            ELSE IF s[1] = Slash THEN [total |-> len, arg |-> n, root |-> len = 1, n |-> n]
            ELSE IF n = st.arg \/ (n = st.arg + 1 /\ st.root) THEN [st EXCEPT !.n = n, !.total = @ + len]
            ELSE [st EXCEPT !.n = n, !.total = @ + 1 + len]
  IN  FoldLeft(Step, first, [i \in DOMAIN comps |-> Trimmed(comps[i])]).total

\* add_component_internal
AddComponent(p, comp) == Canonicalize(p \o (IF p = <<>> \/ p = Sep THEN <<>> ELSE Sep) \o comp)

\* svn_path_remove_component
RemoveComponent(p) ==
  LET c == Canonicalize(p)
      seps == {i \in DOMAIN c : c[i] = Slash}
      last == CHOOSE i \in seps : \A j \in seps : j <= i
      chopped == SubSeq(c, 1, last - 1)
  IN  IF seps = {} THEN <<>>
      ELSE IF chopped # <<>> /\ Last(chopped) = Slash THEN Front(chopped) ELSE chopped

\* svn_path_basename: of the root, in any number of slashes, it is "/".
Basename(p) ==
  LET c == Canonicalize(p)
      seps == {i \in DOMAIN c : c[i] = Slash}
  IN  IF p = <<>> THEN <<>>
      ELSE IF c = <<>> THEN Sep
      ELSE IF seps = {} THEN c
      ELSE SubSeq(c, (CHOOSE i \in seps : \A j \in seps : j <= i) + 1, Len(c))

\* svn_path_is_empty
IsEmptyPath(p) == p \in {<<>>, <<".">>, <<".", Slash>>}

\* The first offset at which two paths differ, or the shorter length.
Differ(p, q) ==
  LET n == IF Len(p) < Len(q) THEN Len(p) ELSE Len(q)
      ds == {i \in 0 .. (n - 1) : p[i + 1] # q[i + 1]}
  IN  IF ds = {} THEN n ELSE CHOOSE i \in ds : \A j \in ds : i <= j

At(p, i) == IF i < Len(p) THEN p[i + 1] ELSE ""

\* svn_path_compare_paths: the separator sorts after every other byte, so a
\* child comes after its parent, and after what else starts with its name.
Rank(c) == CASE c = "" -> 0 [] c = "." -> 46 [] c = Slash -> 47 [] c = "a" -> 97 [] OTHER -> 98
ComparePaths(p, q) ==
  LET i == Differ(p, q)
  IN  IF Len(p) = Len(q) /\ i >= Len(p) THEN 0
      ELSE IF At(p, i) = Slash THEN 1
      ELSE IF At(q, i) = Slash THEN -1
      ELSE IF Rank(At(p, i)) < Rank(At(q, i)) THEN -1 ELSE 1

\* svn_path_get_longest_ancestor: <<>> for NULL, else <<path>>.  (The loop
\* stops at the end of either path.)
LongestAncestor(p, q) ==
  LET i == Differ(p, q)
      seps == {j \in 0 .. (i - 1) : p[j + 1] = Slash}
      last == IF seps = {} THEN 0 ELSE CHOOSE j \in seps : \A k \in seps : k <= j
      whole == \/ i = Len(p) /\ At(q, i) = Slash
               \/ i = Len(q) /\ At(p, i) = Slash
               \/ i = Len(p) /\ i = Len(q)
  IN  IF p = <<>> \/ q = <<>> THEN <<>>
      ELSE <<Canonicalize(SubSeq(p, 1, IF whole THEN i ELSE last))>>

\* svn_path_is_child: <<>> for NULL, else <<what is left of path2>>.
IsChild(p, q) ==
  LET n == Len(p)
  IN  IF p = <<>> \/ Len(q) <= n \/ ~IsPrefix(p, q) THEN <<>>
      ELSE IF Last(p) = Slash THEN <<SubSeq(q, n + 1, Len(q))>>
      ELSE IF q[n + 1] = Slash THEN <<SubSeq(q, n + 2, Len(q))>>
      ELSE <<>>

\* svn_path_decompose: the components, "/" first when the path is absolute.
Decompose(p) ==
  LET abs == p # <<>> /\ p[1] = Slash
      body == IF abs THEN Tail(p) ELSE p
      cuts == SetToSortSeq({i \in DOMAIN body : body[i] = Slash} \cup {Len(body) + 1}, <)
      From(k) == IF k = 1 THEN 1 ELSE cuts[k - 1] + 1
  IN  IF IsEmptyPath(p) THEN <<>>
      ELSE (IF abs THEN <<Sep>> ELSE <<>>)
           \o [k \in DOMAIN cuts |-> SubSeq(body, From(k), cuts[k] - 1)]

----------------------------------------------------------------------------
(* target.c, over absolute canonical paths (svn_path_get_absolute)          *)

\* The base directory: the longest common ancestor of all targets.
BaseDir(targets) ==
  FoldLeft(LAMBDA b, t : IF b = <<>> THEN <<>> ELSE LongestAncestor(b[1], t),
           <<targets[1]>>, Tail(targets))

\* The first pass of svn_path_condense_targets over the pairs i < j; row i is
\* skipped only when it was removed before it started.
CondensePair(removed, i, j, ti, tj, a) ==
  IF j \in removed \/ a = <<>> THEN removed
  ELSE IF a[1] = ti THEN removed \cup {j}
  ELSE IF a[1] = tj THEN removed \cup {i}
  ELSE removed
RECURSIVE FirstPass(_, _, _, _)
FirstPass(targets, i, j, removed) ==
  IF i > Len(targets) THEN removed
  ELSE IF j > Len(targets) \/ (j = i + 1 /\ i \in removed) THEN FirstPass(targets, i + 1, i + 2, removed)
  ELSE FirstPass(targets, i, j + 1,
                 CondensePair(removed, i, j, targets[i], targets[j], LongestAncestor(targets[i], targets[j])))

\* Both passes, the relative paths, and the split of a base that is a file.
\* isFile says whether the base directory names a file.  "fail" when there is
\* no common ancestor to speak of.
Condensed(targets, base, gone, isFile) ==
  LET kept == SelectSeq([i \in DOMAIN targets |-> i], LAMBDA i : i \notin gone /\ targets[i] # base)
      rel == [k \in DOMAIN kept |-> SubSeq(targets[kept[k]], Len(base) + 2, Len(targets[kept[k]]))]
  IN  IF isFile THEN [fail |-> FALSE, base |-> RemoveComponent(base), rel |-> Append(rel, Basename(base))]
      ELSE [fail |-> FALSE, base |-> base, rel |-> rel]
CondenseTargets(targets, isFile) ==
  LET base == BaseDir(targets)
  IN  IF base = <<>> THEN [fail |-> TRUE, base |-> <<>>, rel |-> <<>>]
      ELSE Condensed(targets, base[1], FirstPass(targets, 1, 2, {}), isFile)

\* svn_path_remove_redundancies: a target is kept unless an earlier keeper is
\* it or above it.
RemoveRedundancies(targets) ==
  FoldLeft(LAMBDA keep, t :
             IF \E i \in DOMAIN keep : keep[i] = t \/ IsChild(keep[i], t) # <<>>
               THEN keep ELSE Append(keep, t),
           <<>>, targets)

----------------------------------------------------------------------------
(* Samples: one state each.                                                 *)

CONSTANTS PathSet, TargetLists

VARIABLES one, two, three, targs
pvars == <<one, two, three, targs>>

PInit ==
  \/ one \in PathSet /\ two \in PathSet /\ three \in PathSet /\ targs = <<>>
  \/ one = <<>> /\ two = <<>> /\ three = <<>> /\ targs \in TargetLists

Canonical(p) == Canonicalize(p) = p
\* "Callers should pass reasonably-normalized paths": no two slashes in a row.
Normalized(p) == \A i \in 1 .. (Len(p) - 1) : ~(p[i] = Slash /\ p[i + 1] = Slash)
Above(p, q) == p = q \/ IsChild(p, q) # <<>>

\* An empty component right after "/" makes join_many count a separator it
\* does not write: its assertion fails.
EmptyAfterRoot == (two = <<>> /\ one = Sep) \/ (one = <<>> /\ two = Sep /\ three = <<>>)

(* The path functions agree with each other: join_many computes the length it
   writes (its assertion) and is join repeated; a child's remainder joined to
   its parent gives it back; the longest ancestor is above both paths and
   nothing longer is; the order of svn_path_compare_paths is a total order in
   which a directory precedes what is below it and that is all in one place. *)
PathsAgree ==
  /\ Normalized(one) /\ Normalized(two) /\ Normalized(three) /\ ~EmptyAfterRoot =>
       Len(JoinMany(one, <<two, three>>)) = JoinManyLength(one, <<two, three>>)
  /\ Canonical(one) /\ Canonical(two) /\ Canonical(three) =>
       /\ JoinMany(one, <<two, three>>) = Join(Join(one, two), three)
       /\ IsChild(one, two) # <<>> => Join(one, IsChild(one, two)[1]) = two
       /\ ComparePaths(one, two) = -ComparePaths(two, one)
       /\ ComparePaths(one, two) < 0 /\ ComparePaths(two, three) < 0 => ComparePaths(one, three) < 0
       /\ IsChild(one, two) # <<>> => ComparePaths(one, two) < 0
       /\ ComparePaths(one, two) < 0 /\ ComparePaths(two, three) < 0 =>
            \A d \in PathSet : IsChild(d, one) # <<>> /\ IsChild(d, three) # <<>> => IsChild(d, two) # <<>>
       /\ LongestAncestor(one, two) # <<>> /\ LongestAncestor(one, two)[1] # <<>> =>
            LET a == LongestAncestor(one, two)[1]
            IN  /\ Above(a, one) /\ Above(a, two)
                /\ Above(three, one) /\ Above(three, two) => Above(three, a)

(* Condensing a command's targets loses none and adds none: what lies below
   the base directory's condensed targets, or below the base itself when none
   is left, is exactly what lies below the targets, and no condensed target
   lies below another (svn_path_condense_targets; remove_redundancies keeps an
   original list with the same meaning). *)
TargetsCovered ==
  targs # <<>> =>
    \E c \in {CondenseTargets(targs, FALSE)} :
    LET full == IF c.rel = <<>> THEN {c.base} ELSE {Join(c.base, c.rel[i]) : i \in DOMAIN c.rel}
        asked == {targs[i] : i \in DOMAIN targs}
    IN  /\ ~c.fail /\ c.base # <<>> =>
             /\ \A t \in asked : \E f \in full : Above(f, t)
             /\ \A f \in full : f \in asked
             /\ \A f, g \in full : Above(f, g) => f = g
        /\ LET r == RemoveRedundancies(targs)
           IN  \A t \in asked : \E i \in DOMAIN r : Above(r[i], t)
=============================================================================
