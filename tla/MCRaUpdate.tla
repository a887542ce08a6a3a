---------------------------- MODULE MCRaUpdate ----------------------------
(* Instances of RaUpdate for TLC. *)
EXTENDS RaUpdate

t == <<"t">>
d == <<"t", "d">>
g == <<"t", "d", "g">>
f == <<"t", "f">>

MCKinds == [p \in {<<>>, t, d, g, f} |-> IF p \in {<<>>, t, d} THEN {"dir"} ELSE {"file"}]
MCFirst == [p \in {<<>>, t, d, g} |-> IF p = g THEN "file" ELSE "dir"]
MCAnchor == t
MCOrders == {<<"d", "f", "g">>}
MCChanges == [edit |-> {g}, prop |-> {t, d}, delete |-> {t, d, g}, replace |-> {d},
              copy |-> {}]

\* A branch b of t, whose file changes.
MCBranchKinds == [p \in {<<>>, t, f, <<"b">>, <<"b", "f">>} |->
                    IF p \in {f, <<"b", "f">>} THEN {"file"} ELSE {"dir"}]
MCBranchFirst == [p \in {<<>>, t, f} |-> IF p = f THEN "file" ELSE "dir"]
MCBranchChanges == [edit |-> {<<"b", "f">>}, prop |-> {}, delete |-> {}, replace |-> {},
                    copy |-> {<<t, <<"b">>>>}]
===========================================================================
