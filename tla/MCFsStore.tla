----------------------------- MODULE MCFsStore -----------------------------
(***************************************************************************)
(* The tables of the filesystem: two processes and every call of the       *)
(* interface, or the choice of keys of the nodes table.                    *)
(***************************************************************************)
EXTENDS FsStore, NodesTable

VARIABLE which

MCCalls == {"begin", "open", "edit", "log", "commit", "abort", "revprop"}

(* Nothing tells the processes apart. *)
Interchangeable == Permutations(Procs)

MCInit == which \in {"trails", "keys"} /\ Init /\ TableInit

(* Out of keys, within the bounds. *)
NoMoreKeys == UNCHANGED tableVars

MCNext ==
  /\ UNCHANGED which
  /\ \/ which = "trails" /\ Next /\ UNCHANGED tableVars
     \/ which = "keys" /\ (TableNext \/ NoMoreKeys) /\ UNCHANGED vars

MCSpec == MCInit /\ [][MCNext]_<<which, vars, tableVars>>
=============================================================================
