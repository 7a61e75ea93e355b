------------------------------- MODULE MCVault -------------------------------
(* Instances of Vault for TLC: a directory, a file in it, a file beside it, *)
(* a second directory for renames, and a directory in the first.            *)
EXTENDS Vault, TLC

d == <<"d">>
dx == <<"d", "x">>
a == <<"a">>
e == <<"e">>
ds == <<"d", "s">>

OneFileEach == {dx, a}

\* Requests that come one at a time may delete the root, and move a directory
\* into itself.
InTurnUsage == [serial |-> TRUE, dirs |-> {Root, d, ds}, ops |-> OpKinds,
                faults |-> {"remote", "disk", "crash"}]

\* Overlapping requests on files and a directory, of every kind.
OverlapUsage == [serial |-> FALSE, dirs |-> {d}, ops |-> OpKinds,
                 faults |-> {"remote", "disk", "crash"}]

\* Overlapping requests that also move directories, without placeholders.
MoveUsage == [serial |-> FALSE, dirs |-> {d, e}, ops |-> OpKinds \ {"empty"},
              faults |-> {"remote", "crash"}]

AllUsages == {InTurnUsage, OverlapUsage, MoveUsage}

\* Overlapping uploads and deletions of one directory, and nothing fails.
DeleteUsage == {[serial |-> FALSE, dirs |-> {d}, ops |-> {"put", "delete"}, faults |-> {}]}

\* The instances are such as VaultProofs makes claims about.
ASSUME NamesTellKinds == KindsByName

\* The goroutines are interchangeable.
Requests == Permutations(Procs)
=============================================================================
