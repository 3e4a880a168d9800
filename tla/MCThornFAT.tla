----------------------------- MODULE MCThornFAT -----------------------------
(***************************************************************************)
(* ThornFAT for TLC: two names, a tree of two levels or two files in the   *)
(* root, and a bound on the number of calls, because freed cells keep      *)
(* their bytes and the disk's history would otherwise go on for long.      *)
(* The auxiliary variable tree holds the value of the refinement mapping   *)
(* TreeOf, so that TLC computes it once for a state.                        *)
(***************************************************************************)
EXTENDS ThornFATTree

CONSTANT MaxCalls   \* the number of calls in a behaviour

VARIABLES
  calls,            \* the number made so far
  tree              \* what the disk stands for

\* The driver seen as a tree of files.
T == INSTANCE FileTree WITH tree <- tree, reply <- reply

MCInit == Init /\ calls = 0 /\ tree = TreeOf(fat, disk, RootEntry)
MCNext == /\ calls < MaxCalls
          /\ Next /\ calls' = calls + 1
          /\ tree' = IF UNCHANGED <<fat, disk>> /\ RootEntry' = RootEntry THEN tree
                     ELSE TreeOf(fat', disk', RootEntry')
MCSpec == MCInit /\ [][MCNext]_<<vars, calls, tree>>

\* The same from make() on.
MCFresh == Fresh /\ calls = 0 /\ tree = TreeOf(fat, disk, RootEntry)
MCFreshNext == /\ calls < MaxCalls
               /\ Make \/ Next
               /\ calls' = calls + 1
               /\ tree' = IF UNCHANGED <<fat, disk>> /\ RootEntry' = RootEntry THEN tree
                          ELSE TreeOf(fat', disk', RootEntry')
MCFreshSpec == MCFresh /\ [][MCFreshNext]_<<vars, calls, tree>>

Names       == {"a", "b"}
TreePaths   == {<<"a">>, <<"b">>, <<"a", "a">>, <<"b", "a">>}
FilePaths   == {<<"a">>, <<"b">>}
FreshPaths  == {<<"a">>, <<"b">>, <<"a", "b">>}
FileExtents == {<<2, 4>>}
ZeroExtents == {<<0, 4>>, <<2, 4>>}
FreshExtents == {<<0, 6>>}
Zeroes      == Zero

\* The driver implements the tree that src/include/fs/FS.h promises: a call
\* that succeeds changes just the node it names, in the way its name says, and
\* one that fails changes nothing.
TreeSpec == T!Spec

\* ThornFAT.cpp:1198: "Once we've ensured the destination doesn't exist or no
\* longer exists, we move the source's directory entry to the destination's
\* offset."  After a rename that succeeds the destination is there.
RenameDelivers ==
    [][\A p, q \in Path : Rename(p, q) /\ reply'.status = "OK" => q \in DOMAIN tree']_<<vars, tree>>

\* ThornFAT.h:112, of zeroOutFree(): "Zeroes out the free space at the end of
\* a file."  A truncation leaves every other file as it was.
TruncateIsLocal ==
    [][\A p \in Path, n \in Sizes : Truncate(p, n) =>
          \A q \in DOMAIN tree \ {p} : tree'[q] = tree[q]]_<<vars, tree>>
=============================================================================
