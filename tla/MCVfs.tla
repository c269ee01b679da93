------------------------------- MODULE MCVfs -------------------------------
(* Instances of Vfs: a small tree with a second name for the root, a name   *)
(* the initrd is mounted over, and a directory of two blocks.               *)
EXTENDS Vfs, TLC

\* / has dir "d" (inode 3), file "f" (inode 4, in the bucket of the root) and a
\* directory "initrd" (inode 5) behind the mount point; the directory d, of two
\* blocks, has "..", "f" (inode 6) and, in the block never read, "g".
MCBlocks ==
    (2 :> <<("d" :> 3) @@ ("f" :> 4) @@ ("initrd" :> 5)>>) @@
    (3 :> <<(".." :> 2) @@ ("f" :> 6) @@ ("e" :> 7), "g" :> 4>>) @@ (7 :> <<(".." :> 3) @@ ("f" :> 8)>>) @@
    (5 :> <<"f" :> 4>>)

MCPaths == {<<>>, <<"d","e">>, <<"d">>, <<"f">>, <<"x">>, <<"d", "..">>, <<"d", "f">>, <<"d", "g">>,
            <<"d", "..", "f">>, <<"initrd">>, <<"initrd", "f">>, <<"dev", "f">>, <<"f", "f">>}

Sound == [magic |-> TRUE, revLevel |-> 1, featuresIncompat |-> 0,
          featuresRoCompat |-> 0, clean |-> TRUE, errors |-> 1]

\* A sound volume, one to be mounted read-only, one its superblock gives up
\* on, and a device that is not ext2.
MCDevices == {Sound, [Sound EXCEPT !.clean = FALSE, !.errors = 2],
              [Sound EXCEPT !.clean = FALSE, !.errors = 3],
              [Sound EXCEPT !.magic = FALSE]}

ObjectSymmetry == Permutations(Objects)
=============================================================================
