------------------------------ MODULE MCFiles ------------------------------
(* A file system of blocks of two bytes for TLC: a file of one and a half  *)
(* blocks that are out of order on the disk, one of exactly one block with *)
(* a name of the greatest length, an empty one, the directory, the clock,  *)
(* and an entry of a type the kernel does not know.  Names are given by    *)
(* their ASCII codes.                                                      *)
EXTENDS Files

Disk == [b \in 0..2 |-> [k \in 0..1 |-> 10 * b + k]]

Inodes == (0 :> [length |-> 3, dataBlocks |-> <<2, 0>>])
       @@ (1 :> [length |-> 2, dataBlocks |-> <<1>>])
       @@ (2 :> [length |-> 0, dataBlocks |-> <<>>])

Dentry(name, type, inode) == [fileName |-> name, fileType |-> type, inodeNum |-> inode]

Directory == << Dentry(<<46>>, DIRECTORY_FILETYPE, 0),
                Dentry(<<97>>, REGULAR_FILE_FILETYPE, 0),
                Dentry(<<98, 99>>, REGULAR_FILE_FILETYPE, 1),
                Dentry(<<101>>, REGULAR_FILE_FILETYPE, 2),
                Dentry(<<114>>, RTC_DEVICE_FILETYPE, 0),
                Dentry(<<120>>, 3, 0) >>

Stdin  == <<105>>
Stdout == <<111>>

(* Every file, a name longer than a directory entry holds, names that are  *)
(* too short or too long by one, and names that begin like stdin.          *)
Known   == {Directory[i].fileName : i \in 1..Len(Directory)}
Strange == {<<98, 99, 100>>, <<98>>, <<97, 97>>, <<>>, Stdin, <<111, 111>>}
AllFilenames == Known \cup Strange

InTable   == {-1, 0, 1, 2, 3, 5}
Nested    == {-1, 0, 1, 2, 4}
AlsoAfter == 0..4
ReadSizes == -1..3
Typed     == {<<97, 10>>}
=============================================================================
