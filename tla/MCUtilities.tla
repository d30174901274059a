------------------------------ MODULE MCUtilities ------------------------------
(***************************************************************************)
(* TLC instance of Utilities.                                              *)
(* download: a buffer of four, headers that fit into it with room to       *)
(* spare, exactly, and not at all; lengths that are right, too small, too  *)
(* large, zero, negative or missing.                                       *)
(* fileCopy: a buffer of two; nothing, less than a buffer, up to three     *)
(* buffers to copy, room for all, for all but one, or less.                *)
(* recursiveCopy: a file at the top, a directory with two files and a      *)
(* directory with a file in it.                                            *)
(* base64: one and two groups, with and without padding and white space;   *)
(* "A" is 0, "g" is 32, "9" is 61, the code of '='.                        *)
(***************************************************************************)
EXTENDS Utilities, Sequences

ContentLengths == {-1000, -1, 0, 2, 3, 5}

AllAnswers == [head : {2, 4, 5}, length : ContentLengths, said : {0, 2}, size : {0, 3},
               stays : BOOLEAN]

TreeDirs == {"bin", "usr", "usr/lib"}
TreeFiles == {"f", "bin/sh", "usr/a", "usr/b", "usr/lib/c"}
TreeParent == [e \in TreeDirs \cup TreeFiles |->
                 CASE e = "bin/sh"                        -> "bin"
                   [] e \in {"usr/lib", "usr/a", "usr/b"} -> "usr"
                   [] e = "usr/lib/c"                     -> "usr/lib"
                   [] OTHER                               -> "/mnt2"]
TreeSize == [f \in TreeFiles |-> CASE f = "f" -> 3 [] f \in {"usr/a", "usr/b"} -> 2 [] OTHER -> 1]

Equals == 61
Chars == {65, 103, 57}
Quads == {<<a, b, c, d>> : a, b, c, d \in Chars}
           \cup {<<a, b, c, Equals>> : a, b, c \in Chars}
           \cup {<<a, b, Equals, Equals>> : a, b \in Chars}

Firsts == {<<65, 65, 65, 57>>, <<57, 103, 57, 103>>, <<47, 57, 43, 65>>}

AllTexts == Quads
              \cup {<<10, 9>> \o q \o <<10>> : q \in Quads}
              \cup {f \o q : f \in Firsts, q \in Quads}
              \cup {<<9>> \o f \o <<10, 9>> \o q \o <<65>> : f \in Firsts, q \in Quads}
=============================================================================
