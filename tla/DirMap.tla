------------------------------- MODULE DirMap -------------------------------
(***************************************************************************)
(* What the directories of a volume promise: a map from names to files.    *)
(* Names that differ only in case are one name.  A file has one name.      *)
(***************************************************************************)
CONSTANTS Directory, Class, File, NoFile

VARIABLE names   \* names[d][c]: the file of name c in directory d, or NoFile

Named(f) == \E d \in Directory, c \in Class : names[d][c] = f

Init == names \in [Directory -> [Class -> File \cup {NoFile}]]

Create(d, c, f) ==
    /\ names[d][c] = NoFile /\ ~Named(f)
    /\ names' = [names EXCEPT ![d][c] = f]

\* Also what is left of a rename that has deleted the old name and finds no
\* room for the new one.
Remove(d, c) ==
    /\ names[d][c] # NoFile
    /\ names' = [names EXCEPT ![d][c] = NoFile]

Rename(d, c, e, k) ==
    /\ names[d][c] # NoFile /\ names[e][k] = NoFile
    /\ names' = [names EXCEPT ![d][c] = NoFile, ![e][k] = names[d][c]]

Next == \E d \in Directory, c \in Class :
            \/ \E f \in File : Create(d, c, f)
            \/ Remove(d, c)
            \/ \E e \in Directory, k \in Class : Rename(d, c, e, k)

Spec == Init /\ [][Next]_names
=============================================================================
