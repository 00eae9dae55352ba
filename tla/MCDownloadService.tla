-------------------------- MODULE MCDownloadService ---------------------------
(* Groups for DownloadService. *)
EXTENDS DownloadService

AnItem(p, kind) == [path |-> p, type |-> kind]

(* A release bundle with folders in each other, then a flat group with a      *)
(* symbolic link and two files of the same name.                              *)
Separate == <<
    [items |-> {AnItem(<<"a">>, "folder"), AnItem(<<"a", "f">>, "file"),
                AnItem(<<"b">>, "folder"), AnItem(<<"b", "c">>, "folder")},
     flat |-> FALSE, symlink |-> FALSE, key |-> "bundle", split |-> TRUE],
    [items |-> {AnItem(<<"d", "l">>, "link"), AnItem(<<"d", "x">>, "file"), AnItem(<<"e", "x">>, "file"),
                AnItem(<<"e">>, "folder")},
     flat |-> TRUE, symlink |-> TRUE, key |-> "bundle", split |-> FALSE]>>

\* What the theorems about the disk suppose of the groups is so of these.
ASSUME SeparateAssumption == TargetsApart

UsedDisks ==
    {<<>>} \cup [{<<"a", "f">>} -> {Stale, Link, File(AnItem(<<"a", "f">>, "file"))}]
    \cup [{<<"x">>, <<"l">>} -> {Stale, Link, Directory}]

NoneUnsigned == {}
OneUnsigned == {AnItem(<<"d", "x">>, "file")}
=============================================================================
