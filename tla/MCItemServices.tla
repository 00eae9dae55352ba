--------------------------- MODULE MCItemServices -----------------------------
(* Repositories, specs and references for the run of ItemServices.  The names *)
(* show the order of texts: "a-" comes before "a/" and "ab" after it.         *)
EXTENDS ItemServices

Dash == <<3, 1>>
A == <<3>>
DashB == <<3, 1, 4>>
AB == <<3, 4>>
B == <<4>>

Folder(path) == [path |-> path, type |-> "folder"]
File(path) == [path |-> path, type |-> "file"]

Root == Folder(<<>>)

\* Three directories at the top, which fit in one buffer.
Wide == {Root, Folder(<<A>>), Folder(<<Dash>>), Folder(<<AB>>),
         File(<<A, B>>), File(<<Dash, B>>), File(<<AB, B>>), File(<<B>>)}

\* Four directories in a chain and beside it: two buffers.
Deep == {Folder(<<A>>), Folder(<<A, A>>), Folder(<<A, A, B>>), Folder(<<A, Dash>>),
         File(<<A, A, B, B>>), File(<<A, Dash, B>>), File(<<A, B>>)}

\* A buffer of two would hold these in an order that the merge does not agree with.
Dashed == {Folder(<<A>>), Folder(<<Dash>>), Folder(<<DashB>>), File(<<A, B>>), File(<<Dash, B>>)}

MCTrees == {Wide, Deep, Dashed}

ASSUME ReliableAssumption == Reliable

(* What a pattern may find: everything, only files, a folder beside what is   *)
(* below it, a folder without it, names that begin alike.                     *)
Chain == {Folder(<<A>>), File(<<A, B>>)}
MCFinds == {Dashed, {File(<<A, B>>), File(<<Dash, B>>)}, Chain, {Folder(<<A>>)},
            {File(<<A>>), File(<<AB>>), Folder(<<Dash>>), File(<<Dash, B>>)}}

MCSpecs == [type : {"pattern", "direct"}, flat : BOOLEAN, into : BOOLEAN, found : MCFinds]

Simple == {s \in MCSpecs : ~s.into /\ (s.type = "direct" => ~s.flat)}
MCSpecLists ==
    {<<s>> : s \in MCSpecs} \cup
    {l \in Simple \X Simple : Fit(l[1].found \cup l[2].found)}

LfsFile(n) == File(<<<<n>>>>)
Ref(type, matches, object, files) == [type |-> type, matches |-> matches, object |-> object, files |-> files]
Pointer(n) == [kind |-> "pointer", item |-> LfsFile(n)]
Like(what, n) == [kind |-> what, item |-> LfsFile(n)]

Branch == Ref("hash", TRUE, "commit", {Pointer(5), Like("big", 7)})
Tag == Ref("hash", TRUE, "tag", {Pointer(6), Like("malformed", 8)})
Head0 == Ref("symbolic", TRUE, "commit", {Pointer(5), Like("big", 7)})
Foreign == Ref("hash", FALSE, "commit", {Pointer(8)})
TreeTag == Ref("hash", TRUE, "other", {})

MCRepositories == {{Branch}, {Branch, Head0, Tag, Foreign}, {Branch, Tag, TreeTag}}
MCGarbage == {LfsFile(7), LfsFile(8)}
MCPush == Ref("hash", TRUE, "commit", {Pointer(9)})
=============================================================================
