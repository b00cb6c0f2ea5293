---------------------------- MODULE MCDirectory ----------------------------
(* Instances of Directory: a tree with a directory of three files, one of them *)
(* a link, an empty one and a file at the top, configured from the top down,   *)
(* from the bottom up, and with files, a directory and the root named twice;   *)
(* and lists that lack the root or a directory.                                *)
EXTENDS Directory

Entry(kind, dir, name, perms, size, uri) ==
  [kind |-> kind, dir |-> dir, name |-> name, perms |-> perms, size |-> size, uri |-> uri]

root  == Entry("dir", Root, Nil, {}, 0, 0)
top   == Entry("file", Root, "b", {"r"}, 2, 1)
inner == Entry("dir", Root, "a", {}, 0, 0)
file  == Entry("file", <<"a">>, "a", {"w"}, 1, 2)
again == Entry("file", <<"a">>, "a", {}, 2, 3)
link  == Entry("link", <<"a">>, "b", {}, 0, 4)
empty == Entry("dir", <<"a">>, "c", {}, 0, 0)
deep  == Entry("file", <<"a", "c">>, "a", {}, 1, 5)

MCConfigs == {
  <<root, top, inner, file, link, empty>>,
  <<empty, link, file, inner, top, root>>,
  <<file, inner, root, again, deep, empty, inner, root>>,
  <<top, inner, file>>,
  <<root, top, file>> }

MCDefaults == [kind \in FileKinds |-> IF kind = "dir" THEN {"r", "x"} ELSE {"r"}]

MCRoom == [name \in {"a", "b", "c", ".", ".."} |-> IF name = "c" THEN 2 ELSE 1]
=============================================================================
