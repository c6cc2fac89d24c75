---------------------------- MODULE MCLibraryPage ----------------------------
(* A library with a folder in a folder, and a file at the top.  Each opening *)
(* adds one dimension to the first: the tree, a notification server and a    *)
(* failure, the grid at the root, a failure with the tree; two are about      *)
(* folders that are moved and renamed with something below them, and the     *)
(* last about moves to folders that the tree may not have loaded.            *)
EXTENDS LibraryPage

CONSTANTS a, b, f

MCOrder == <<a, b, f>>
Small == {<<a>>}
Nested == {<<a>>, <<a, b>>, <<f>>}

Opening(stored, path, grid, panel, net, acts, clicks, fails) ==
    [stored |-> stored, path |-> path, grid |-> grid, panel |-> panel,
     link |-> net, acts |-> acts, ops |-> clicks, failures |-> fails]

Everything == Ways \cup Writes \cup {"others"}
Deep == {<<a>>, <<a, b>>, <<a, b, f>>}

MCOpenings ==
    {Opening(Nested, <<a>>, FALSE, FALSE, "off", Everything, 3, 0),
     Opening(Nested, <<a>>, FALSE, TRUE, "off", Everything, 2, 0),
     Opening(Nested, <<a>>, FALSE, FALSE, "on", Everything, 2, 1),
     Opening(Nested, <<>>, TRUE, TRUE, "on", Everything, 1, 1),
     Opening(Small, <<>>, FALSE, TRUE, "off", Everything, 2, 1),
     Opening(Deep, <<a>>, FALSE, TRUE, "off", {"tree", "select", "moveItems"}, 4, 0),
     Opening(Deep, <<a, b>>, FALSE, TRUE, "off", {"tree", "rename", "moveItem"}, 2, 0),
     Opening(Nested, <<>>, FALSE, TRUE, "off", {"tree", "select", "moveItems"}, 3, 0)}
=============================================================================
