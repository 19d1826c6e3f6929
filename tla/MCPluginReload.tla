--------------------------- MODULE MCPluginReload ---------------------------
(* One binary and two script plugins over four names: the binary's second   *)
(* tool is also the script's, whose other tool has a core tool's name; the  *)
(* child MCP server's second version lists its tool twice and ends with an  *)
(* empty name.  The server starts with some of them there and loads all or   *)
(* only the packs of its profile; the child server, there from the start, can *)
(* be saved whole again afterwards.                                          *)
EXTENDS PluginReload

CONSTANTS core, x, y, z, bin, py, srv

MCOffers == [p \in {bin, py, srv} |->
                IF p = bin THEN <<x, y>>
                ELSE IF p = py THEN << <<y, NoName, core>> >>
                ELSE << <<z>>, <<z, z, NoName>> >>]
MCDeployed == {[plugins |-> {py, srv}, loadAll |-> TRUE, canonicalRoot |-> TRUE],
               [plugins |-> {bin, srv}, loadAll |-> TRUE, canonicalRoot |-> FALSE],
               [plugins |-> {bin, py, srv}, loadAll |-> FALSE, canonicalRoot |-> FALSE]}
MCMaxStamp == [d \in {py, srv} |-> IF d = srv THEN 3 ELSE 2]
MCMaxVersion == [d \in {py, srv} |-> IF d = py THEN 1 ELSE 2]
=============================================================================
