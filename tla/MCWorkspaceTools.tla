-------------------------- MODULE MCWorkspaceTools --------------------------
(* Two threads, files of two and three lines of which one has carriage       *)
(* returns and no last newline, hunks that fit, are stale, overlap or end    *)
(* before they start, and every tool.                                        *)
EXTENDS WorkspaceTools

CONSTANTS a, indented, b, blank, f, g, out, gone, t1, t2

MCLineHash == [x \in {a, indented, b, blank} |->
                  IF x = b THEN "h2" ELSE IF x = blank THEN "h0" ELSE "h1"]

TextFile(texts, cr, newline) ==
    [kind |-> "text", newline |-> newline,
     lines |-> [i \in DOMAIN texts |-> [text |-> texts[i], cr |-> cr]]]
Special(kind) == [kind |-> kind, newline |-> FALSE, lines |-> <<>>]

MCFiles == {[p \in {f, g, out, gone} |->
                IF p = f THEN file ELSE IF p = out THEN TextFile(<<a>>, FALSE, TRUE)
                ELSE Special(IF p = g THEN "binary" ELSE "missing")] :
                   file \in {TextFile(<<a, b>>, TRUE, FALSE),
                             TextFile(<<a, b, indented>>, FALSE, TRUE)}}

HunkOf(start, hash, end, endHash, content) ==
    [startLine |-> start, startHash |-> hash, endLine |-> end, endHash |-> endHash,
     content |-> content]
Grow == <<b, indented>>

Singles == {HunkOf(1, "h1", 0, "", Grow), HunkOf(1, "h1", 0, "", <<>>),
            HunkOf(2, "h2", 0, "", <<a>>), HunkOf(2, "h2", 3, "h1", Grow),
            HunkOf(1, "h1", 2, "h2", <<>>), HunkOf(1, "h1", 2, "h1", <<a>>),
            HunkOf(2, "h2", 1, "h1", <<a>>), HunkOf(3, "h1", 0, "", <<>>),
            HunkOf(2, "h1", 0, "", Grow)}

Edit(path, hunks) == [tool |-> "edit", id |-> 0, path |-> path, hunks |-> hunks]
Shell(path) == [tool |-> "shell", id |-> 1, command |-> TRUE, path |-> path, programs |-> 0]
Git(action, path) ==
    [tool |-> "git", id |-> 2, action |-> action, full |-> TRUE, path |-> path, programs |-> 0]
Make(tool, root) == [tool |-> tool, id |-> 2, root |-> root, programs |-> 0]
Diagnose(path) == [tool |-> "diagnose", id |-> 2, path |-> path, programs |-> 0]
Find(path, inPath) ==
    [tool |-> "search", id |-> 0, path |-> path, pattern |-> a, inPath |-> inPath]
Page(path, offset, limit) ==
    [tool |-> "read", id |-> 0, path |-> path, offset |-> offset, limit |-> limit]

FileCalls ==
    {Edit(f, <<h>>) : h \in Singles}
    \cup {Edit(f, <<h, k>>) : h \in Singles,
                              k \in {x \in Singles : x.content = <<>> /\ x.endLine = 0}}
    \cup {Edit(g, <<HunkOf(1, "h1", 0, "", <<a>>)>>), Edit(out, <<>>), Edit(f, <<>>),
          Page(f, 1, 1), Page(f, 4, 1), Page(out, 0, 2), Page(NoPath, 0, 1),
          Find(NoPath, {}), Find(NoPath, {f}), Find(f, {}), Find(out, {}),
          [tool |-> "project", id |-> 0]}

MCCall == [t \in {t1, t2} |->
              FileCalls \cup IF t = t1 THEN {Shell(NoPath), Shell(out)}
                             ELSE {Make("build", {"sln", "csproj"}), Make("test", {}),
                                   Git("blame", NoPath), Git("diff", f), Diagnose(gone)}]
=============================================================================
