CONSTANTS
    a = a
    indented = indented
    b = b
    blank = blank
    f = f
    g = g
    out = out
    gone = gone
    t1 = t1
    t2 = t2
    Text = {a, indented, b, blank}
    Blank = blank
    Hash = {"", "h0", "h1", "h2"}
    LineHash <- MCLineHash
    Thread = {t1, t2}
    Path = {f, g, out, gone}
    Inside = {f, g, gone}
    NoPath = NoPath
    Skipped = {gone}
    Files <- MCFiles
    Call <- MCCall
    MaxHits = 1
    MaxLines = 1
SPECIFICATION Spec
PROPERTY StaleHashesWriteNothing
CHECK_DEADLOCK FALSE
