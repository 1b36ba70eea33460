--------------------------- MODULE MCHeapEvidence ---------------------------
EXTENDS HeapEvidence

Flag(f)    == [flag |-> f, value |-> TRUE]
With(f, v) == [flag |-> f, value |-> v]

Auto == With("--glibc-profile", "auto")
Wide == With("--max-regular-bins", 126)
ToFile == With("--json-out", "trace")
Full == <<Auto, Flag("--all-allocator-views")>>

Basic ==
  <<With("--allocator-views", "basic"), Flag("--tcache-struct"), With("--break-on", "double-free"),
    With("--break-on", "suspicious")>>
OnlyBins ==
  <<Flag("--fastbins"), Flag("--unsorted-bin"), Flag("--smallbins"), Flag("--largebins"),
    Flag("--heap-scan"), Auto>>

Silent ==
  Full \o <<Flag("--events-only"), Flag("--layout"), Flag("--json"), With("--break-on-free", UserOf(Chunk(1))),
            With("--break-on-alloc-size", Asked)>>

Session(line, version, skew, class) ==
  [line |-> line, version |-> version, skew |-> skew, class |-> class]

\* Everything that is told of the arena, and a layout too short for the heap.
Searching ==
  Full \o <<Flag("--arena-experiment"), Flag("--fastbin-experiment"), Flag("--unsorted-experiment"),
            Flag("--bin-experiment"), Flag("--tcache-struct"), With("--max-layout-chunks", 2)>>
Guessing ==
  <<Flag("--main-arena-top"), Flag("--fastbin-experiment"), With("--main-arena-top-offset", 12),
    With("--main-arena-offset", 5), Flag("--tcache-struct"), Flag("--no-chunks"),
    Flag("--heap-scan")>>

\* The last four are refused, or show too little to read a bin.
Sessions ==
  {Session(Basic, "2.35", 0, c) : c \in {"fastbin", "smallbin"}}
  \cup {Session(Full \o <<Wide>>, "2.35", 0, c) : c \in {"fastbin", "smallbin", "largebin"}}
  \cup {Session(Full \o <<Wide>>, "2.35", 2, "smallbin"),
        Session(Full \o <<Wide, ToFile>>, "2.35", 0, "fastbin"),
        Session(Searching \o <<ToFile>>, "2.35", 0, "smallbin"),
        Session(Guessing, "2.35", 0, "fastbin"),
        Session(OnlyBins, "2.35", 0, "largebin"),
        Session(Full, "2.39", 2, "largebin"),
        Session(<<With("--stdin-file", "a"), With("--stdin-text", "b")>>, "2.35", 0, "fastbin"),
        Session(<<With("--allocator-views", "basic"), Flag("--all-allocator-views")>>,
                "2.35", 0, "fastbin"),
        Session(<<Flag("--live-tui"), Flag("--json")>>, "2.35", 0, "fastbin"),
        Session(Silent, "2.35", 0, "fastbin")}
=============================================================================
