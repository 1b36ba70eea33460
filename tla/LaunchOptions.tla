--------------------------- MODULE LaunchOptions ---------------------------
(***************************************************************************)
(* The command line of `heapify trace-heap' (crates/heapify-cli/src/app.rs *)
(* parse_trace_heap_args) and the configuration it stands for.             *)
(*                                                                         *)
(* A line is a sequence of options [flag, value], taken in order up to the *)
(* first argument that is none, which names the program.  The value is     *)
(* None where it is missing or does not parse.                             *)
(***************************************************************************)
EXTENDS Integers, Sequences

CONSTANT None

P == INSTANCE GlibcProfiles

BinViews == {"fastbins", "unsorted_bin", "smallbins", "largebins"}

\* What each flag shows; a bin cannot be shown without the arena it is part of.
Shown(flag) ==
  CASE flag = "--tcache-candidates"     -> {"tcache"}
    [] flag = "--tcache-struct"         -> {"tcache_struct"}
    [] flag = "--main-arena"            -> {"main_arena"}
    [] flag = "--arena-experiment"      -> {"arena_experiment", "main_arena"}
    [] flag = "--fastbin-experiment"    -> {"fastbin_experiment", "main_arena"}
    [] flag = "--unsorted-experiment"   -> {"unsorted_experiment", "main_arena"}
    [] flag = "--bin-experiment"        -> {"bin_experiment", "main_arena"}
    [] flag = "--unsorted-bin"          -> {"unsorted_bin", "main_arena"}
    [] flag = "--fastbins"              -> {"fastbins", "main_arena"}
    [] flag = "--regular-bins"          -> {"regular_bins", "main_arena"}
    [] flag = "--smallbins"             -> {"smallbins", "regular_bins", "main_arena"}
    [] flag = "--largebins"             -> {"largebins", "regular_bins", "main_arena"}
    [] flag = "--heap-scan"             -> {"heap_scan"}
    [] flag = "--main-arena-offset"     -> {"main_arena"}
    [] flag = "--main-arena-top"        -> {"top", "main_arena"}
    [] flag = "--main-arena-top-offset" -> {"top", "main_arena"}
    [] OTHER                            -> {}

\* Options that only store their value, the last one winning; of Limits it is a number.
Limits == {"--max-layout-chunks", "--max-tcache-chain", "--max-fastbin-chain",
           "--max-unsorted-chain", "--max-regular-bins", "--max-smallbin-chain",
           "--max-largebin-chain"}
Stored == Limits \cup
          {"--main-arena-offset", "--main-arena-top-offset", "--trace-mode", "--libc", "--ld",
           "--library-path", "--preload", "--cwd", "--glibc-profile", "--json-out",
           "--allocator-views"}
Breaks   == {"--break-on", "--break-on-free", "--break-on-alloc-size"}
Listed   == {"--set-env", "--unset-env"}
Stdin    == {"--stdin-file", "--stdin-text"}
Switches == {"--all-allocator-views", "--libc-symbols", "--clear-env", "--json", "--live-tui"}

\* RenderConfig::default
Default ==
  [texts  |-> {"chunks", "notes", "explanations"},  \* show_chunks, ..., show_layout
   views  |-> {},                                   \* the other show_*
   stored |-> [s \in Stored |-> CASE s = "--max-regular-bins" -> 16
                                  [] s = "--max-layout-chunks" -> 32
                                  [] s = "--glibc-profile" -> P!Modern
                                  [] OTHER -> None],
   listed |-> [l \in Listed |-> <<>>],
   breaks |-> <<>>,                                 \* break_conditions
   on     |-> {},                                   \* the switches met
   stdin  |-> {},                                   \* where the program reads from, if said
   eventsOnly |-> FALSE]

Allowed(o) ==
  /\ o.flag \in Stored \cup Listed \cup Breaks \cup Stdin => o.value # None
  /\ o.flag = "--allocator-views" => o.value \in {"none", "basic", "full"}
  /\ o.flag = "--trace-mode" => o.value \in {"plt", "libc"}
  /\ o.flag = "--glibc-profile" => o.value \in P!Profiles \cup {"auto"}
  /\ o.flag = "--break-on" => o.value \in {"suspicious", "double-free"}

\* --layout only adds to a display that shows something else.
Texts(c, flag) ==
  CASE flag = "--events-only"                   -> {}
    [] flag = "--no-chunks"                     -> c.texts \ {"chunks"}
    [] flag = "--layout" /\ c.texts \ {"layout"} # {} -> c.texts \cup {"layout"}
    [] OTHER                                    -> c.texts

Applied(c, o) ==
  [texts  |-> Texts(c, o.flag),
   views  |-> c.views \cup Shown(o.flag),
   stored |-> [s \in Stored |-> IF s = o.flag THEN o.value ELSE c.stored[s]],
   listed |-> [l \in Listed |-> IF l = o.flag THEN Append(c.listed[l], o.value)
                                ELSE c.listed[l]],
   breaks |-> IF o.flag \in Breaks THEN Append(c.breaks, o) ELSE c.breaks,
   on     |-> c.on \cup ({o.flag} \cap Switches),
   stdin  |-> IF o.flag \in Stdin THEN {o} ELSE c.stdin,
   eventsOnly |-> c.eventsOnly \/ o.flag = "--events-only"]

\* Mutant: a second input for the program replaces the first.
OptionReplaces(configs, o) == {Applied(c, o) : c \in {x \in configs : Allowed(o)}}

\* One round of the loop: what comes of the configuration, and nothing if the line is
\* refused.
Option(configs, o) ==
  {Applied(c, o) : c \in {x \in configs : Allowed(o) /\ (o.flag \in Stdin => x.stdin = {})}}

-----------------------------------------------------------------------------
(* After the last option *)

\* resolve_allocator_views_preset
Preset(c) ==
  IF "--all-allocator-views" \in c.on
  THEN IF c.stored["--allocator-views"] # None THEN None ELSE "full"
  ELSE IF c.stored["--allocator-views"] = None THEN "none" ELSE c.stored["--allocator-views"]

\* apply_allocator_views_preset
PresetViews(preset) ==
  CASE preset = "none"  -> {}
    [] preset = "basic" -> {"tcache", "heap_scan"}
    [] preset = "full"  -> {"tcache", "heap_scan", "main_arena", "top", "regular_bins"}
                             \cup BinViews

WithPreset(c) ==
  [c EXCEPT !.views = @ \cup PresetViews(Preset(c)),
            !.texts = @ \cup (IF Preset(c) = "none" THEN {} ELSE {"layout"})]

\* With nothing else to show there is no layout, and no scan.
Trimmed(c) ==
  IF c.texts \subseteq {"layout"}
  THEN [c EXCEPT !.texts = {}, !.views = @ \ {"heap_scan"}] ELSE c

\* resolve_trace_mode
Mode(c) ==
  IF c.stored["--trace-mode"] = "plt" /\ "--libc-symbols" \in c.on THEN None
  ELSE IF c.stored["--trace-mode"] = "libc" \/ "--libc-symbols" \in c.on
    THEN "libc" ELSE "plt"

Refused(c, program) ==
  \/ program = None
  \/ Preset(c) = None \/ Mode(c) = None
  \/ "--live-tui" \in c.on /\ ("--json" \in c.on \/ c.eventsOnly)

\* The loop over the options.
Options(line) ==
  LET after[k \in 0 .. Len(line)] ==
        IF k = 0 THEN {Default} ELSE Option(after[k - 1], line[k])
  IN  after[Len(line)]

\* parse_trace_heap_args: the configuration, or nothing.
Parse(line, program) ==
  {Trimmed(WithPreset(c)) : c \in {x \in Options(line) : ~Refused(x, program)}}

-----------------------------------------------------------------------------
(* What the session takes from it *)

Request(c) == c.stored["--glibc-profile"]
Limit(c)   == c.stored["--max-regular-bins"]

\* select_main_arena_top_offset, the offset given being the right one.
TopKnown(c, profile) ==
  c.stored["--main-arena-top-offset"] # None \/ P!HasOffsets(profile)

\* profile_backed_views_enabled
ProfileBacked(c) ==
  \/ c.views \cap (BinViews \cup {"main_arena", "top", "regular_bins", "bin_experiment",
                                  "fastbin_experiment", "unsorted_experiment"}) # {}
  \/ Preset(c) = "full"
=============================================================================
