---------------------------- MODULE GlibcProfiles ----------------------------
(***************************************************************************)
(* Which layout of glibc the tracer assumes (crates/heapify-core/src/      *)
(* glibc.rs): the profile asked for on the command line against the        *)
(* version found in the target's libc, and the metadata of the bins.       *)
(***************************************************************************)
EXTENDS Integers

CONSTANT None

Modern == "glibc-x86_64-modern"
G235   == "glibc-2.35-x86_64"

Profiles == {Modern, G235}

\* Only the exact profile knows where the arena keeps its bins.
HasOffsets(profile) == profile = G235

\* profile_version and profile_for_detected_glibc_version
VersionOf(profile) == IF profile = G235 THEN "2.35" ELSE None
ProfileFor(version) == IF version = "2.35" THEN G235 ELSE None

Selection(selected, confidence, warned) ==
  [selected |-> selected, confidence |-> confidence, warned |-> warned]

\* select_glibc_profile: None where the request names no profile.
Select(request, version) ==
  CASE request = "auto" /\ ProfileFor(version) # None ->
         Selection(ProfileFor(version), "high", FALSE)
    [] request = "auto" /\ ProfileFor(version) = None -> Selection(Modern, "low", TRUE)
    [] request # "auto" /\ request \notin Profiles    -> None
    [] request \in Profiles /\ (version = None \/ VersionOf(request) = None) ->
         Selection(request, "medium", FALSE)
    [] request \in Profiles /\ version # None /\ VersionOf(request) = version ->
         Selection(request, "high", FALSE)
    [] OTHER -> Selection(request, "low", TRUE)

-----------------------------------------------------------------------------
(* regular_bin_metadata: the array of bins starts with the unsorted bin,   *)
(* which glibc calls bin 1.                                                *)

GlibcIndex(index) == index + 1

Role(index) ==
  CASE index = 0                     -> "unsorted"
    [] GlibcIndex(index) \in 2 .. 63 -> "smallbin"
    [] OTHER                         -> "largebin"

SmallSize(index, alignment) == GlibcIndex(index) * alignment

FastbinSize(index, least, alignment) == least + index * alignment
=============================================================================
