----------------------------- MODULE MCGpdmaChain -----------------------------
(***************************************************************************)
(* The chain builders and the channel, for every sequence of up to three   *)
(* segments over a few lengths and repetition counts and every place of    *)
(* the descriptor table around a region boundary.                          *)
(***************************************************************************)
EXTENDS GpdmaWalk

Lengths == {2, 4}       \* segment lengths to try
RepCounts == 0 .. 3     \* repetition counts to try
MaxCount == 3           \* segments to try at most

\* Segments of one framebuffer never start at the same address.
Start(i) == 100 * i

MCLayouts ==
  {s \in UNION {{[i \in 1 .. n |-> [ptr |-> Start(i), len |-> f[i].len, reps |-> f[i].reps]] :
                   f \in [1 .. n -> [len : Lengths, reps : RepCounts]]} : n \in 1 .. MaxCount} :
     \E i \in DOMAIN s : s[i].reps > 0}
===============================================================================
