----------------------------- MODULE Geometries -----------------------------
(* Pools of the models for the runs of CacheRebuild: sizes at startup, least *)
(* sizes that can run, and what a unit costs.                                *)

(* A latent-attention model with offloaded experts (GLM-5.2) *)
LatentPools == {"pages", "moe"}
LatentStart == [pages |-> 2, moe |-> 2]
LatentLeast == [pages |-> 1, moe |-> 1]
LatentCost  == [pages |-> 1, moe |-> 1]
LargeStart  == [pages |-> 4, moe |-> 2]   \* --num-pages at startup is not held to the budget

(* DeepSeek-V4: a window pool, paged *)
WindowPools == {"pages", "window", "moe"}
WindowStart == [pages |-> 4, window |-> 2, moe |-> 1]
WindowLeast == [pages |-> 1, window |-> 1, moe |-> 1]
WindowCost  == [pages |-> 1, window |-> 2, moe |-> 1]

(* A hybrid model: full attention over gated delta net states *)
HybridPools == {"pages", "mamba", "moe"}
HybridStart == [pages |-> 2, mamba |-> 2, moe |-> 2]
HybridLeast == [pages |-> 1, mamba |-> 2, moe |-> 1]
HybridCost  == [pages |-> 1, mamba |-> 1, moe |-> 1]
=============================================================================
