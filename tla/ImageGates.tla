----------------------------- MODULE ImageGates -----------------------------
(***************************************************************************)
(* What decides whether an image is inferred, by its size alone: the gates *)
(* of the edge (ws.rs, process_binary, on dimensions jpeg.rs reads from    *)
(* the header), those of the worker (inference.py, run, on the decoded     *)
(* image) and the plan pixel_token_math.py makes of the same numbers.      *)
(*                                                                         *)
(* The two sides read the EXIF orientation with two different programs.    *)
(* Neither knows what the other has read, so here the worker swaps the     *)
(* sides of the image or not, whatever the edge did.                       *)
(***************************************************************************)
EXTENDS Naturals

CONSTANTS
    MaxImageDim,  \* LA_MAX_IMAGE_DIM
    Dims          \* the widths and heights an image can be stored with

ASSUME MaxImageDimAssumption == MaxImageDim \in Nat
ASSUME DimsAssumption == Dims \subseteq Nat \ {0}

VARIABLES
    stored,       \* <<width, height>> in the JPEG header
    orientation,  \* its EXIF Orientation, 1 when there is none
    measured,     \* <<width, height>> the edge applies its gates to
    decoded,      \* <<width, height>> of the image the model would see
    phase,        \* who has the image
    refusal,      \* the gate that refused it
    plan          \* the resize plan of the reply

vars == <<stored, orientation, measured, decoded, phase, refusal, plan>>

MIN_IMAGE_DIM == 32
PATCH_PX == 14
LLM_TOKEN_PX == 28
IN_TOKEN_LIMIT == 25600
POS_EMB_CAP == 512
MAX_LLM_TOKENS == 6400
ADVERTISED_DIM == 2240
MAX_IMAGE_PIXELS == 20000000

Patches(d) == d \div PATCH_PX

GridPast(d) == (d \div LLM_TOKEN_PX + 1) * LLM_TOKEN_PX
GridDown(d) == (d \div LLM_TOKEN_PX) * LLM_TOKEN_PX

(* The next multiple of 28. *)
Grid(d) == ((d + LLM_TOKEN_PX - 1) \div LLM_TOKEN_PX) * LLM_TOKEN_PX

OverTokenLimit(size) == Patches(size[1]) * Patches(size[2]) > IN_TOKEN_LIMIT

OverPosEmb(size) ==
    \E i \in 1..2 : Patches(Grid(size[i])) >= POS_EMB_CAP

Swap(size) == <<size[2], size[1]>>

-----------------------------------------------------------------------------
EdgeRefusalOnRawSize(size) ==
    IF \E i \in 1..2 : size[i] < MIN_IMAGE_DIM THEN "too_small"
    ELSE IF \E i \in 1..2 : size[i] > MaxImageDim THEN "too_large"
    ELSE IF OverTokenLimit(size) THEN "in_token_limit"
    ELSE IF \E i \in 1..2 : Patches(size[i]) >= POS_EMB_CAP THEN "pos_emb"
    ELSE "none"

(* The first gate of process_binary that refuses the size, in its order. *)
EdgeRefusal(size) ==
    IF \E i \in 1..2 : size[i] < MIN_IMAGE_DIM THEN "too_small"
    ELSE IF \E i \in 1..2 : size[i] > MaxImageDim THEN "too_large"
    ELSE IF OverTokenLimit(size) THEN "in_token_limit"
    ELSE IF OverPosEmb(size) THEN "pos_emb"
    ELSE "none"

(* The same for run: PIL's decompression bomb, then the two gates. *)
WorkerRefusal(size) ==
    IF size[1] * size[2] > MAX_IMAGE_PIXELS THEN "bomb"
    ELSE IF OverTokenLimit(size) THEN "in_token_limit"
    ELSE IF OverPosEmb(size) THEN "pos_emb"
    ELSE "none"

(* One side of the model's own downscale, floor(d * sqrt(limit / patches)). *)
Downscaled(d, patches) ==
    CHOOSE k \in Nat : /\ k * k * patches <= d * d * IN_TOKEN_LIMIT
                       /\ (k + 1) * (k + 1) * patches > d * d * IN_TOKEN_LIMIT

(* plan_resize, and the None it never returns: its own pos_emb check raises.*)
PlanResize(size) ==
    LET patches == Patches(size[1]) * Patches(size[2])
        fit == [i \in 1..2 |-> IF OverTokenLimit(size)
                               THEN Downscaled(size[i], patches) ELSE size[i]]
        dst == [i \in 1..2 |-> Grid(fit[i])]
    IN  [dst |-> dst,
         n_llm_tokens |-> (Patches(dst[1]) * Patches(dst[2])) \div 4,
         raises |-> \E i \in 1..2 : Patches(dst[i]) >= POS_EMB_CAP]

NoPlan == [dst |-> <<0, 0>>, n_llm_tokens |-> 0, raises |-> FALSE]

-----------------------------------------------------------------------------
Init ==
    /\ stored \in Dims \X Dims
    /\ orientation \in 1..8
    /\ measured = <<0, 0>> /\ decoded = <<0, 0>>
    /\ phase = "edge"
    /\ refusal = "none"
    /\ plan = NoPlan

(* read_dimensions_blocking: orientations 5 to 8 exchange the sides. *)
Measure ==
    /\ phase = "edge"
    /\ measured' = IF orientation \in 5..8 THEN Swap(stored) ELSE stored
    /\ phase' = "measured"
    /\ UNCHANGED <<stored, orientation, decoded, refusal, plan>>

EdgeGates ==
    /\ phase = "measured"
    /\ refusal' = EdgeRefusal(measured)
    /\ phase' = IF refusal' = "none" THEN "worker" ELSE "refused"
    /\ UNCHANGED <<stored, orientation, measured, decoded, plan>>

(* Image.open, exif_transpose and convert. *)
Decode ==
    /\ phase = "worker"
    /\ decoded' \in {stored, Swap(stored)}
    /\ phase' = "decoded"
    /\ UNCHANGED <<stored, orientation, measured, refusal, plan>>

WorkerGates ==
    /\ phase = "decoded"
    /\ refusal' = WorkerRefusal(decoded)
    /\ phase' = IF refusal' = "none" THEN "accepted" ELSE "refused_by_worker"
    /\ UNCHANGED <<stored, orientation, measured, decoded, plan>>

Plan ==
    /\ phase = "accepted"
    /\ plan' = PlanResize(decoded)
    /\ phase' = "planned"
    /\ UNCHANGED <<stored, orientation, measured, decoded, refusal>>

Next == Measure \/ EdgeGates \/ Decode \/ WorkerGates \/ Plan

Spec == Init /\ [][Next]_vars

-----------------------------------------------------------------------------
Phase == {"edge", "measured", "worker", "decoded", "accepted", "planned",
          "refused", "refused_by_worker"}

TypeOK ==
    /\ stored \in (Nat \ {0}) \X (Nat \ {0})
    /\ orientation \in 1..8
    /\ measured \in Nat \X Nat /\ decoded \in Nat \X Nat
    /\ phase \in Phase

(* The two sides have the same sides of the same image, in some order. *)
SameImage ==
    /\ phase # "edge" => measured \in {stored, Swap(stored)}
    /\ phase \in {"worker", "decoded", "accepted", "planned", "refused_by_worker"} =>
           EdgeRefusal(measured) = "none"
    /\ phase \in {"decoded", "accepted", "planned", "refused_by_worker"} =>
           decoded \in {stored, Swap(stored)}
    /\ phase = "planned" => plan = PlanResize(decoded)

(* An image the edge has let pass is never refused by the worker, even when *)
(* the two disagree about its orientation: no GPU turn is queued for a     *)
(* refusal the edge could have given.                                      *)
EdgeDecides == phase # "refused_by_worker"

(* What the model sees has the size that was sent, but for the rounding up  *)
(* to the grid of 28: it is never downscaled and the plan never raises.    *)
NeverDownscaled ==
    phase = "planned" =>
        /\ ~plan.raises
        /\ \A i \in 1..2 : plan.dst[i] - decoded[i] \in 0..(LLM_TOKEN_PX - 1)

(* An image needs at least one LLM token and, within the dimensions that    *)
(* the capabilities name as the limit, no more than the number of tokens   *)
(* they name.                                                              *)
TokensWithinAdvertised ==
    phase = "planned" =>
        /\ plan.n_llm_tokens >= 1
        /\ decoded[1] <= ADVERTISED_DIM /\ decoded[2] <= ADVERTISED_DIM =>
               plan.n_llm_tokens <= MAX_LLM_TOKENS

(* ws.rs and inference.py: with LA_MAX_IMAGE_DIM at most 2240 the two gates *)
(* on patches are dormant.                                                 *)
PatchGatesDormant ==
    MaxImageDim <= 2240 => refusal \notin {"in_token_limit", "pos_emb"}
=============================================================================
