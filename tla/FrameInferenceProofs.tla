------------------------ MODULE FrameInferenceProofs ------------------------
(***************************************************************************)
(* One request in the worker, in two parts.                                *)
(*                                                                         *)
(* The image: the gates of ImageGates for every width, every height and    *)
(* every value of LA_MAX_IMAGE_DIM.  The arithmetic comes first; the       *)
(* invariant SameImage carries it along the steps.                         *)
(*                                                                         *)
(* The answer: what the mapping makes of it, whatever the model has        *)
(* written and however long.  The counting is by disjoint sets and one     *)
(* injection; what the parser's recursive functions compute is shown by    *)
(* least or greatest counterexamples, from LeastNat.                       *)
(***************************************************************************)
EXTENDS FrameInference, TLAPS, FiniteSetTheorems, WellFoundedInduction

(* A division by 14 cuts off at most 13. *)
LEMMA PatchesBound ==
    ASSUME NEW d \in Nat
    PROVE  /\ Patches(d) \in Nat
           /\ PATCH_PX * Patches(d) <= d
           /\ d <= PATCH_PX * Patches(d) + 13
  BY SMT DEF Patches, PATCH_PX

(* The grid is a multiple of 28 at most 27 above. *)
LEMMA GridBound ==
    ASSUME NEW d \in Nat
    PROVE  /\ Grid(d) \in Nat
           /\ d <= Grid(d) /\ Grid(d) <= d + 27
           /\ Grid(d) = 28 * (Grid(d) \div 28)
           /\ Grid(d) \div 28 \in Nat
           /\ Patches(Grid(d)) = 2 * (Grid(d) \div 28)
  BY SMT DEF Grid, LLM_TOKEN_PX, Patches, PATCH_PX

(* A product of naturals grows with its factors. *)
LEMMA ProductMonotone ==
    ASSUME NEW a \in Nat, NEW b \in Nat, NEW c \in Nat, NEW d \in Nat, a <= c, b <= d
    PROVE  a * b <= c * d
<1>1. a * b <= c * b
  <2>1. PICK k \in Nat : c = a + k
    BY SMT
  <2>2. c * b = a * b + k * b /\ k * b \in Nat /\ a * b \in Nat
    BY <2>1, SMT
  <2> QED
    BY <2>2, SMT
<1>2. c * b <= c * d
  <2>1. PICK k \in Nat : d = b + k
    BY SMT
  <2>2. c * d = c * b + c * k /\ c * k \in Nat /\ c * b \in Nat
    BY <2>1, SMT
  <2> QED
    BY <2>2, SMT
<1> QED
  BY <1>1, <1>2, SMT

(* The gates on patches do not tell the two sides of an image apart. *)
LEMMA GatesSymmetric ==
    ASSUME NEW w \in Nat, NEW h \in Nat
    PROVE  /\ OverTokenLimit(<<w, h>>) <=> OverTokenLimit(<<h, w>>)
           /\ OverPosEmb(<<w, h>>) <=> OverPosEmb(<<h, w>>)
<1>1. Patches(w) * Patches(h) = Patches(h) * Patches(w)
  BY PatchesBound, SMT
<1>2. OverPosEmb(<<w, h>>) <=> (\/ Patches(Grid(w)) >= POS_EMB_CAP
                                \/ Patches(Grid(h)) >= POS_EMB_CAP)
  <2>1. \A i \in 1..2 : i = 1 \/ i = 2
    BY SMT
  <2> QED
    BY <2>1, SMT DEF OverPosEmb
<1>3. OverPosEmb(<<h, w>>) <=> (\/ Patches(Grid(w)) >= POS_EMB_CAP
                                \/ Patches(Grid(h)) >= POS_EMB_CAP)
  <2>1. \A i \in 1..2 : i = 1 \/ i = 2
    BY SMT
  <2> QED
    BY <2>1, SMT DEF OverPosEmb
<1> QED
  BY <1>1, <1>2, <1>3 DEF OverTokenLimit

(* What passes the gates on patches is far from a decompression bomb. *)
LEMMA NoBomb ==
    ASSUME NEW w \in Nat, NEW h \in Nat,
           ~OverTokenLimit(<<w, h>>), ~OverPosEmb(<<w, h>>)
    PROVE  w * h <= MAX_IMAGE_PIXELS
<1> DEFINE a == Patches(w)
           b == Patches(h)
<1>1. a \in Nat /\ b \in Nat /\ w <= 14 * a + 13 /\ h <= 14 * b + 13
  BY PatchesBound, SMT DEF PATCH_PX
<1>2. a * b <= 25600
  <2>1. <<w, h>>[1] = w /\ <<w, h>>[2] = h
    OBVIOUS
  <2>2. a * b \in Nat
    BY <1>1, SMT
  <2> QED
    BY <2>1, <2>2, SMT DEF OverTokenLimit, IN_TOKEN_LIMIT
<1>3. a <= 512 /\ b <= 512
  <2>1. ~(Patches(Grid(w)) >= 512) /\ ~(Patches(Grid(h)) >= 512)
    <3>1. 1 \in 1..2 /\ 2 \in 1..2
      BY SMT
    <3> QED
      BY <3>1, SMT DEF OverPosEmb, POS_EMB_CAP
  <2>2. w <= Grid(w) /\ h <= Grid(h) /\ Grid(w) \in Nat /\ Grid(h) \in Nat
    BY GridBound
  <2> HIDE DEF a, b
  <2>3. Grid(w) <= 14 * 512 /\ Grid(h) <= 14 * 512
    <3>1. Patches(Grid(w)) \in Nat /\ Grid(w) <= 14 * Patches(Grid(w)) + 13
      BY <2>2, PatchesBound DEF PATCH_PX
    <3>2. Patches(Grid(h)) \in Nat /\ Grid(h) <= 14 * Patches(Grid(h)) + 13
      BY <2>2, PatchesBound DEF PATCH_PX
    <3> QED
      BY <2>1, <2>2, <3>1, <3>2, SMT
  <2>4. 14 * a <= w /\ 14 * b <= h
    BY PatchesBound, SMT DEF PATCH_PX, a, b
  <2> QED
    BY <2>2, <2>3, <2>4, <1>1, SMT
<1> HIDE DEF a, b
<1>4. w * h <= (14 * a + 13) * (14 * b + 13)
  BY <1>1, ProductMonotone, SMT
<1>5. (14 * a + 13) * (14 * b + 13) = 196 * (a * b) + 182 * (a + b) + 169
  BY <1>1, SMT
<1>6. a * b \in Nat
  BY <1>1, SMT
<1>7. w * h \in Nat
  BY SMT
<1> QED
  BY <1>1, <1>2, <1>3, <1>4, <1>5, <1>6, <1>7, SMT DEF MAX_IMAGE_PIXELS

(* What the edge accepts, the worker accepts, in either orientation. *)
LEMMA EdgeImpliesWorker ==
    ASSUME NEW w \in Nat, NEW h \in Nat, EdgeRefusal(<<w, h>>) = "none"
    PROVE  WorkerRefusal(<<w, h>>) = "none" /\ WorkerRefusal(<<h, w>>) = "none"
<1>1. ~OverTokenLimit(<<w, h>>) /\ ~OverPosEmb(<<w, h>>)
  BY SMT DEF EdgeRefusal
<1>2. ~OverTokenLimit(<<h, w>>) /\ ~OverPosEmb(<<h, w>>)
  BY <1>1, GatesSymmetric
<1>3. w * h <= MAX_IMAGE_PIXELS /\ h * w <= MAX_IMAGE_PIXELS
  BY <1>1, <1>2, NoBomb
<1>4. w * h \in Nat /\ h * w \in Nat /\ MAX_IMAGE_PIXELS \in Nat
  BY SMT DEF MAX_IMAGE_PIXELS
<1>5. ~(w * h > MAX_IMAGE_PIXELS) /\ ~(h * w > MAX_IMAGE_PIXELS)
  BY <1>3, <1>4, SMT
<1> QED
  BY <1>1, <1>2, <1>5, Zenon DEF WorkerRefusal

-----------------------------------------------------------------------------
LEMMA TypesKept == ASSUME TypeOK, [Next]_vars PROVE TypeOK'
<1>0. stored = <<stored[1], stored[2]>> /\ stored[1] \in Nat /\ stored[2] \in Nat
  BY DEF TypeOK
<1>1. CASE Measure
  BY <1>0, <1>1 DEF TypeOK, Measure, Phase, Swap
<1>2. CASE EdgeGates
  BY <1>2 DEF TypeOK, EdgeGates, Phase
<1>3. CASE Decode
  BY <1>0, <1>3 DEF TypeOK, Decode, Phase, Swap
<1>4. CASE WorkerGates
  BY <1>4 DEF TypeOK, WorkerGates, Phase
<1>5. CASE Plan
  BY <1>5 DEF TypeOK, Plan, Phase
<1>6. CASE UNCHANGED vars
  BY <1>6 DEF TypeOK, vars
<1> QED
  BY <1>1, <1>2, <1>3, <1>4, <1>5, <1>6 DEF Next

(* Type correctness: dimensions are numbers and the phases are the listed.  *)
THEOREM TypeCorrect == Spec => []TypeOK
<1>1. Init => TypeOK
  <2> SUFFICES ASSUME Init PROVE TypeOK
    OBVIOUS
  <2>1. PICK w \in Dims, h \in Dims : stored = <<w, h>>
    BY DEF Init
  <2>2. stored \in (Nat \ {0}) \X (Nat \ {0})
    BY <2>1, DimsAssumption
  <2>3. <<0, 0>> \in Nat \X Nat
    BY SMT
  <2> QED
    BY <2>2, <2>3 DEF Init, TypeOK, Phase
<1>2. TypeOK /\ [Next]_vars => TypeOK'
  BY TypesKept
<1> QED
  BY <1>1, <1>2, PTL DEF Spec

LEMMA SameImageKept == ASSUME TypeOK, SameImage, [Next]_vars PROVE SameImage'
<1>1. CASE Measure
  BY <1>1 DEF SameImage, Measure
<1>2. CASE EdgeGates
  BY <1>2 DEF SameImage, EdgeGates
<1>3. CASE Decode
  BY <1>3 DEF SameImage, Decode
<1>4. CASE WorkerGates
  BY <1>4 DEF SameImage, WorkerGates
<1>5. CASE Plan
  BY <1>5 DEF SameImage, Plan
<1>6. CASE UNCHANGED vars
  BY <1>6 DEF SameImage, vars
<1> QED
  BY <1>1, <1>2, <1>3, <1>4, <1>5, <1>6 DEF Next

(* The inductive invariant: up to its orientation, everybody speaks of the  *)
(* image that was sent, what is past the edge has passed its gates, and the*)
(* plan is that of the decoded image.                                      *)
THEOREM SameImageAlways == Spec => []SameImage
<1>1. Init => SameImage
  BY DEF Init, SameImage
<1>2. TypeOK /\ SameImage /\ [Next]_vars => SameImage'
  BY SameImageKept
<1> QED
  BY <1>1, <1>2, TypeCorrect, PTL DEF Spec

(* The edge's gates on any image of the worker's. *)
LEMMA DecodedPasses ==
    ASSUME TypeOK, SameImage, phase \in {"decoded", "accepted", "planned", "refused_by_worker"}
    PROVE  /\ decoded = <<decoded[1], decoded[2]>>
           /\ decoded[1] \in Nat \ {0} /\ decoded[2] \in Nat \ {0}
           /\ EdgeRefusal(<<decoded[1], decoded[2]>>) = "none"
              \/ EdgeRefusal(<<decoded[2], decoded[1]>>) = "none"
<1>1. PICK w \in Nat \ {0}, h \in Nat \ {0} : stored = <<w, h>>
  BY DEF TypeOK
<1>2. measured \in {<<w, h>>, <<h, w>>} /\ decoded \in {<<w, h>>, <<h, w>>}
  BY <1>1 DEF SameImage, Swap
<1>3. EdgeRefusal(measured) = "none"
  BY DEF SameImage
<1>4. decoded = <<decoded[1], decoded[2]>> /\ decoded[1] \in Nat \ {0} /\ decoded[2] \in Nat \ {0}
  BY <1>2
<1>5. measured = <<decoded[1], decoded[2]>> \/ measured = <<decoded[2], decoded[1]>>
  BY <1>2
<1> QED
  BY <1>3, <1>4, <1>5

(* Every frame the edge forwards passes the worker's gates on size,         *)
(* whatever LA_MAX_IMAGE_DIM is and however the two read the orientation.  *)
THEOREM EdgeAlwaysDecides == Spec => []EdgeDecides
<1>1. Init => EdgeDecides
  BY DEF Init, EdgeDecides
<1>2. TypeOK /\ SameImage /\ EdgeDecides /\ [Next]_vars => EdgeDecides'
  <2> SUFFICES ASSUME TypeOK, SameImage, EdgeDecides, [Next]_vars PROVE EdgeDecides'
    OBVIOUS
  <2>1. CASE WorkerGates
    <3>1. phase = "decoded"
      BY <2>1 DEF WorkerGates
    <3>2. WorkerRefusal(decoded) = "none"
      BY <3>1, DecodedPasses, EdgeImpliesWorker
    <3> QED
      BY <2>1, <3>2 DEF WorkerGates, EdgeDecides
  <2>2. CASE Measure \/ EdgeGates \/ Decode \/ Plan
    BY <2>2 DEF EdgeDecides, Measure, EdgeGates, Decode, Plan
  <2>3. CASE UNCHANGED vars
    BY <2>3 DEF EdgeDecides, vars
  <2> QED
    BY <2>1, <2>2, <2>3 DEF Next
<1> QED
  BY <1>1, <1>2, TypeCorrect, SameImageAlways, PTL DEF Spec

(* The plan of an image that passes the gates is the image itself, rounded  *)
(* up to the grid.                                                         *)
LEMMA PlanOfAccepted ==
    ASSUME NEW w \in Nat \ {0}, NEW h \in Nat \ {0},
           ~OverTokenLimit(<<w, h>>), ~OverPosEmb(<<w, h>>)
    PROVE  /\ PlanResize(<<w, h>>).dst = [i \in 1..2 |-> Grid(<<w, h>>[i])]
           /\ PlanResize(<<w, h>>).dst[1] = Grid(w)
           /\ PlanResize(<<w, h>>).dst[2] = Grid(h)
           /\ ~PlanResize(<<w, h>>).raises
<1> DEFINE dst == [i \in 1..2 |-> Grid(<<w, h>>[i])]
<1>1. PlanResize(<<w, h>>).dst = dst
  BY DEF PlanResize
<1>2. dst[1] = Grid(w) /\ dst[2] = Grid(h)
  BY SMT
<1>3. PlanResize(<<w, h>>).raises <=> \E i \in 1..2 : Patches(dst[i]) >= POS_EMB_CAP
  BY DEF PlanResize
<1>4. ~ \E i \in 1..2 : Patches(dst[i]) >= POS_EMB_CAP
  BY DEF OverPosEmb
<1> QED
  BY <1>1, <1>2, <1>3, <1>4

(* The gates on patches, for the image the worker has decoded. *)
LEMMA PlannedPasses ==
    ASSUME TypeOK, SameImage, phase = "planned"
    PROVE  /\ ~OverTokenLimit(<<decoded[1], decoded[2]>>)
           /\ ~OverPosEmb(<<decoded[1], decoded[2]>>)
           /\ plan = PlanResize(<<decoded[1], decoded[2]>>)
<1>1. /\ decoded = <<decoded[1], decoded[2]>>
      /\ decoded[1] \in Nat /\ decoded[2] \in Nat
      /\ \/ EdgeRefusal(<<decoded[1], decoded[2]>>) = "none"
         \/ EdgeRefusal(<<decoded[2], decoded[1]>>) = "none"
  BY DecodedPasses
<1>2. CASE EdgeRefusal(<<decoded[1], decoded[2]>>) = "none"
  BY <1>1, <1>2, SMT DEF EdgeRefusal, SameImage
<1>3. CASE EdgeRefusal(<<decoded[2], decoded[1]>>) = "none"
  <2>1. ~OverTokenLimit(<<decoded[2], decoded[1]>>) /\ ~OverPosEmb(<<decoded[2], decoded[1]>>)
    BY <1>3, SMT DEF EdgeRefusal
  <2> QED
    BY <1>1, <2>1, GatesSymmetric DEF SameImage
<1> QED
  BY <1>1, <1>2, <1>3

(* No accepted image is downscaled, whatever LA_MAX_IMAGE_DIM is. *)
THEOREM AlwaysNativeResolution == Spec => []NeverDownscaled
<1>1. TypeOK /\ SameImage => NeverDownscaled
  <2> SUFFICES ASSUME TypeOK, SameImage, phase = "planned"
               PROVE  /\ ~plan.raises
                      /\ \A i \in 1..2 : plan.dst[i] - decoded[i] \in 0..(LLM_TOKEN_PX - 1)
    BY DEF NeverDownscaled
  <2> DEFINE w == decoded[1]
             h == decoded[2]
  <2>1. w \in Nat \ {0} /\ h \in Nat \ {0}
    BY DecodedPasses
  <2>2. plan.dst[1] = Grid(w) /\ plan.dst[2] = Grid(h) /\ ~plan.raises
    <3>1. ~OverTokenLimit(<<w, h>>) /\ ~OverPosEmb(<<w, h>>) /\ plan = PlanResize(<<w, h>>)
      BY PlannedPasses
    <3> HIDE DEF w, h
    <3>2. /\ PlanResize(<<w, h>>).dst[1] = Grid(w)
          /\ PlanResize(<<w, h>>).dst[2] = Grid(h)
          /\ ~PlanResize(<<w, h>>).raises
      BY <2>1, <3>1, PlanOfAccepted
    <3> QED
      BY <3>1, <3>2
  <2>3. Grid(w) - w \in 0..27 /\ Grid(h) - h \in 0..27
    <3>1. Grid(w) \in Nat /\ w <= Grid(w) /\ Grid(w) <= w + 27
      BY <2>1, GridBound
    <3>2. Grid(h) \in Nat /\ h <= Grid(h) /\ Grid(h) <= h + 27
      BY <2>1, GridBound
    <3> HIDE DEF w, h
    <3> QED
      BY <2>1, <3>1, <3>2, SMT
  <2>4. plan.dst[1] - decoded[1] \in 0..27 /\ plan.dst[2] - decoded[2] \in 0..27
    BY <2>2, <2>3
  <2>5. LLM_TOKEN_PX - 1 = 27
    BY SMT DEF LLM_TOKEN_PX
  <2>6. \A i \in 1..2 : i = 1 \/ i = 2
    BY SMT
  <2> QED
    BY <2>2, <2>4, <2>5, <2>6
<1> QED
  BY <1>1, TypeCorrect, SameImageAlways, PTL

(* With a side of at most 2240 no gate on patches can be the one to refuse. *)
LEMMA ShippedCap ==
    ASSUME NEW w \in Nat, NEW h \in Nat, w <= 2240, h <= 2240
    PROVE  /\ ~OverTokenLimit(<<w, h>>) /\ ~OverPosEmb(<<w, h>>)
           /\ (Patches(Grid(w)) * Patches(Grid(h))) \div 4 <= MAX_LLM_TOKENS
<1>1. Patches(w) \in Nat /\ Patches(h) \in Nat /\ Patches(w) <= 160 /\ Patches(h) <= 160
  BY SMT DEF Patches, PATCH_PX
<1>2. Patches(w) * Patches(h) \in Nat /\ Patches(w) * Patches(h) <= 160 * 160
  <2>1. Patches(w) * Patches(h) <= 160 * 160
    BY <1>1, ProductMonotone
  <2> QED
    BY <1>1, <2>1, SMT
<1>3. ~OverTokenLimit(<<w, h>>)
  BY <1>2, SMT DEF OverTokenLimit, IN_TOKEN_LIMIT
<1>4. /\ Patches(Grid(w)) \in Nat /\ Patches(Grid(h)) \in Nat
      /\ Patches(Grid(w)) <= 160 /\ Patches(Grid(h)) <= 160
  BY SMT DEF Patches, PATCH_PX, Grid, LLM_TOKEN_PX
<1>5. ~OverPosEmb(<<w, h>>)
  <2>1. \A i \in 1..2 : i = 1 \/ i = 2
    BY SMT
  <2>2. ~(Patches(Grid(w)) >= 512) /\ ~(Patches(Grid(h)) >= 512)
    BY <1>4, SMT
  <2> QED
    BY <2>1, <2>2 DEF OverPosEmb, POS_EMB_CAP
<1>6. (Patches(Grid(w)) * Patches(Grid(h))) \div 4 <= 6400
  <2>1. Patches(Grid(w)) * Patches(Grid(h)) <= 160 * 160
    BY <1>4, ProductMonotone
  <2>2. Patches(Grid(w)) * Patches(Grid(h)) \in Nat
    BY <1>4, SMT
  <2> DEFINE p == Patches(Grid(w)) * Patches(Grid(h))
  <2> HIDE DEF p
  <2>3. p \in Nat /\ p <= 25600
    BY <2>1, <2>2, SMT DEF p
  <2>4. p \div 4 <= 6400
    BY <2>3, SMT
  <2> QED
    BY <2>4 DEF p
<1> QED
  BY <1>3, <1>5, <1>6 DEF MAX_LLM_TOKENS

(* As long as LA_MAX_IMAGE_DIM is at most 2240, as shipped, the gates on    *)
(* patches never refuse anything ...                                       *)
THEOREM GatesDormant == Spec => []PatchGatesDormant
<1> DEFINE Inv == MaxImageDim <= 2240 =>
                      refusal \in {"none", "too_small", "too_large", "bomb"}
<1>1. Init => Inv
  BY DEF Init
<1>2. TypeOK /\ SameImage /\ Inv /\ [Next]_vars => Inv'
  <2> SUFFICES ASSUME TypeOK, SameImage, Inv, [Next]_vars, MaxImageDim <= 2240
               PROVE  refusal' \in {"none", "too_small", "too_large", "bomb"}
    OBVIOUS
  <2>1. CASE EdgeGates
    <3>1. PICK w \in Nat, h \in Nat : measured = <<w, h>>
      BY DEF TypeOK
    <3>2. CASE w <= 2240 /\ h <= 2240
      BY <2>1, <3>1, <3>2, ShippedCap DEF EdgeGates, EdgeRefusal
    <3>3. CASE w > 2240 \/ h > 2240
      <4>1. \E i \in 1..2 : measured[i] > MaxImageDim
        <5>1. w > MaxImageDim \/ h > MaxImageDim
          BY <3>3, MaxImageDimAssumption, SMT
        <5>2. measured[1] = w /\ measured[2] = h /\ 1 \in 1..2 /\ 2 \in 1..2
          BY <3>1, SMT
        <5> QED
          BY <5>1, <5>2
      <4> QED
        BY <2>1, <4>1 DEF EdgeGates, EdgeRefusal
    <3> QED
      BY <3>1, <3>2, <3>3, SMT
  <2>2. CASE WorkerGates
    <3>1. WorkerRefusal(decoded) = "none"
      BY <2>2, DecodedPasses, EdgeImpliesWorker DEF WorkerGates
    <3> QED
      BY <2>2, <3>1 DEF WorkerGates
  <2>3. CASE Measure \/ Decode \/ Plan
    BY <2>3 DEF Measure, Decode, Plan
  <2>4. CASE UNCHANGED vars
    BY <2>4 DEF vars
  <2> QED
    BY <2>1, <2>2, <2>3, <2>4 DEF Next
<1>3. Inv => PatchGatesDormant
  BY DEF PatchGatesDormant
<1> QED
  BY <1>1, <1>2, <1>3, TypeCorrect, SameImageAlways, PTL DEF Spec

(* A quarter of at least two times two patches is at least one. *)
LEMMA QuarterBound ==
    ASSUME NEW a \in Nat, NEW b \in Nat, 2 <= a, 2 <= b
    PROVE  (a * b) \div 4 >= 1
<1>1. 2 * 2 <= a * b
  BY ProductMonotone
<1>2. a * b \in Nat
  BY SMT
<1> DEFINE p == a * b
<1>3. p \in Nat /\ 4 <= p
  BY <1>1, <1>2, SMT
<1> HIDE DEF p
<1>4. p \div 4 >= 1
  BY <1>3, SMT
<1> QED
  BY <1>4 DEF p

(* The LLM tokens of a size that is not scaled down. *)
Tokens(w, h) == (Patches(Grid(w)) * Patches(Grid(h))) \div 4

LEMMA TokensOfPlan ==
    ASSUME NEW w \in Nat \ {0}, NEW h \in Nat \ {0}, ~OverTokenLimit(<<w, h>>)
    PROVE  PlanResize(<<w, h>>).n_llm_tokens = Tokens(w, h)
<1> DEFINE dst == [i \in 1..2 |-> Grid(<<w, h>>[i])]
<1>1. dst[1] = Grid(w) /\ dst[2] = Grid(h)
  BY SMT
<1>2. PlanResize(<<w, h>>).n_llm_tokens = (Patches(dst[1]) * Patches(dst[2])) \div 4
  BY DEF PlanResize
<1> HIDE DEF dst
<1> QED
  BY <1>1, <1>2 DEF Tokens

(* No image is too small for a token. *)
LEMMA TokensPositive ==
    ASSUME NEW w \in Nat \ {0}, NEW h \in Nat \ {0}
    PROVE  Tokens(w, h) >= 1
<1>1. Patches(Grid(w)) \in Nat /\ 2 <= Patches(Grid(w))
  BY SMT DEF Patches, PATCH_PX, Grid, LLM_TOKEN_PX
<1>2. Patches(Grid(h)) \in Nat /\ 2 <= Patches(Grid(h))
  BY SMT DEF Patches, PATCH_PX, Grid, LLM_TOKEN_PX
<1>3. (Patches(Grid(w)) * Patches(Grid(h))) \div 4 >= 1
  BY <1>1, <1>2, QuarterBound
<1> QED
  BY <1>3 DEF Tokens

LEMMA TokensCapped ==
    ASSUME NEW w \in Nat \ {0}, NEW h \in Nat \ {0}
    PROVE  w <= 2240 /\ h <= 2240 => Tokens(w, h) <= MAX_LLM_TOKENS
<1> SUFFICES ASSUME w <= 2240, h <= 2240 PROVE Tokens(w, h) <= MAX_LLM_TOKENS
  OBVIOUS
<1>1. w \in Nat /\ h \in Nat
  OBVIOUS
<1>2. /\ ~OverTokenLimit(<<w, h>>) /\ ~OverPosEmb(<<w, h>>)
      /\ (Patches(Grid(w)) * Patches(Grid(h))) \div 4 <= MAX_LLM_TOKENS
  BY <1>1, ShippedCap
<1> QED
  BY <1>2 DEF Tokens

(* ... and within the advertised dimensions no accepted image has more LLM  *)
(* tokens than the capabilities say, whatever the limit of the deployment. *)
THEOREM TokensAsAdvertised == Spec => []TokensWithinAdvertised
<1>1. TypeOK /\ SameImage => TokensWithinAdvertised
  <2> SUFFICES ASSUME TypeOK, SameImage, phase = "planned"
               PROVE  /\ plan.n_llm_tokens >= 1
                      /\ decoded[1] <= 2240 /\ decoded[2] <= 2240 =>
                             plan.n_llm_tokens <= MAX_LLM_TOKENS
    BY DEF TokensWithinAdvertised, ADVERTISED_DIM
  <2>1. PICK w \in Nat \ {0}, h \in Nat \ {0} : decoded = <<w, h>>
    BY DecodedPasses
  <2>2. ~OverTokenLimit(<<decoded[1], decoded[2]>>)
    BY PlannedPasses
  <2>3. decoded[1] = w /\ decoded[2] = h
    BY <2>1
  <2>4. ~OverTokenLimit(<<w, h>>)
    BY <2>2, <2>3
  <2>5. plan = PlanResize(<<w, h>>)
    BY <2>1, PlannedPasses
  <2>6. plan.n_llm_tokens = Tokens(w, h)
    BY <2>4, <2>5, TokensOfPlan
  <2>7. plan.n_llm_tokens >= 1
    BY <2>6, TokensPositive
  <2>8. w <= 2240 /\ h <= 2240 => Tokens(w, h) <= MAX_LLM_TOKENS
    BY TokensCapped
  <2> QED
    BY <2>3, <2>6, <2>7, <2>8
<1> QED
  BY <1>1, TypeCorrect, SameImageAlways, PTL

-----------------------------------------------------------------------------
(* The answer. *)

(* A set of naturals has a least element: the principle behind every proof  *)
(* here that an induction would be needed for.                             *)
LEMMA LeastNat == ASSUME NEW T \in SUBSET Nat, T # {} PROVE \E x \in T : \A y \in T : x <= y
<1> DEFINE R == {ss \in Nat \X Nat : ss[1] < ss[2]}
<1>1. IsWellFoundedOn(R, Nat)
  BY NatLessThanWellFounded DEF OpToRel
<1>2. \A x, y \in Nat : x < y => <<x, y>> \in R
  OBVIOUS
<1> HIDE DEF R
<1>3. PICK x \in T : \A y \in T : ~(<<y, x>> \in R)
  BY <1>1, WFMin
<1>4. ASSUME NEW y \in T PROVE x <= y
  <2>1. x \in Nat /\ y \in Nat
    OBVIOUS
  <2>2. ~(y < x)
    BY <1>2, <1>3, <2>1, Zenon
  <2> QED
    BY <2>1, <2>2
<1> QED
  BY <1>4

(* A bounded set of naturals has a greatest element. *)
LEMMA GreatestNat ==
    ASSUME NEW n \in Nat, NEW T \in SUBSET (0..n), T # {}
    PROVE  \E x \in T : \A y \in T : y <= x
<1> DEFINE U == {n - y : y \in T}
<1>1. U \in SUBSET Nat /\ U # {}
  <2>1. \A y \in T : n - y \in Nat
    OBVIOUS
  <2> QED
    BY <2>1
<1>2. PICK m \in U : \A u \in U : m <= u
  <2> HIDE DEF U
  <2> QED
    BY <1>1, LeastNat
<1>3. PICK x \in T : m = n - x
  OBVIOUS
<1>4. ASSUME NEW y \in T PROVE y <= x
  <2>1. m <= n - y
    BY <1>2
  <2> QED
    BY <1>3, <2>1
<1> QED
  BY <1>3, <1>4

LEMMA MinIsLeast ==
    ASSUME NEW T \in SUBSET Nat, T # {}
    PROVE  Min(T) \in T /\ \A y \in T : Min(T) <= y
<1>1. \E x \in T : \A y \in T : x <= y
  BY LeastNat
<1> QED
  BY <1>1, Zenon DEF Min

-----------------------------------------------------------------------------
(* Closing tags and the blocks of an answer. *)

LEMMA CloserFacts ==
    ASSUME NEW s, Len(s) \in Nat, NEW i \in Nat
    PROVE  /\ Closer(s, i) # 0 =>
                /\ Closer(s, i) \in (i + 1)..Len(s)
                /\ s[Closer(s, i)].k = "/box"
                /\ \A j \in (i + 1)..Len(s) : s[j].k = "/box" => Closer(s, i) <= j
           /\ Closer(s, i) = 0 => \A j \in (i + 1)..Len(s) : s[j].k # "/box"
           /\ Closer(s, i) \in Nat
<1> DEFINE closing == {j \in (i + 1)..Len(s) : s[j].k = "/box"}
<1>1. Closer(s, i) = IF closing = {} THEN 0 ELSE Min(closing)
  BY DEF Closer
<1>2. closing \in SUBSET Nat
  OBVIOUS
<1>3. CASE closing = {}
  BY <1>1, <1>3
<1>4. CASE closing # {}
  <2>1. Min(closing) \in closing /\ \A y \in closing : Min(closing) <= y
    <3> HIDE DEF closing
    <3> QED
      BY <1>2, <1>4, MinIsLeast
  <2> QED
    BY <1>1, <1>4, <2>1
<1> QED
  BY <1>3, <1>4

(* What fixes the closing tag of an opening one. *)
LEMMA CloserIs ==
    ASSUME NEW s, Len(s) \in Nat, NEW i \in Nat, NEW c \in (i + 1)..Len(s), s[c].k = "/box",
           \A j \in (i + 1)..(c - 1) : s[j].k # "/box"
    PROVE  Closer(s, i) = c
<1>1. Closer(s, i) # 0
  BY CloserFacts
<1>2. Closer(s, i) <= c /\ Closer(s, i) \in (i + 1)..Len(s) /\ s[Closer(s, i)].k = "/box"
  BY <1>1, CloserFacts
<1>3. ~(Closer(s, i) < c)
  BY <1>2
<1> QED
  BY <1>2, <1>3

(* The blocks of three symbols that the expressions ask for. *)
Simple(s, i) == NumericAt(s, i, 4) \/ NumericAt(s, i, 2) \/ NoneAt(s, i)

LEMMA SimpleBlock ==
    ASSUME NEW s, Len(s) \in Nat, NEW i \in 1..Len(s), Simple(s, i)
    PROVE  /\ s[i].k = "box" /\ Closer(s, i) = i + 2
           /\ \A j \in (i + 1)..Closer(s, i) : s[j].k \notin {"box", "ref"}
<1>1. /\ s[i].k = "box" /\ s[i + 1].k \in {"nums", "none"} /\ s[i + 2].k = "/box"
      /\ i + 2 \in (i + 1)..Len(s)
  BY DEF Simple, NumericAt, NoneAt
<1>2. \A j \in (i + 1)..((i + 2) - 1) : j = i + 1
  OBVIOUS
<1>3. Closer(s, i) = i + 2
  BY <1>1, <1>2, CloserIs
<1>4. \A j \in (i + 1)..(i + 2) : j = i + 1 \/ j = i + 2
  OBVIOUS
<1> QED
  BY <1>1, <1>3, <1>4

(* Three forms that exclude one another, none of which overlaps another.    *)
LEMMA PointsAreBlocks ==
    ASSUME NEW s, Len(s) \in Nat
    PROVE  PointRE(s) = {i \in 1..Len(s) : NumericAt(s, i, 2)}
<1> SUFFICES ASSUME NEW i \in 1..Len(s), NumericAt(s, i, 2), NEW b \in BoxRE(s)
             PROVE  b + 2 < i \/ i + 2 < b
  BY DEF PointRE
<1>1. b \in 1..Len(s) /\ NumericAt(s, b, 4)
  BY DEF BoxRE
<1>2. b # i
  <2>1. Len(s[b + 1].v) = 4 /\ Len(s[i + 1].v) = 2
    BY <1>1 DEF NumericAt
  <2>2. 4 # 2
    OBVIOUS
  <2> QED
    BY <2>1, <2>2, Zenon
<1>3. s[b].k = "box" /\ s[b + 1].k = "nums" /\ s[b + 2].k = "/box"
  BY <1>1 DEF NumericAt
<1>4. s[i].k = "box" /\ s[i + 1].k = "nums" /\ s[i + 2].k = "/box"
  BY DEF NumericAt
<1>5. b # i + 1 /\ b # i + 2 /\ i # b + 1 /\ i # b + 2
  BY <1>3, <1>4
<1> QED
  BY <1>1, <1>2, <1>5

-----------------------------------------------------------------------------
(* Counting. *)

LEMMA PositionsAreFinite ==
    ASSUME NEW n \in Nat, NEW S \in SUBSET (1..n)
    PROVE  IsFiniteSet(S) /\ Cardinality(S) \in Nat
<1>1. IsFiniteSet(1..n)
  BY FS_Interval
<1>2. IsFiniteSet(S)
  BY <1>1, FS_Subset
<1> QED
  BY <1>2, FS_CardinalityType

LEMMA DisjointSum ==
    ASSUME NEW S, NEW T, IsFiniteSet(S), IsFiniteSet(T), S \cap T = {}
    PROVE  /\ IsFiniteSet(S \cup T)
           /\ Cardinality(S \cup T) = Cardinality(S) + Cardinality(T)
<1>1. Cardinality(S \cap T) = 0
  BY FS_EmptySet
<1>2. /\ Cardinality(S \cup T) = Cardinality(S) + Cardinality(T) - Cardinality(S \cap T)
      /\ IsFiniteSet(S \cup T)
  BY FS_Union
<1>3. Cardinality(S) \in Nat /\ Cardinality(T) \in Nat
  BY FS_CardinalityType
<1> QED
  BY <1>1, <1>2, <1>3

(* What is kept of a set and what is left of it make the whole of it, when  *)
(* every kept member becomes one finding.                                  *)
LEMMA KeptAndLeft ==
    ASSUME NEW A, IsFiniteSet(A), NEW kept \in SUBSET A, NEW found,
           NEW f \in Bijection(kept, found)
    PROVE  /\ IsFiniteSet(found) /\ Cardinality(found) \in Nat
           /\ Cardinality(A \ kept) \in Nat
           /\ Cardinality(found) + Cardinality(A \ kept) = Cardinality(A)
<1>1. IsFiniteSet(kept) /\ IsFiniteSet(A \ kept)
  BY FS_Subset, FS_Difference
<1>2. IsFiniteSet(found) /\ Cardinality(found) = Cardinality(kept)
  BY <1>1, FS_Bijection DEF ExistsBijection
<1>3. kept \cap (A \ kept) = {} /\ kept \cup (A \ kept) = A
  OBVIOUS
<1>4. Cardinality(A) = Cardinality(kept) + Cardinality(A \ kept)
  BY <1>1, <1>3, DisjointSum
<1>5. Cardinality(kept) \in Nat /\ Cardinality(A \ kept) \in Nat
  BY <1>1, FS_CardinalityType
<1> QED
  BY <1>2, <1>4, <1>5

LEMMA BoxesCounted ==
    ASSUME NEW s, Len(s) \in Nat, NEW w, NEW h
    PROVE  /\ IsFiniteSet(ParseBoxes(s, w, h).found)
           /\ Cardinality(ParseBoxes(s, w, h).found) \in Nat /\ ParseBoxes(s, w, h).off \in Nat
           /\ Cardinality(ParseBoxes(s, w, h).found) + ParseBoxes(s, w, h).off
                  = Cardinality(BoxRE(s))
<1> DEFINE kept == {b \in BoxRE(s) : LabelAt(s, b, <<>>) # <<>>}
           rec(b) == [at |-> b, label |-> LabelAt(s, b, <<>>), geo |-> MakeBox(s[b + 1].v, w, h)]
           found == {rec(b) : b \in kept}
           f == [b \in kept |-> rec(b)]
<1>1. ParseBoxes(s, w, h).found = found /\ ParseBoxes(s, w, h).off = Cardinality(BoxRE(s) \ kept)
  BY DEF ParseBoxes
<1>2. f \in Bijection(kept, found)
  <2>1. \A b, c \in kept : f[b] = f[c] => b = c
    <3>1. \A b \in kept : f[b].at = b
      OBVIOUS
    <3> QED
      BY <3>1
  <2>2. f \in [kept -> found] /\ \A x \in found : \E b \in kept : f[b] = x
    OBVIOUS
  <2> HIDE DEF f, kept, found
  <2> QED
    BY <2>1, <2>2 DEF Bijection, Injection, Surjection, IsInjective
<1>3. IsFiniteSet(BoxRE(s))
  BY PositionsAreFinite DEF BoxRE
<1>4. kept \in SUBSET BoxRE(s)
  OBVIOUS
<1> HIDE DEF f, kept, found
<1> QED
  BY <1>1, <1>2, <1>3, <1>4, KeptAndLeft

LEMMA PointsCounted ==
    ASSUME NEW s, Len(s) \in Nat, NEW w, NEW h, NEW l
    PROVE  /\ IsFiniteSet(ParsePoints(s, w, h, l).found)
           /\ Cardinality(ParsePoints(s, w, h, l).found) \in Nat
           /\ ParsePoints(s, w, h, l).off \in Nat
           /\ Cardinality(ParsePoints(s, w, h, l).found) + ParsePoints(s, w, h, l).off
                  = Cardinality(PointRE(s))
<1> DEFINE kept == {b \in PointRE(s) : LabelAt(s, b, l) # <<>>}
           rec(b) == [at |-> b, label |-> LabelAt(s, b, l), geo |-> MakePoint(s[b + 1].v, w, h)]
           found == {rec(b) : b \in kept}
           f == [b \in kept |-> rec(b)]
<1>1. /\ ParsePoints(s, w, h, l).found = found
      /\ ParsePoints(s, w, h, l).off = Cardinality(PointRE(s) \ kept)
  BY DEF ParsePoints
<1>2. f \in Bijection(kept, found)
  <2>1. \A b, c \in kept : f[b] = f[c] => b = c
    <3>1. \A b \in kept : f[b].at = b
      OBVIOUS
    <3> QED
      BY <3>1
  <2>2. f \in [kept -> found] /\ \A x \in found : \E b \in kept : f[b] = x
    OBVIOUS
  <2> HIDE DEF f, kept, found
  <2> QED
    BY <2>1, <2>2 DEF Bijection, Injection, Surjection, IsInjective
<1>3. IsFiniteSet(PointRE(s))
  BY PositionsAreFinite DEF PointRE
<1>4. kept \in SUBSET PointRE(s)
  OBVIOUS
<1> HIDE DEF f, kept, found
<1> QED
  BY <1>1, <1>2, <1>3, <1>4, KeptAndLeft

(* The matches of any_box_re that are none of the three forms. *)
Malformed == {i \in AnyBoxRE(answer) : ~Simple(answer, i)}

(* All that the mapping counts: nothing of it overlaps. *)
Counted == BoxRE(answer) \cup PointRE(answer) \cup Malformed

LEMMA CountedInOpeners ==
    ASSUME Len(answer) \in Nat
    PROVE  /\ Counted \subseteq Openers /\ Openers \subseteq 1..Len(answer)
           /\ Cardinality(Counted) = Cardinality(BoxRE(answer)) + Cardinality(PointRE(answer))
                                       + CountMalformed(answer)
           /\ CountMalformed(answer) \in Nat
<1> DEFINE B == BoxRE(answer)
           P == PointRE(answer)
<1>1. \A i \in 1..Len(answer) : Simple(answer, i) => i \in Openers
  BY SimpleBlock DEF Openers
<1>2. B \subseteq 1..Len(answer) /\ P \subseteq 1..Len(answer) /\ Malformed \subseteq 1..Len(answer)
  BY DEF BoxRE, PointRE, Malformed, AnyBoxRE
<1>3. \A i \in B \cup P : Simple(answer, i)
  BY DEF BoxRE, PointRE, Simple
<1>4. B \cap P = {}
  <2> SUFFICES ASSUME NEW i \in B \cap P PROVE FALSE
    OBVIOUS
  <2>1. Len(answer[i + 1].v) = 4 /\ Len(answer[i + 1].v) = 2
    BY DEF BoxRE, PointRE, NumericAt
  <2>2. 4 # 2
    OBVIOUS
  <2> QED
    BY <2>1, <2>2, Zenon
<1>5. (B \cup P) \cap Malformed = {}
  BY <1>3 DEF Malformed
<1>6. IsFiniteSet(B) /\ IsFiniteSet(P) /\ IsFiniteSet(Malformed) /\ Cardinality(Malformed) \in Nat
  BY <1>2, PositionsAreFinite
<1>7. CountMalformed(answer) = Cardinality(Malformed)
  <2>1. Malformed = {i \in AnyBoxRE(answer) : /\ ~NumericAt(answer, i, 4)
                                              /\ ~NumericAt(answer, i, 2)
                                              /\ ~NoneAt(answer, i)}
    BY DEF Malformed, Simple
  <2> QED
    BY <2>1 DEF CountMalformed
<1>8. Malformed \subseteq Openers
  BY <1>2 DEF Malformed, AnyBoxRE, Openers
<1>9. Cardinality(Counted) = Cardinality(B) + Cardinality(P) + Cardinality(Malformed)
  <2> HIDE DEF B, P
  <2>1. /\ IsFiniteSet(B \cup P) /\ Cardinality(B \cup P) = Cardinality(B) + Cardinality(P)
    BY <1>4, <1>6, DisjointSum
  <2>2. Cardinality((B \cup P) \cup Malformed) = Cardinality(B \cup P) + Cardinality(Malformed)
    BY <1>5, <1>6, <2>1, DisjointSum
  <2> QED
    BY <2>1, <2>2 DEF Counted, B, P
<1>10. Counted \subseteq Openers
  <2>1. B \cup P \subseteq Openers
    BY <1>1, <1>2, <1>3
  <2> QED
    BY <1>8, <2>1 DEF Counted
<1> QED
  BY <1>6, <1>7, <1>9, <1>10 DEF Openers

(* What the reply keeps and what it drops are all that was counted.         *)
LEMMA MappedCounts ==
    ASSUME Len(answer) \in Nat
    PROVE  /\ Cardinality(MappedResult.geometry) + MappedResult.dropped = Cardinality(Counted)
           /\ MappedResult.kind = "abstained" <=> Counted = {}
<1> DEFINE boxes   == ParseBoxes(answer, decoded[1], decoded[2])
           points  == ParsePoints(answer, decoded[1], decoded[2], PointLabel)
           wanted  == ExpectedShape[header.prompt_task]
           valid   == IF wanted = "point" THEN points.found ELSE boxes.found
           other   == IF wanted = "point" THEN boxes.found ELSE points.found
           dropped == Cardinality(other) + boxes.off + points.off + CountMalformed(answer)
           kind    == IF valid # {} THEN (IF wanted = "point" THEN "points" ELSE "boxes")
                      ELSE IF dropped > 0 THEN "model_deviation" ELSE "abstained"
<1>1. MappedResult.geometry = valid /\ MappedResult.dropped = dropped /\ MappedResult.kind = kind
  BY DEF MappedResult
<1>2. /\ IsFiniteSet(boxes.found) /\ Cardinality(boxes.found) \in Nat /\ boxes.off \in Nat
      /\ Cardinality(boxes.found) + boxes.off = Cardinality(BoxRE(answer))
  BY BoxesCounted
<1>3. /\ IsFiniteSet(points.found) /\ Cardinality(points.found) \in Nat /\ points.off \in Nat
      /\ Cardinality(points.found) + points.off = Cardinality(PointRE(answer))
  BY PointsCounted
<1>4. /\ CountMalformed(answer) \in Nat
      /\ Cardinality(Counted) = Cardinality(BoxRE(answer)) + Cardinality(PointRE(answer))
                                       + CountMalformed(answer)
      /\ IsFiniteSet(Counted)
  <2>1. Counted \in SUBSET (1..Len(answer))
    BY CountedInOpeners
  <2> QED
    BY <2>1, CountedInOpeners, PositionsAreFinite
<1> HIDE DEF boxes, points
<1>5. /\ Cardinality(valid) \in Nat /\ Cardinality(other) \in Nat /\ IsFiniteSet(valid)
      /\ Cardinality(valid) + Cardinality(other)
             = Cardinality(boxes.found) + Cardinality(points.found)
  BY <1>2, <1>3
<1> HIDE DEF valid, other
<1>6. Cardinality(valid) + dropped = Cardinality(Counted) /\ dropped \in Nat
  <2> DEFINE v == Cardinality(valid)   o == Cardinality(other)   bo == boxes.off
             b == Cardinality(boxes.found)  p == Cardinality(points.found)  po == points.off
             m == CountMalformed(answer)    n == Cardinality(Counted)
             nb == Cardinality(BoxRE(answer))  np == Cardinality(PointRE(answer))
  <2>1. nb \in Nat /\ np \in Nat /\ n \in Nat
    BY <1>2, <1>3, <1>4, FS_CardinalityType
  <2>2. v \in Nat /\ o \in Nat /\ b \in Nat /\ p \in Nat /\ bo \in Nat /\ po \in Nat /\ m \in Nat
    BY <1>2, <1>3, <1>4, <1>5
  <2>3. v + o = b + p /\ b + bo = nb /\ p + po = np /\ n = nb + np + m
    BY <1>2, <1>3, <1>4, <1>5
  <2> SUFFICES v + (o + bo + po + m) = n /\ o + bo + po + m \in Nat
    OBVIOUS
  <2> HIDE DEF v, o, bo, b, p, po, m, n, nb, np
  <2> QED
    BY <2>1, <2>2, <2>3
<1>7. kind = "abstained" <=> valid = {} /\ dropped = 0
  BY <1>6
<1>8. Cardinality(valid) = 0 <=> valid = {}
  BY <1>5, FS_EmptySet
<1>9. Cardinality(Counted) = 0 <=> Counted = {}
  BY <1>4, FS_EmptySet
<1> HIDE DEF kind, dropped
<1>10. kind = "abstained" <=> Counted = {}
  BY <1>5, <1>6, <1>7, <1>8, <1>9
<1> QED
  BY <1>1, <1>6, <1>10

-----------------------------------------------------------------------------
(* Blocks. *)

(* A match that no other opening tag interrupts is a closed block. *)
LEMMA SimpleIsClosed ==
    ASSUME Len(answer) \in Nat, NEW i \in 1..Len(answer), Simple(answer, i)
    PROVE  i \in ClosedBlocks
<1>1. answer[i].k = "box" /\ Closer(answer, i) = i + 2
  BY SimpleBlock
<1>2. \A j \in (i + 1)..Closer(answer, i) : answer[j].k # "box"
  BY SimpleBlock
<1>3. ASSUME NEW j \in Openers, i < j, j < Closer(answer, i) PROVE FALSE
  <2>1. j \in (i + 1)..Closer(answer, i) /\ answer[j].k = "box"
    BY <1>1, <1>3 DEF Openers
  <2> QED
    BY <1>2, <2>1
<1>4. i \in Openers /\ Closer(answer, i) # 0
  BY <1>1 DEF Openers
<1> QED
  BY <1>3, <1>4 DEF ClosedBlocks

(* The opening tags one closing tag closes: the first of them is the one    *)
(* any_box_re matches, the last of them opens the closed block.            *)
LEMMA FirstOfBlock ==
    ASSUME Len(answer) \in Nat, NEW i \in Openers, Closer(answer, i) # 0
    PROVE  \E k \in AnyBoxRE(answer) : k <= i /\ Closer(answer, k) = Closer(answer, i)
<1> DEFINE T == {k \in Openers : Closer(answer, k) = Closer(answer, i)}
           s == answer
<1>0. i \in 1..Len(s) /\ s[i].k = "box"
  BY DEF Openers
<1>1. T \in SUBSET Nat /\ T # {}
  BY DEF Openers
<1>2. PICK k \in T : \A j \in T : k <= j
  <2> HIDE DEF T
  <2> QED
    BY <1>1, LeastNat
<1>3. k \in 1..Len(s) /\ s[k].k = "box" /\ Closer(s, k) = Closer(s, i) /\ k <= i
  BY <1>2 DEF Openers
<1>4. ASSUME NEW j \in 1..(k - 1), s[j].k = "box", ~(Closer(s, j) < k) PROVE FALSE
  <2>0. j \in Nat /\ k \in Nat /\ j < k /\ j \in Openers /\ Closer(s, j) \in Nat
    BY <1>3, <1>4, CloserFacts DEF Openers
  <2>1. /\ Closer(s, k) \in (k + 1)..Len(s) /\ s[Closer(s, k)].k = "/box"
        /\ \A l \in (k + 1)..Len(s) : s[l].k = "/box" => Closer(s, k) <= l
    BY <1>3, <2>0, CloserFacts
  <2>2. Closer(s, j) # 0
    BY <2>0, <1>3, <1>4
  <2>3. /\ Closer(s, j) \in (j + 1)..Len(s) /\ s[Closer(s, j)].k = "/box"
        /\ \A l \in (j + 1)..Len(s) : s[l].k = "/box" => Closer(s, j) <= l
    BY <2>0, <2>2, CloserFacts
  <2>4. Closer(s, j) # k
    BY <1>3, <2>3
  <2>5. Closer(s, j) \in (k + 1)..Len(s)
    BY <1>4, <2>0, <2>3, <2>4
  <2>6. Closer(s, k) <= Closer(s, j)
    BY <2>1, <2>3, <2>5
  <2>7. Closer(s, j) <= Closer(s, k)
    <3>1. Closer(s, k) \in (j + 1)..Len(s)
      BY <2>0, <2>1
    <3> QED
      BY <2>1, <2>3, <3>1
  <2>8. Closer(s, j) = Closer(s, k)
    BY <2>1, <2>3, <2>6, <2>7
  <2>9. j \in T
    BY <1>3, <2>0, <2>8
  <2>10. k <= j
    BY <1>2, <2>9
  <2> QED
    BY <2>0, <2>10
<1>5. k \in AnyBoxRE(s)
  BY <1>3, <1>4 DEF AnyBoxRE
<1> QED
  BY <1>3, <1>5

LEMMA LastOfBlock ==
    ASSUME Len(answer) \in Nat, NEW i \in Openers, Closer(answer, i) # 0
    PROVE  \E k \in ClosedBlocks : i <= k /\ Closer(answer, k) = Closer(answer, i)
<1> DEFINE s == answer
           T == {k \in Openers : i <= k /\ k < Closer(s, i)}
<1>1. /\ i \in 1..Len(s) /\ Closer(s, i) \in (i + 1)..Len(s) /\ s[Closer(s, i)].k = "/box"
      /\ \A l \in (i + 1)..Len(s) : s[l].k = "/box" => Closer(s, i) <= l
  BY CloserFacts DEF Openers
<1>2. T \in SUBSET (0..Len(s)) /\ T # {}
  BY <1>1 DEF Openers
<1>3. PICK k \in T : \A j \in T : j <= k
  <2> HIDE DEF T
  <2> QED
    BY <1>2, GreatestNat
<1>4. k \in 1..Len(s) /\ k \in Openers /\ i <= k /\ k < Closer(s, i)
  BY <1>3 DEF Openers
<1>5. Closer(s, k) = Closer(s, i)
  <2>1. Closer(s, i) \in (k + 1)..Len(s)
    BY <1>1, <1>4
  <2>2. \A j \in (k + 1)..(Closer(s, i) - 1) : s[j].k # "/box"
    <3> SUFFICES ASSUME NEW j \in (k + 1)..(Closer(s, i) - 1), s[j].k = "/box" PROVE FALSE
      OBVIOUS
    <3>1. j \in (i + 1)..Len(s) /\ ~(Closer(s, i) <= j)
      BY <1>1, <1>4
    <3> QED
      BY <1>1, <3>1
  <2>3. k \in Nat
    BY <1>4
  <2> QED
    BY <1>1, <2>1, <2>2, <2>3, CloserIs
<1>6. ASSUME NEW j \in Openers, k < j, j < Closer(s, k) PROVE FALSE
  <2>1. j \in Nat
    BY DEF Openers
  <2>2. j \in T
    BY <1>1, <1>4, <1>5, <1>6, <2>1
  <2>3. j <= k
    BY <1>3, <2>2
  <2> QED
    BY <1>4, <1>6, <2>1, <2>3
<1>7. k \in ClosedBlocks
  BY <1>1, <1>4, <1>5, <1>6 DEF ClosedBlocks
<1> QED
  BY <1>4, <1>5, <1>7

(* A block of one of the three forms shares its closing tag with no other  *)
(* opening tag behind its own.                                             *)
LEMMA SimpleStandsAlone ==
    ASSUME Len(answer) \in Nat, NEW i \in Openers, Closer(answer, i) # 0,
           NEW k \in 1..Len(answer), Simple(answer, k), k <= i, Closer(answer, k) = Closer(answer, i)
    PROVE  i = k
<1>1. Closer(answer, k) = k + 2 /\ \A j \in (k + 1)..(k + 2) : answer[j].k # "box"
  BY SimpleBlock
<1>2. i \in 1..Len(answer) /\ answer[i].k = "box"
  BY DEF Openers
<1>3. Closer(answer, i) \in (i + 1)..Len(answer)
  BY <1>2, CloserFacts
<1>4. i < k + 2
  BY <1>1, <1>2, <1>3
<1>5. i \in (k + 1)..(k + 2) \/ i = k
  BY <1>2, <1>4
<1> QED
  BY <1>1, <1>2, <1>5

(* Every localization is counted under a match of its own. *)
LEMMA EachCounted ==
    ASSUME Len(answer) \in Nat
    PROVE  Cardinality(Localizations) <= Cardinality(Counted)
<1> DEFINE s == answer
           own(i) == {k \in Malformed : Closer(s, k) = Closer(s, i)}
           f == [i \in Localizations |-> IF Simple(s, i) THEN i ELSE CHOOSE k \in own(i) : TRUE]
<1>1. \A i \in Localizations : /\ i \in 1..Len(s) /\ i \in Openers /\ i \in ClosedBlocks
                               /\ Closer(s, i) # 0 /\ s[i].k = "box"
                               /\ i < Closer(s, i) /\ Closer(s, i) \in Nat
  <2> SUFFICES ASSUME NEW i \in Localizations
               PROVE  /\ i \in 1..Len(s) /\ i \in Openers /\ i \in ClosedBlocks
                      /\ Closer(s, i) # 0 /\ s[i].k = "box"
                      /\ i < Closer(s, i) /\ Closer(s, i) \in Nat
    OBVIOUS
  <2>1. i \in 1..Len(s) /\ i \in Openers /\ i \in ClosedBlocks /\ Closer(s, i) # 0 /\ s[i].k = "box"
    BY DEF Localizations, ClosedBlocks, Openers
  <2>2. Closer(s, i) \in (i + 1)..Len(s)
    BY <2>1, CloserFacts
  <2> QED
    BY <2>1, <2>2
<1>2. ASSUME NEW i \in Localizations, ~Simple(s, i) PROVE own(i) # {}
  <2>1. PICK k \in AnyBoxRE(s) : k <= i /\ Closer(s, k) = Closer(s, i)
    BY <1>1, FirstOfBlock
  <2>2. k \in 1..Len(s)
    BY DEF AnyBoxRE
  <2>3. ~Simple(s, k)
    BY <1>1, <1>2, <2>1, <2>2, SimpleStandsAlone
  <2> QED
    BY <2>1, <2>3 DEF Malformed
<1>3. \A i \in Localizations : ~Simple(s, i) => f[i] \in Malformed /\ Closer(s, f[i]) = Closer(s, i)
  BY <1>2
<1>4. \A i \in Localizations : Simple(s, i) => f[i] = i
  OBVIOUS
<1>5. \A i \in Localizations : Simple(s, i) => i \in BoxRE(s) \cup PointRE(s)
  <2> SUFFICES ASSUME NEW i \in Localizations, Simple(s, i) PROVE i \in BoxRE(s) \cup PointRE(s)
    OBVIOUS
  <2>1. NumericAt(s, i, 4) \/ NumericAt(s, i, 2)
    BY DEF Simple, Localizations
  <2> QED
    BY <1>1, <2>1, PointsAreBlocks DEF BoxRE
<1>6. f \in [Localizations -> Counted]
  <2>1. \A i \in Localizations : f[i] \in Counted
    <3> HIDE DEF f
    <3> QED
      BY <1>3, <1>4, <1>5 DEF Counted
  <2> QED
    BY <2>1
<1>7. ASSUME NEW i \in Localizations, NEW j \in Localizations, f[i] = f[j] PROVE i = j
  <2> HIDE DEF f
  <2>1. CASE Simple(s, i) \/ Simple(s, j)
    <3>1. \A k \in Malformed : ~Simple(s, k)
      BY DEF Malformed
    <3> QED
      BY <1>3, <1>4, <1>7, <2>1, <3>1
  <2>2. CASE ~Simple(s, i) /\ ~Simple(s, j)
    <3>1. Closer(s, i) = Closer(s, j)
      BY <1>3, <1>7, <2>2
    <3>2. ~(i < j /\ j < Closer(s, i)) /\ ~(j < i /\ i < Closer(s, j))
      BY <1>1 DEF ClosedBlocks
    <3> QED
      BY <1>1, <3>1, <3>2
  <2> QED
    BY <2>1, <2>2
<1>8. f \in Injection(Localizations, Counted)
  <2> HIDE DEF f
  <2> QED
    BY <1>6, <1>7 DEF Injection, IsInjective
<1>9. IsFiniteSet(Counted)
  <2>1. Counted \in SUBSET (1..Len(answer))
    BY CountedInOpeners
  <2> QED
    BY <2>1, PositionsAreFinite
<1> QED
  BY <1>8, <1>9, FS_Injection

(* In a tidy answer nothing else is counted. *)
LEMMA OnlyThoseCounted ==
    ASSUME Len(answer) \in Nat, Tidy
    PROVE  Counted \subseteq Localizations
<1> SUFFICES ASSUME NEW i \in Counted PROVE i \in Localizations
  OBVIOUS
<1>1. i \in Openers /\ i \in 1..Len(answer)
  BY CountedInOpeners
<1>2. CASE i \in BoxRE(answer) \cup PointRE(answer)
  <2>1. NumericAt(answer, i, 4) \/ NumericAt(answer, i, 2)
    BY <1>2 DEF BoxRE, PointRE
  <2>2. i \in ClosedBlocks
    BY <1>1, <2>1, SimpleIsClosed DEF Simple
  <2>3. ~NoneAt(answer, i)
    BY <2>1 DEF NumericAt, NoneAt
  <2> QED
    BY <2>2, <2>3 DEF Localizations
<1>3. CASE i \in Malformed
  <2>1. Closer(answer, i) # 0 /\ ~NoneAt(answer, i)
    BY <1>3 DEF Malformed, AnyBoxRE, Simple
  <2>2. \A j \in (i + 1)..Closer(answer, i) : answer[j].k # "box"
    BY <1>1, <2>1 DEF Tidy
  <2>3. ASSUME NEW j \in Openers, i < j, j < Closer(answer, i) PROVE FALSE
    <3>1. Closer(answer, i) \in Nat /\ j \in Nat /\ answer[j].k = "box"
      BY <1>1, CloserFacts DEF Openers
    <3>2. j \in (i + 1)..Closer(answer, i)
      BY <1>1, <2>3, <3>1
    <3> QED
      BY <2>2, <3>1, <3>2
  <2> QED
    BY <1>1, <2>1, <2>3 DEF Localizations, ClosedBlocks
<1> QED
  BY <1>2, <1>3 DEF Counted

-----------------------------------------------------------------------------
(* What FrameInference claims of a mapped answer, for every answer. *)

LEMMA NothingVanishesWhenMapped ==
    ASSUME Len(answer) \in Nat, result = MappedResult
    PROVE  NothingVanishes
<1>1. Accounted = Cardinality(Counted)
  BY MappedCounts DEF Accounted
<1>2. IsFiniteSet(Openers) /\ Counted \in SUBSET Openers
  BY CountedInOpeners, PositionsAreFinite
<1>3. Cardinality(Counted) <= Cardinality(Openers)
  BY <1>2, FS_Subset
<1>4. Localizations \in SUBSET Openers
  BY DEF Localizations, ClosedBlocks
<1>5. IsFiniteSet(Localizations) /\ IsFiniteSet(Counted)
  BY <1>2, <1>4, FS_Subset
<1>6. Cardinality(Localizations) \in Nat /\ Cardinality(Counted) \in Nat
  BY <1>5, FS_CardinalityType
<1>7. Cardinality(Localizations) <= Cardinality(Counted)
  BY EachCounted
<1>8. ASSUME Tidy PROVE Cardinality(Counted) = Cardinality(Localizations)
  <2>1. Cardinality(Counted) <= Cardinality(Localizations)
    BY <1>5, <1>8, OnlyThoseCounted, FS_Subset
  <2> QED
    BY <1>6, <1>7, <2>1
<1> QED
  BY <1>1, <1>3, <1>7, <1>8 DEF NothingVanishes

LEMMA ProbeSeesWhenMapped ==
    ASSUME Len(answer) \in Nat, result = MappedResult
    PROVE  ProbeSeesEveryBlock
<1>1. result.kind = "abstained" <=> Counted = {}
  BY MappedCounts
<1>2. ASSUME NEW i \in ClosedBlocks PROVE Recognised
  <2>1. i \in 1..Len(answer)
    BY DEF ClosedBlocks, Openers
  <2>2. CASE NoneAt(answer, i)
    BY <2>1, <2>2 DEF Recognised, HasAbstention
  <2>3. CASE ~NoneAt(answer, i)
    <3>1. i \in Localizations
      BY <2>3 DEF Localizations
    <3>2. Counted # {}
      <4>1. CASE Simple(answer, i)
        <5>1. NumericAt(answer, i, 4) \/ NumericAt(answer, i, 2)
          BY <2>3, <4>1 DEF Simple
        <5> QED
          BY <2>1, <5>1, PointsAreBlocks DEF BoxRE, Counted
      <4>2. CASE ~Simple(answer, i)
        <5>1. i \in Openers /\ Closer(answer, i) # 0 /\ answer[i].k = "box"
          BY DEF ClosedBlocks, Openers
        <5>2. PICK k \in AnyBoxRE(answer) : k <= i /\ Closer(answer, k) = Closer(answer, i)
          BY <5>1, FirstOfBlock
        <5>3. k \in 1..Len(answer)
          BY DEF AnyBoxRE
        <5>4. ~Simple(answer, k)
          BY <4>2, <5>1, <5>2, <5>3, SimpleStandsAlone
        <5> QED
          BY <5>4 DEF Malformed, Counted
      <4> QED
        BY <4>1, <4>2
    <3> QED
      BY <1>1, <3>2 DEF Recognised
  <2> QED
    BY <2>2, <2>3
<1>3. ASSUME Recognised PROVE ClosedBlocks # {}
  <2>1. CASE HasAbstention(answer)
    BY <2>1, SimpleIsClosed DEF HasAbstention, Simple
  <2>2. CASE Counted # {}
    <3>1. PICK i \in Counted : TRUE
      BY <2>2
    <3>2. i \in Openers /\ i \in 1..Len(answer)
      BY CountedInOpeners
    <3>3. CASE Simple(answer, i)
      BY <3>2, <3>3, SimpleIsClosed
    <3>4. CASE ~Simple(answer, i)
      <4>1. i \in Malformed
        BY <3>4 DEF Counted, BoxRE, PointRE, Simple
      <4>2. Closer(answer, i) # 0
        BY <4>1 DEF Malformed, AnyBoxRE
      <4> QED
        BY <3>2, <4>2, LastOfBlock
    <3> QED
      BY <3>3, <3>4
  <2> QED
    BY <1>1, <1>3, <2>1, <2>2 DEF Recognised
<1> QED
  BY <1>2, <1>3 DEF ProbeSeesEveryBlock

-----------------------------------------------------------------------------
(* Geometry. *)

(* Edge is the end of the grid: the provers are slow with a numeral of this *)
(* size, and nothing but its being a natural matters.                      *)
Edge == 1000

LEMMA EdgeIsNatural == Edge \in Nat
  BY DEF Edge

LEMMA ClampRange == ASSUME NEW c \in Nat PROVE ClampCoord(c) \in 0..Edge
  BY DEF ClampCoord, Edge

LEMMA MinMaxOfTwo ==
    ASSUME NEW a \in 0..Edge, NEW b \in 0..Edge
    PROVE  /\ Min({a, b}) \in 0..Edge /\ Max({a, b}) \in 0..Edge
           /\ Min({a, b}) <= Max({a, b})
<1> DEFINE S == {a, b}
<1>1. \E x \in S : \A y \in S : x >= y
  <2>1. a >= b \/ b >= a
    OBVIOUS
  <2> QED
    BY <2>1
<1>2. \E x \in S : \A y \in S : x =< y
  <2>1. a =< b \/ b =< a
    OBVIOUS
  <2> QED
    BY <2>1
<1>3. S \subseteq 0..Edge /\ a \in S
  OBVIOUS
<1> HIDE DEF S
<1>4. Max(S) \in S /\ \A y \in S : Max(S) >= y
  BY <1>1, Zenon DEF Max
<1>5. Min(S) \in S /\ \A y \in S : Min(S) =< y
  BY <1>2, Zenon DEF Min
<1>6. Max(S) \in 0..Edge /\ Min(S) \in 0..Edge /\ Max(S) >= a /\ Min(S) =< a
  BY <1>3, <1>4, <1>5
<1>7. Min(S) =< Max(S)
  BY <1>6, EdgeIsNatural
<1> QED
  BY <1>6, <1>7 DEF S

LEMMA Scaled ==
    ASSUME NEW c \in Nat, NEW d \in Nat, NEW w \in Nat, c <= d
    PROVE  c * w <= d * w
<1>1. d * w = c * w + (d - c) * w /\ d - c \in Nat
  OBVIOUS
<1>2. c * w \in Nat /\ (d - c) * w \in Nat
  BY <1>1
<1> QED
  BY <1>1, <1>2

LEMMA ElementsOf ==
    ASSUME NEW S, NEW v \in Seq(S), NEW i \in 1..Len(v) PROVE v[i] \in S
  OBVIOUS

Corners(n, p, w, h) ==
    /\ DOMAIN n = 1..4 /\ DOMAIN p = 1..4 /\ Len(n) = 4
    /\ \A i \in 1..4 : n[i] \in 0..Edge
    /\ p[1] <= Edge * w /\ p[2] <= Edge * h /\ p[3] <= Edge * w /\ p[4] <= Edge * h
    /\ n[1] <= n[3] /\ n[2] <= n[4] /\ p[1] <= p[3] /\ p[2] <= p[4]

LEMMA BoxInImage ==
    ASSUME NEW v \in Seq(Nat), Len(v) = 4, NEW w \in Nat, NEW h \in Nat,
           NEW n, NEW p, n = MakeBox(v, w, h).norm, p = MakeBox(v, w, h).px
    PROVE  Corners(n, p, w, h)
<1> DEFINE x1 == Min({ClampCoord(v[1]), ClampCoord(v[3])})
           x2 == Max({ClampCoord(v[1]), ClampCoord(v[3])})
           y1 == Min({ClampCoord(v[2]), ClampCoord(v[4])})
           y2 == Max({ClampCoord(v[2]), ClampCoord(v[4])})
<1>1. v[1] \in Nat /\ v[2] \in Nat /\ v[3] \in Nat /\ v[4] \in Nat
  <2>1. 1 \in 1..Len(v) /\ 2 \in 1..Len(v) /\ 3 \in 1..Len(v) /\ 4 \in 1..Len(v)
    OBVIOUS
  <2> QED
    BY <2>1, ElementsOf, Zenon
<1>2. x1 \in 0..Edge /\ x2 \in 0..Edge /\ y1 \in 0..Edge /\ y2 \in 0..Edge /\ x1 <= x2 /\ y1 <= y2
  BY <1>1, ClampRange, MinMaxOfTwo
<1>3. n = <<x1, y1, x2, y2>> /\ p = <<x1 * w, y1 * h, x2 * w, y2 * h>>
  BY DEF MakeBox
<1> HIDE DEF x1, x2, y1, y2
<1>4. n[1] = x1 /\ n[2] = y1 /\ n[3] = x2 /\ n[4] = y2
  BY <1>3
<1>5. p[1] = x1 * w /\ p[2] = y1 * h /\ p[3] = x2 * w /\ p[4] = y2 * h
  BY <1>3
<1>0. /\ x1 \in Nat /\ x2 \in Nat /\ y1 \in Nat /\ y2 \in Nat /\ Edge \in Nat
      /\ x1 <= Edge /\ x2 <= Edge /\ y1 <= Edge /\ y2 <= Edge
  BY <1>2, EdgeIsNatural
<1>6. x1 * w <= Edge * w /\ x2 * w <= Edge * w /\ x1 * w <= x2 * w
  BY <1>0, <1>2, Scaled, Zenon
<1>9. y1 * h <= Edge * h /\ y2 * h <= Edge * h /\ y1 * h <= y2 * h
  BY <1>0, <1>2, Scaled, Zenon
<1>10. DOMAIN n = 1..4 /\ DOMAIN p = 1..4 /\ Len(n) = 4
  BY <1>3
<1>7. \A i \in 1..4 : i = 1 \/ i = 2 \/ i = 3 \/ i = 4
  OBVIOUS
<1>8. \A i \in 1..4 : n[i] \in 0..Edge
  BY <1>2, <1>4, <1>7, Zenon
<1> QED
  BY <1>2, <1>4, <1>5, <1>6, <1>8, <1>9, <1>10 DEF Corners

Corner(n, p, w, h) ==
    /\ DOMAIN n = 1..2 /\ DOMAIN p = 1..2 /\ Len(n) = 2
    /\ \A i \in 1..2 : n[i] \in 0..Edge
    /\ p[1] <= Edge * w /\ p[2] <= Edge * h

LEMMA PointInImage ==
    ASSUME NEW v \in Seq(Nat), Len(v) = 2, NEW w \in Nat, NEW h \in Nat,
           NEW n, NEW p, n = MakePoint(v, w, h).norm, p = MakePoint(v, w, h).px
    PROVE  Corner(n, p, w, h)
<1> DEFINE x == ClampCoord(v[1])
           y == ClampCoord(v[2])
<1>1. v[1] \in Nat /\ v[2] \in Nat
  <2>1. 1 \in 1..Len(v) /\ 2 \in 1..Len(v)
    OBVIOUS
  <2> QED
    BY <2>1, ElementsOf, Zenon
<1>2. x \in 0..Edge /\ y \in 0..Edge
  BY <1>1, ClampRange
<1>3. n = <<x, y>> /\ p = <<x * w, y * h>>
  BY DEF MakePoint
<1> HIDE DEF x, y
<1>4. n[1] = x /\ n[2] = y /\ p[1] = x * w /\ p[2] = y * h
  BY <1>3
<1>0. x \in Nat /\ y \in Nat /\ Edge \in Nat /\ x <= Edge /\ y <= Edge
  BY <1>2, EdgeIsNatural
<1>5. x * w <= Edge * w /\ y * h <= Edge * h
  BY <1>0, Scaled, Zenon
<1>7. DOMAIN n = 1..2 /\ DOMAIN p = 1..2 /\ Len(n) = 2
  BY <1>3
<1>6. \A i \in 1..2 : i = 1 \/ i = 2
  OBVIOUS
<1> QED
  BY <1>2, <1>4, <1>5, <1>6, <1>7 DEF Corner

LEMMA SymbolOfBlock ==
    ASSUME answer \in Seq(UNION Vocabularies), NEW b \in 1..Len(answer), NEW arity,
           NumericAt(answer, b, arity)
    PROVE  answer[b + 1].v \in Seq(Nat) /\ Len(answer[b + 1].v) = arity
<1>1. b + 1 \in 1..Len(answer)
  BY DEF NumericAt
<1>2. answer[b + 1] \in UNION Vocabularies
  BY <1>1, ElementsOf
<1>3. answer[b + 1].k = "nums" /\ Len(answer[b + 1].v) = arity
  BY DEF NumericAt
<1> QED
  BY <1>2, <1>3, VocabulariesAssumption, Zenon

(* The two kinds of a finding, by the shape its task asks for. *)
LEMMA FindingIsOfBlock ==
    ASSUME NEW g \in MappedResult.geometry
    PROVE  \/ /\ MappedResult.kind = "points"
              /\ \E p \in PointRE(answer) :
                    /\ g = [at |-> p, label |-> LabelAt(answer, p, PointLabel),
                            geo |-> MakePoint(answer[p + 1].v, decoded[1], decoded[2])]
                    /\ LabelAt(answer, p, PointLabel) # <<>>
           \/ /\ MappedResult.kind = "boxes"
              /\ \E b \in BoxRE(answer) :
                    /\ g = [at |-> b, label |-> LabelAt(answer, b, <<>>),
                            geo |-> MakeBox(answer[b + 1].v, decoded[1], decoded[2])]
                    /\ LabelAt(answer, b, <<>>) # <<>>
<1> DEFINE boxes   == ParseBoxes(answer, decoded[1], decoded[2])
           points  == ParsePoints(answer, decoded[1], decoded[2], PointLabel)
           wanted  == ExpectedShape[header.prompt_task]
           valid   == IF wanted = "point" THEN points.found ELSE boxes.found
<1>1. /\ MappedResult.geometry = valid
      /\ valid # {} => MappedResult.kind = IF wanted = "point" THEN "points" ELSE "boxes"
  BY DEF MappedResult
<1>2. CASE wanted = "point"
  BY <1>1, <1>2 DEF ParsePoints
<1>3. CASE wanted # "point"
  BY <1>1, <1>3 DEF ParseBoxes
<1> QED
  BY <1>2, <1>3

LEMMA GeometryWhenMapped ==
    ASSUME answer \in Seq(UNION Vocabularies), decoded \in Nat \X Nat, result = MappedResult
    PROVE  GeometryInImage
<1> SUFFICES ASSUME NEW g \in MappedResult.geometry, NEW n, NEW p, n = g.geo.norm, p = g.geo.px
             PROVE  InImage(n, p)
  BY Zenon DEF GeometryInImage
<1>0. /\ \A i \in DOMAIN n : n[i] \in 0..Edge
      /\ \A i \in DOMAIN p : p[i] <= Edge * decoded[2 - (i % 2)]
      /\ Len(n) = (IF result.kind = "points" THEN 2 ELSE 4)
      /\ Len(n) = 4 => n[1] <= n[3] /\ n[2] <= n[4] /\ p[1] <= p[3] /\ p[2] <= p[4]
      => InImage(n, p)
  BY DEF InImage, Edge
<1>1. decoded[1] \in Nat /\ decoded[2] \in Nat /\ Len(answer) \in Nat
  OBVIOUS
<1>2. CASE \E b \in PointRE(answer) :
               g = [at |-> b, label |-> LabelAt(answer, b, PointLabel),
                    geo |-> MakePoint(answer[b + 1].v, decoded[1], decoded[2])]
           /\ result.kind = "points"
  <2>1. PICK b \in PointRE(answer) : g.geo = MakePoint(answer[b + 1].v, decoded[1], decoded[2])
    BY <1>2
  <2>2. b \in 1..Len(answer) /\ NumericAt(answer, b, 2)
    BY DEF PointRE
  <2>3. answer[b + 1].v \in Seq(Nat) /\ Len(answer[b + 1].v) = 2
    BY <2>2, SymbolOfBlock
  <2>0. n = MakePoint(answer[b + 1].v, decoded[1], decoded[2]).norm
        /\ p = MakePoint(answer[b + 1].v, decoded[1], decoded[2]).px
    BY <2>1, Zenon
  <2>7. Corner(n, p, decoded[1], decoded[2])
    BY <1>1, <2>0, <2>3, PointInImage
  <2>4. /\ \A i \in 1..2 : n[i] \in 0..Edge
        /\ p[1] <= Edge * decoded[1] /\ p[2] <= Edge * decoded[2]
    BY <2>7 DEF Corner
  <2>5. DOMAIN n = 1..2 /\ DOMAIN p = 1..2 /\ Len(n) = 2
    BY <2>7 DEF Corner
  <2>6. ASSUME NEW i \in 1..2 PROVE p[i] <= Edge * decoded[2 - (i % 2)]
    <3>1. 2 - (1 % 2) = 1 /\ 2 - (2 % 2) = 2 /\ (i = 1 \/ i = 2)
      OBVIOUS
    <3> QED
      BY <2>4, <3>1, Zenon
  <2> QED
    <3>1. Len(n) # 4 /\ Len(n) = (IF result.kind = "points" THEN 2 ELSE 4)
      <4>1. 2 # 4
        OBVIOUS
      <4> QED
        BY <1>2, <2>5, <4>1, Zenon
    <3> QED
      BY <1>0, <2>4, <2>5, <2>6, <3>1, Zenon
<1>3. CASE \E b \in BoxRE(answer) :
               g = [at |-> b, label |-> LabelAt(answer, b, <<>>),
                    geo |-> MakeBox(answer[b + 1].v, decoded[1], decoded[2])]
           /\ result.kind = "boxes"
  <2>1. PICK b \in BoxRE(answer) : g.geo = MakeBox(answer[b + 1].v, decoded[1], decoded[2])
    BY <1>3
  <2>2. b \in 1..Len(answer) /\ NumericAt(answer, b, 4)
    BY DEF BoxRE
  <2>3. answer[b + 1].v \in Seq(Nat) /\ Len(answer[b + 1].v) = 4
    BY <2>2, SymbolOfBlock
  <2>0. n = MakeBox(answer[b + 1].v, decoded[1], decoded[2]).norm
        /\ p = MakeBox(answer[b + 1].v, decoded[1], decoded[2]).px
    BY <2>1, Zenon
  <2>7. Corners(n, p, decoded[1], decoded[2])
    BY <1>1, <2>0, <2>3, BoxInImage
  <2>4. /\ \A i \in 1..4 : n[i] \in 0..Edge
        /\ p[1] <= Edge * decoded[1] /\ p[2] <= Edge * decoded[2]
        /\ p[3] <= Edge * decoded[1] /\ p[4] <= Edge * decoded[2]
        /\ n[1] <= n[3] /\ n[2] <= n[4] /\ p[1] <= p[3] /\ p[2] <= p[4]
    BY <2>7 DEF Corners
  <2>5. DOMAIN n = 1..4 /\ DOMAIN p = 1..4 /\ Len(n) = 4
    BY <2>7 DEF Corners
  <2>6. ASSUME NEW i \in 1..4 PROVE p[i] <= Edge * decoded[2 - (i % 2)]
    <3>1. /\ 2 - (1 % 2) = 1 /\ 2 - (2 % 2) = 2 /\ 2 - (3 % 2) = 1 /\ 2 - (4 % 2) = 2
          /\ (i = 1 \/ i = 2 \/ i = 3 \/ i = 4)
      OBVIOUS
    <3> QED
      BY <2>4, <3>1, Zenon
  <2> QED
    BY <1>0, <1>3, <2>4, <2>5, <2>6
<1> QED
  BY <1>2, <1>3, FindingIsOfBlock

-----------------------------------------------------------------------------
(* A rank below m is the one right below it or lower still.                *)
LEMMA TopOrBelow ==
    ASSUME NEW r \in Nat, NEW m \in Nat, r < m
    PROVE  r = m - 1 \/ r < m - 1
OBVIOUS

(* A function whose value at one point depends on its value at one point of *)
(* lower rank exists: what the recursive functions of the parser rest on.  *)
Recursive(g, P, base, step, goes, next) ==
    \A p \in P : g[p] = IF p \in goes THEN step[p][g[next[p]]] ELSE base[p]

LEMMA RecursionExists ==
    ASSUME NEW P, NEW V, NEW N \in Nat, NEW rank \in [P -> 0..N],
           NEW base \in [P -> V], NEW step \in [P -> [V -> V]],
           NEW goes \in SUBSET P, NEW next \in [goes -> P],
           \A p \in goes : rank[next[p]] < rank[p]
    PROVE  \E g \in [P -> V] : Recursive(g, P, base, step, goes, next)
<1> DEFINE Value(g, p) == IF p \in goes THEN step[p][g[next[p]]] ELSE base[p]
           Upto(n, g) == \A p \in P : rank[p] < n => g[p] = Value(g, p)
           T == {n \in Nat : ~ \E g \in [P -> V] : Upto(n, g)}
<1>1. \A g \in [P -> V], p \in P : Value(g, p) \in V
  OBVIOUS
<1> HIDE DEF Value
<1>2. T = {}
  <2> SUFFICES ASSUME T # {} PROVE FALSE
    OBVIOUS
  <2>1. PICK m \in T : \A n \in T : m <= n
    <3>1. T \in SUBSET Nat
      OBVIOUS
    <3> HIDE DEF T
    <3> QED
      BY <3>1, LeastNat
  <2>2. m \in Nat /\ m # 0
    <3>1. base \in [P -> V] /\ Upto(0, base)
      OBVIOUS
    <3> QED
      BY <2>1, <3>1
  <2>3. PICK g \in [P -> V] : Upto(m - 1, g)
    <3>1. m - 1 \in Nat /\ ~(m <= m - 1)
      BY <2>2
    <3>2. m - 1 \notin T
      BY <2>1, <3>1
    <3> QED
      BY <3>1, <3>2
  <2> DEFINE h == [p \in P |-> IF rank[p] = m - 1 THEN Value(g, p) ELSE g[p]]
  <2>4. h \in [P -> V]
    BY <1>1
  <2>5. \A p \in P : h[p] = IF rank[p] = m - 1 THEN Value(g, p) ELSE g[p]
    OBVIOUS
  <2> HIDE DEF h
  <2>6. ASSUME NEW p \in P, rank[p] < m PROVE h[p] = Value(h, p)
    <3>1. Value(h, p) = Value(g, p)
      <4>1. ASSUME p \in goes PROVE h[next[p]] = g[next[p]]
        <5>1. next[p] \in P /\ rank[next[p]] < rank[p] /\ rank[next[p]] \in Nat /\ rank[p] \in Nat
          BY <4>1
        <5>2. rank[next[p]] # m - 1
          BY <2>2, <2>6, <5>1
        <5> QED
          BY <2>5, <5>1, <5>2
      <4> QED
        BY <4>1 DEF Value
    <3>2. rank[p] = m - 1 \/ rank[p] < m - 1
      <4>1. rank[p] \in 0..N
        OBVIOUS
      <4>2. rank[p] \in Nat
        BY <4>1
      <4> QED
        BY <2>2, <2>6, <4>2, TopOrBelow
    <3>3. ASSUME rank[p] < m - 1 PROVE g[p] = Value(g, p)
      BY <2>3, <3>3
    <3>4. rank[p] < m - 1 => rank[p] # m - 1
      BY <2>2
    <3> QED
      BY <2>5, <3>1, <3>2, <3>3, <3>4
  <2> QED
    BY <2>1, <2>4, <2>6
<1>3. PICK g \in [P -> V] : Upto(N + 1, g)
  <2>1. N + 1 \in Nat
    OBVIOUS
  <2> QED
    BY <1>2, <2>1, Zenon
<1>4. \A p \in P : g[p] = Value(g, p)
  BY <1>3
<1> QED
  BY <1>4 DEF Value, Recursive

(* Where the run that has reached position p goes on to. *)
Goes(s, p) == p < Len(s) /\ s[p + 1].k = "box" /\ Closer(s, p + 1) # 0

Grows(s, g) == g = [p \in 0..Len(s) |-> IF Goes(s, p) THEN g[Closer(s, p + 1)] ELSE p]

LEMMA GoesOn ==
    ASSUME NEW s, Len(s) \in Nat, NEW p \in 0..Len(s), Goes(s, p)
    PROVE  /\ Closer(s, p + 1) \in (p + 2)..Len(s)
           /\ s[Closer(s, p + 1)].k = "/box"
           /\ \A j \in (p + 2)..Len(s) : s[j].k = "/box" => Closer(s, p + 1) <= j
<1>1. p + 1 \in Nat /\ (p + 1) + 1 = p + 2 /\ Closer(s, p + 1) # 0
  BY DEF Goes
<1> QED
  BY <1>1, CloserFacts

LEMMA GrowExists == ASSUME NEW s, Len(s) \in Nat PROVE \E g : Grows(s, g)
<1> DEFINE P == 0..Len(s)
           goes == {p \in P : Goes(s, p)}
           next == [p \in goes |-> Closer(s, p + 1)]
           rank == [p \in P |-> Len(s) - p]
           base == [p \in P |-> p]
           step == [p \in P |-> [v \in P |-> v]]
           N == Len(s)
<1>1. \A p \in goes : next[p] \in P /\ p < next[p]
  <2> SUFFICES ASSUME NEW p \in goes PROVE Closer(s, p + 1) \in P /\ p < Closer(s, p + 1)
    OBVIOUS
  <2>1. Closer(s, p + 1) \in (p + 2)..Len(s)
    BY GoesOn
  <2> QED
    BY <2>1
<1>2. goes \in SUBSET P /\ next \in [goes -> P] /\ rank \in [P -> 0..Len(s)]
      /\ base \in [P -> P] /\ step \in [P -> [P -> P]]
  BY <1>1
<1>3. \A p \in goes : rank[next[p]] < rank[p]
  BY <1>1
<1>4. PICK g \in [P -> P] : Recursive(g, P, base, step, goes, next)
  <2>1. N \in Nat /\ rank \in [P -> 0..N]
    BY <1>2
  <2> HIDE DEF P, goes, next, rank, base, step, N
  <2>2. base \in [P -> P] /\ step \in [P -> [P -> P]]
    BY <1>2
  <2>3. goes \in SUBSET P /\ next \in [goes -> P]
    BY <1>2
  <2> QED
    BY <2>1, <2>2, <2>3, <1>3, RecursionExists, Zenon
<1>5. \A p \in P : g[p] = IF Goes(s, p) THEN g[Closer(s, p + 1)] ELSE p
  BY <1>1, <1>4 DEF Recursive
<1>6. g = [p \in P |-> g[p]]
  OBVIOUS
<1>7. g = [p \in P |-> IF Goes(s, p) THEN g[Closer(s, p + 1)] ELSE p]
  BY <1>5, <1>6
<1> QED
  BY <1>7 DEF Grows

LEMMA RunEndIs ==
    ASSUME NEW s, Len(s) \in Nat, NEW i \in 0..Len(s)
    PROVE  RunEnd(s, i) = IF Goes(s, i) THEN RunEnd(s, Closer(s, i + 1)) ELSE i
<1> DEFINE G == CHOOSE g : Grows(s, g)
<1>1. Grows(s, G)
  BY GrowExists
<1>2. \A p : RunEnd(s, p) = G[p]
  BY DEF RunEnd, Grows, Goes
<1>3. G[i] = IF Goes(s, i) THEN G[Closer(s, i + 1)] ELSE i
  <2> HIDE DEF G
  <2> QED
    BY <1>1 DEF Grows
<1> QED
  BY <1>2, <1>3

(* A run ends where no block follows; what lies in it is blocks.            *)
LEMMA RunEndFacts ==
    ASSUME NEW s, Len(s) \in Nat, NEW i \in 0..Len(s)
    PROVE  /\ RunEnd(s, i) \in i..Len(s)
           /\ ~Goes(s, RunEnd(s, i))
           /\ RunEnd(s, i) # i => s[RunEnd(s, i)].k = "/box"
           /\ \A j \in (i + 1)..RunEnd(s, i) : \E b \in (i + 1)..j :
                  s[b].k = "box" /\ Closer(s, b) # 0 /\ j <= Closer(s, b)
<1> DEFINE Fine(p) ==
               /\ RunEnd(s, p) \in p..Len(s)
               /\ ~Goes(s, RunEnd(s, p))
               /\ RunEnd(s, p) # p => s[RunEnd(s, p)].k = "/box"
               /\ \A j \in (p + 1)..RunEnd(s, p) : \E b \in (p + 1)..j :
                      s[b].k = "box" /\ Closer(s, b) # 0 /\ j <= Closer(s, b)
           T == {p \in 0..Len(s) : ~Fine(p)}
<1> SUFFICES ASSUME T # {} PROVE FALSE
  OBVIOUS
<1>1. PICK p \in T : \A q \in T : q <= p
  <2>1. T \in SUBSET (0..Len(s))
    OBVIOUS
  <2> HIDE DEF T
  <2> QED
    BY <2>1, GreatestNat
<1>2. p \in 0..Len(s) /\ ~Fine(p)
  BY <1>1
<1>3. CASE ~Goes(s, p)
  <2>1. RunEnd(s, p) = p
    BY <1>2, <1>3, RunEndIs
  <2> QED
    BY <1>2, <1>3, <2>1
<1>4. CASE Goes(s, p)
  <2> DEFINE c == Closer(s, p + 1)
  <2>1. RunEnd(s, p) = RunEnd(s, c)
    BY <1>2, <1>4, RunEndIs
  <2>2. c \in (p + 2)..Len(s) /\ s[c].k = "/box" /\ s[p + 1].k = "box" /\ c # 0
    BY <1>2, <1>4, GoesOn DEF Goes
  <2> HIDE DEF c
  <2>3. Fine(c)
    <3>1. c \in 0..Len(s) /\ ~(c <= p)
      BY <1>2, <2>2
    <3> HIDE DEF Fine
    <3>2. c \notin T
      BY <1>1, <3>1
    <3> QED
      BY <3>1, <3>2
  <2>4. RunEnd(s, p) \in p..Len(s) /\ ~Goes(s, RunEnd(s, p)) /\ RunEnd(s, p) \in c..Len(s)
    BY <1>2, <2>1, <2>2, <2>3
  <2>5. s[RunEnd(s, p)].k = "/box"
    BY <2>1, <2>2, <2>3
  <2>6. ASSUME NEW j \in (p + 1)..RunEnd(s, p)
        PROVE  \E b \in (p + 1)..j : s[b].k = "box" /\ Closer(s, b) # 0 /\ j <= Closer(s, b)
    <3>1. CASE j <= c
      <4>1. p + 1 \in (p + 1)..j
        BY <1>2, <2>4
      <4> QED
        BY <2>2, <3>1, <4>1 DEF c
    <3>2. CASE ~(j <= c)
      <4>1. j \in (c + 1)..RunEnd(s, c)
        BY <1>2, <2>1, <2>2, <2>4, <3>2
      <4>2. PICK b \in (c + 1)..j : s[b].k = "box" /\ Closer(s, b) # 0 /\ j <= Closer(s, b)
        BY <2>3, <4>1
      <4>3. b \in (p + 1)..j
        BY <1>2, <2>2, <2>4
      <4> QED
        BY <4>2, <4>3
    <3> QED
      BY <3>1, <3>2
  <2> QED
    BY <1>2, <2>4, <2>5, <2>6
<1> QED
  BY <1>3, <1>4

(* A ref that starts a match, once the scan has reached it. *)
Starts(s, p) == s[p].k = "ref" /\ RunEnd(s, p) > p

Scans(s, g) ==
    g = [p \in 1..(Len(s) + 1) |->
            IF p > Len(s) THEN {}
            ELSE IF Starts(s, p) THEN {<<p, RunEnd(s, p)>>} \cup g[RunEnd(s, p) + 1]
                                 ELSE g[p + 1]]

LEMMA ScanExists == ASSUME NEW s, Len(s) \in Nat PROVE \E g : Scans(s, g)
<1> DEFINE N == Len(s) + 1
           P == 1..N
           V == SUBSET (Nat \X Nat)
           goes == {p \in P : p <= Len(s)}
           next == [p \in goes |-> IF Starts(s, p) THEN RunEnd(s, p) + 1 ELSE p + 1]
           rank == [p \in P |-> N - p]
           base == [p \in P |-> {}]
           step == [p \in P |-> [v \in V |->
                       IF Starts(s, p) /\ p <= Len(s) THEN {<<p, RunEnd(s, p)>>} \cup v ELSE v]]
<1>0. \A p \in goes : p \in 0..Len(s) /\ p \in Nat /\ RunEnd(s, p) \in p..Len(s)
  <2> SUFFICES ASSUME NEW p \in goes
               PROVE  p \in 0..Len(s) /\ p \in Nat /\ RunEnd(s, p) \in p..Len(s)
    OBVIOUS
  <2>1. p \in 0..Len(s) /\ p \in Nat
    OBVIOUS
  <2> QED
    BY <2>1, RunEndFacts
<1>1. \A p \in goes : next[p] \in P /\ p < next[p]
  BY <1>0
<1>2. N \in Nat /\ goes \in SUBSET P /\ next \in [goes -> P] /\ rank \in [P -> 0..N] /\ base \in [P -> V]
  BY <1>1
<1>3. step \in [P -> [V -> V]]
  <2> SUFFICES ASSUME NEW p \in P, NEW v \in V, Starts(s, p), p <= Len(s)
               PROVE  {<<p, RunEnd(s, p)>>} \cup v \in V
    OBVIOUS
  <2>1. p \in Nat /\ RunEnd(s, p) \in Nat
    BY <1>0
  <2> QED
    BY <2>1
<1>4. \A p \in goes : rank[next[p]] < rank[p]
  BY <1>1
<1>5. PICK g \in [P -> V] : Recursive(g, P, base, step, goes, next)
  <2> HIDE DEF P, V, goes, next, rank, base, step, N
  <2> QED
    BY <1>2, <1>3, <1>4, RecursionExists, Zenon
<1>6. ASSUME NEW p \in P
      PROVE  g[p] = IF p > Len(s) THEN {}
                    ELSE IF Starts(s, p) THEN {<<p, RunEnd(s, p)>>} \cup g[RunEnd(s, p) + 1]
                                         ELSE g[p + 1]
  <2>1. g[p] = IF p \in goes THEN step[p][g[next[p]]] ELSE base[p]
    BY <1>5 DEF Recursive
  <2>2. CASE p \in goes
    <3>1. g[next[p]] \in V
      BY <1>1, <2>2
    <3>2. step[p][g[next[p]]] = IF Starts(s, p) THEN {<<p, RunEnd(s, p)>>} \cup g[next[p]] ELSE g[next[p]]
      BY <2>2, <3>1
    <3>3. next[p] = IF Starts(s, p) THEN RunEnd(s, p) + 1 ELSE p + 1
      BY <2>2
    <3>4. ~(p > Len(s))
      BY <2>2
    <3> QED
      BY <2>1, <2>2, <3>2, <3>3, <3>4, Zenon
  <2>3. CASE p \notin goes
    BY <2>1, <2>3
  <2> QED
    BY <2>2, <2>3
<1>7. g = [p \in P |-> g[p]]
  OBVIOUS
<1>8. g = [p \in P |-> IF p > Len(s) THEN {}
                       ELSE IF Starts(s, p) THEN {<<p, RunEnd(s, p)>>} \cup g[RunEnd(s, p) + 1]
                                            ELSE g[p + 1]]
  BY <1>6, <1>7
<1> QED
  BY <1>8 DEF Scans

LEMMA RunsAreScanned ==
    ASSUME NEW s, Len(s) \in Nat
    PROVE  \E g : RefRuns(s) = g[1] /\ \A p \in 1..(Len(s) + 1) :
               g[p] = IF p > Len(s) THEN {}
                      ELSE IF Starts(s, p) THEN {<<p, RunEnd(s, p)>>} \cup g[RunEnd(s, p) + 1]
                                           ELSE g[p + 1]
<1> DEFINE G == CHOOSE g : Scans(s, g)
<1>1. Scans(s, G)
  BY ScanExists
<1>2. RefRuns(s) = G[1]
  BY DEF RefRuns, Scans, Starts
<1> HIDE DEF G
<1> QED
  BY <1>1, <1>2 DEF Scans

(* Every run is that of a ref with a block behind it. *)
LEMMA RunIsOfRef ==
    ASSUME NEW s, Len(s) \in Nat, NEW run \in RefRuns(s)
    PROVE  \E q \in 1..Len(s) : Starts(s, q) /\ run = <<q, RunEnd(s, q)>>
<1>1. PICK g : RefRuns(s) = g[1] /\ \A p \in 1..(Len(s) + 1) :
               g[p] = IF p > Len(s) THEN {}
                      ELSE IF Starts(s, p) THEN {<<p, RunEnd(s, p)>>} \cup g[RunEnd(s, p) + 1]
                                           ELSE g[p + 1]
  BY RunsAreScanned
<1> DEFINE OfRef(x) == \E q \in 1..Len(s) : Starts(s, q) /\ x = <<q, RunEnd(s, q)>>
           T == {p \in 1..(Len(s) + 1) : \E x \in g[p] : ~OfRef(x)}
<1>2. T = {}
  <2> SUFFICES ASSUME T # {} PROVE FALSE
    OBVIOUS
  <2>1. PICK p \in T : \A q \in T : q <= p
    <3>1. T \in SUBSET (0..(Len(s) + 1)) /\ Len(s) + 1 \in Nat
      OBVIOUS
    <3> HIDE DEF T
    <3> QED
      BY <3>1, GreatestNat
  <2>2. p \in 1..(Len(s) + 1) /\ \E x \in g[p] : ~OfRef(x)
    BY <2>1
  <2>3. p <= Len(s)
    <3>1. p > Len(s) => g[p] = {}
      BY <1>1, <2>2
    <3> QED
      BY <2>2, <3>1
  <2>4. RunEnd(s, p) \in p..Len(s)
    <3>1. p \in 0..Len(s)
      BY <2>2, <2>3
    <3> QED
      BY <3>1, RunEndFacts
  <2>5. \A q \in (p + 1)..(Len(s) + 1) : \A x \in g[q] : OfRef(x)
    <3> SUFFICES ASSUME NEW q \in (p + 1)..(Len(s) + 1) PROVE \A x \in g[q] : OfRef(x)
      OBVIOUS
    <3>1. ~(q <= p) /\ q \in 1..(Len(s) + 1)
      BY <2>2
    <3> QED
      BY <2>1, <3>1
  <2>6. CASE Starts(s, p)
    <3>1. g[p] = {<<p, RunEnd(s, p)>>} \cup g[RunEnd(s, p) + 1]
      BY <1>1, <2>2, <2>3, <2>6
    <3>2. RunEnd(s, p) + 1 \in (p + 1)..(Len(s) + 1)
      BY <2>2, <2>4
    <3>3. OfRef(<<p, RunEnd(s, p)>>)
      <4>1. p \in 1..Len(s)
        BY <2>2, <2>3
      <4> QED
        BY <2>6, <4>1
    <3> HIDE DEF OfRef
    <3> QED
      BY <2>2, <2>5, <3>1, <3>2, <3>3
  <2>7. CASE ~Starts(s, p)
    <3>1. g[p] = g[p + 1]
      BY <1>1, <2>2, <2>3, <2>7
    <3>2. p + 1 \in (p + 1)..(Len(s) + 1)
      BY <2>2, <2>3
    <3> HIDE DEF OfRef
    <3> QED
      BY <2>2, <2>5, <3>1, <3>2
  <2> QED
    BY <2>6, <2>7
<1>3. 1 \in 1..(Len(s) + 1)
  OBVIOUS
<1>4. OfRef(run)
  <2> HIDE DEF OfRef
  <2> QED
    BY <1>1, <1>2, <1>3
<1> QED
  BY <1>4

(* A ref that no earlier run swallows has a run. *)
LEMMA RefHasRun ==
    ASSUME NEW s, Len(s) \in Nat, NEW r \in 1..Len(s), Starts(s, r),
           \A p \in 1..(r - 1) : Starts(s, p) => RunEnd(s, p) < r
    PROVE  <<r, RunEnd(s, r)>> \in RefRuns(s)
<1>1. PICK g : RefRuns(s) = g[1] /\ \A p \in 1..(Len(s) + 1) :
               g[p] = IF p > Len(s) THEN {}
                      ELSE IF Starts(s, p) THEN {<<p, RunEnd(s, p)>>} \cup g[RunEnd(s, p) + 1]
                                           ELSE g[p + 1]
  BY RunsAreScanned
<1> DEFINE mine == <<r, RunEnd(s, r)>>
           T == {p \in 1..r : mine \notin g[p]}
<1> HIDE DEF mine
<1>2. T = {}
  <2> SUFFICES ASSUME T # {} PROVE FALSE
    OBVIOUS
  <2>1. PICK p \in T : \A q \in T : q <= p
    <3>1. T \in SUBSET (0..r) /\ r \in Nat
      OBVIOUS
    <3> HIDE DEF T
    <3> QED
      BY <3>1, GreatestNat
  <2>2. p \in 1..r /\ mine \notin g[p] /\ p \in 1..(Len(s) + 1) /\ ~(p > Len(s))
    BY <2>1
  <2>3. \A q \in (p + 1)..r : mine \in g[q]
    <3> SUFFICES ASSUME NEW q \in (p + 1)..r PROVE mine \in g[q]
      OBVIOUS
    <3>1. ~(q <= p) /\ q \in 1..r
      BY <2>2
    <3> QED
      BY <2>1, <3>1
  <2>4. p # r
    <3>1. g[r] = {mine} \cup g[RunEnd(s, r) + 1]
      <4>1. r \in 1..(Len(s) + 1) /\ ~(r > Len(s))
        OBVIOUS
      <4> QED
        BY <1>1, <4>1 DEF mine
    <3> QED
      BY <2>2, <3>1
  <2>5. p \in 1..(r - 1)
    BY <2>2, <2>4
  <2>6. CASE Starts(s, p)
    <3>1. RunEnd(s, p) < r
      BY <2>5, <2>6
    <3>2. RunEnd(s, p) \in p..Len(s)
      <4>1. p \in 0..Len(s)
        BY <2>2
      <4> QED
        BY <4>1, RunEndFacts
    <3>3. RunEnd(s, p) + 1 \in (p + 1)..r
      BY <2>2, <3>1, <3>2
    <3>4. g[p] = {<<p, RunEnd(s, p)>>} \cup g[RunEnd(s, p) + 1]
      BY <1>1, <2>2, <2>6
    <3> QED
      BY <2>2, <2>3, <3>3, <3>4
  <2>7. CASE ~Starts(s, p)
    <3>1. g[p] = g[p + 1]
      BY <1>1, <2>2, <2>7
    <3>2. p + 1 \in (p + 1)..r
      BY <2>5
    <3> QED
      BY <2>2, <2>3, <3>1, <3>2
  <2> QED
    BY <2>6, <2>7
<1>3. 1 \in 1..r
  OBVIOUS
<1> QED
  BY <1>1, <1>2, <1>3 DEF mine

-----------------------------------------------------------------------------
(* Labels. *)

(* In a tidy answer a ref lies in no closed block. *)
LEMMA NoRefInBlock ==
    ASSUME Len(answer) \in Nat, Tidy, NEW b \in ClosedBlocks, NEW r \in 1..Len(answer),
           answer[r].k = "ref", b <= r
    PROVE  Closer(answer, b) < r
<1>1. b \in Openers /\ b \in 1..Len(answer) /\ answer[b].k = "box" /\ Closer(answer, b) # 0
  BY DEF ClosedBlocks, Openers
<1>2. Closer(answer, b) \in Nat
  BY <1>1, CloserFacts
<1>3. \A j \in (b + 1)..Closer(answer, b) : answer[j].k # "ref"
  BY <1>1 DEF Tidy
<1>4. b # r
  BY <1>1
<1> QED
  BY <1>1, <1>2, <1>3, <1>4

(* In a tidy answer every block that closes is closed before another opens. *)
LEMMA TidyBlocks ==
    ASSUME Len(answer) \in Nat, Tidy, NEW b \in 1..Len(answer), answer[b].k = "box",
           Closer(answer, b) # 0
    PROVE  b \in ClosedBlocks
<1>1. b \in Openers
  BY DEF Openers
<1>2. ASSUME NEW j \in Openers, b < j, j < Closer(answer, b) PROVE FALSE
  <2>1. answer[j].k = "box" /\ j \in Nat /\ Closer(answer, b) \in Nat
    BY CloserFacts DEF Openers
  <2>2. j \in (b + 1)..Closer(answer, b)
    BY <1>2, <2>1
  <2> QED
    BY <1>1, <2>1, <2>2 DEF Tidy
<1> QED
  BY <1>1, <1>2 DEF ClosedBlocks

(* The run a block lies in starts with a ref that only blocks separate from *)
(* it.                                                                     *)
LEMMA RunIsCovered ==
    ASSUME Len(answer) \in Nat, Tidy, NEW i \in 1..Len(answer), NEW run \in RefRuns(answer),
           Inside(run, i)
    PROVE  run[1] \in RunOf(i)
<1>1. PICK q \in 1..Len(answer) : Starts(answer, q) /\ run = <<q, RunEnd(answer, q)>>
  BY RunIsOfRef
<1>2. q \in 0..Len(answer)
  OBVIOUS
<1>3. /\ RunEnd(answer, q) \in q..Len(answer)
      /\ \A j \in (q + 1)..RunEnd(answer, q) : \E b \in (q + 1)..j :
             answer[b].k = "box" /\ Closer(answer, b) # 0 /\ j <= Closer(answer, b)
  BY <1>2, RunEndFacts
<1>4. run[1] = q /\ q < i /\ i <= RunEnd(answer, q)
  BY <1>1 DEF Inside
<1>5. ASSUME NEW j \in (q + 1)..i
      PROVE  \E b \in ClosedBlocks : b <= j /\ j <= Closer(answer, b)
  <2>1. j \in (q + 1)..RunEnd(answer, q)
    BY <1>3, <1>4
  <2>2. PICK b \in (q + 1)..j : answer[b].k = "box" /\ Closer(answer, b) # 0 /\ j <= Closer(answer, b)
    BY <1>3, <2>1
  <2>3. b \in 1..Len(answer) /\ b <= j
    BY <2>2, <1>4
  <2>4. b \in ClosedBlocks
    BY <2>2, <2>3, TidyBlocks
  <2> QED
    BY <2>2, <2>3, <2>4
<1>6. answer[q].k = "ref" /\ q \in 1..(i - 1)
  BY <1>1, <1>4 DEF Starts
<1> QED
  BY <1>4, <1>5, <1>6 DEF RunOf

(* There is one such ref at most. *)
LEMMA OneRun ==
    ASSUME Len(answer) \in Nat, Tidy, NEW i \in 1..Len(answer),
           NEW q \in RunOf(i), NEW r \in RunOf(i)
    PROVE  q = r
<1>1. ASSUME NEW a \in RunOf(i), NEW c \in RunOf(i), a < c PROVE FALSE
  <2>1. /\ a \in 1..(i - 1) /\ c \in 1..(i - 1) /\ answer[c].k = "ref"
        /\ \A j \in (a + 1)..i : \E b \in ClosedBlocks : b <= j /\ j <= Closer(answer, b)
    BY DEF RunOf
  <2>2. c \in (a + 1)..i
    BY <1>1, <2>1
  <2>3. PICK b \in ClosedBlocks : b <= c /\ c <= Closer(answer, b)
    BY <2>1, <2>2
  <2>4. c \in 1..Len(answer)
    BY <2>1
  <2>5. Closer(answer, b) < c
    BY <2>1, <2>3, <2>4, NoRefInBlock
  <2>6. Closer(answer, b) \in Nat
    <3>1. b \in Nat
      BY DEF ClosedBlocks, Openers
    <3> QED
      BY <3>1, CloserFacts
  <2> QED
    BY <2>3, <2>4, <2>5, <2>6
<1>2. q \in Nat /\ r \in Nat
  BY DEF RunOf
<1>3. ~(q < r) /\ ~(r < q)
  BY <1>1
<1> QED
  BY <1>2, <1>3

(* And the parser finds its run. *)
LEMMA CoveredHasRun ==
    ASSUME Len(answer) \in Nat, Tidy, NEW i \in 1..Len(answer), NEW r \in RunOf(i)
    PROVE  \E run \in RefRuns(answer) : Inside(run, i) /\ run[1] = r
<1> DEFINE s == answer
           e == RunEnd(s, r)
<1>1. /\ r \in 1..(i - 1) /\ s[r].k = "ref" /\ r \in 1..Len(s) /\ r \in 0..Len(s)
      /\ \A j \in (r + 1)..i : \E b \in ClosedBlocks : b <= j /\ j <= Closer(s, b)
  BY DEF RunOf
<1>2. e \in r..Len(s) /\ ~Goes(s, e) /\ (e # r => s[e].k = "/box")
  BY <1>1, RunEndFacts
<1> HIDE DEF e
<1>3. ~(e < i)
  <2> SUFFICES ASSUME e < i PROVE FALSE
    OBVIOUS
  <2>1. e + 1 \in (r + 1)..i
    BY <1>1, <1>2
  <2>2. PICK b \in ClosedBlocks : b <= e + 1 /\ e + 1 <= Closer(s, b)
    BY <1>1, <2>1
  <2>3. b \in 1..Len(s) /\ s[b].k = "box" /\ Closer(s, b) # 0 /\ b \in Nat
    BY DEF ClosedBlocks, Openers
  <2>4. /\ Closer(s, b) \in (b + 1)..Len(s)
        /\ \A j \in (b + 1)..Len(s) : s[j].k = "/box" => Closer(s, b) <= j
    BY <2>3, CloserFacts
  <2>5. b # e + 1
    <3> SUFFICES ASSUME b = e + 1 PROVE FALSE
      OBVIOUS
    <3>1. e < Len(s)
      BY <1>2, <2>3
    <3> QED
      BY <1>2, <2>3, <3>1 DEF Goes
  <2>6. b <= e
    BY <1>2, <2>2, <2>3, <2>5
  <2>7. CASE e = r
    <3>1. Closer(s, b) < r
      BY <1>1, <2>6, <2>7, NoRefInBlock
    <3> QED
      BY <1>1, <2>2, <2>4, <2>7, <3>1
  <2>8. CASE e # r
    <3>1. s[e].k = "/box"
      BY <1>2, <2>8
    <3>2. b # e
      BY <2>3, <3>1
    <3>3. e \in (b + 1)..Len(s)
      BY <1>2, <2>3, <2>6, <3>2
    <3>4. Closer(s, b) <= e
      BY <2>4, <3>1, <3>3
    <3> QED
      BY <1>2, <2>2, <2>4, <3>4
  <2> QED
    BY <2>7, <2>8
<1>4. e > r /\ i <= e
  BY <1>1, <1>2, <1>3
<1>5. Starts(s, r)
  BY <1>1, <1>4 DEF Starts, e
<1>6. ASSUME NEW p \in 1..(r - 1), Starts(s, p) PROVE RunEnd(s, p) < r
  <2>1. p \in 0..Len(s) /\ p \in 1..Len(s) /\ p < r
    BY <1>1
  <2>2. /\ RunEnd(s, p) \in p..Len(s)
        /\ \A j \in (p + 1)..RunEnd(s, p) : \E b \in (p + 1)..j :
               s[b].k = "box" /\ Closer(s, b) # 0 /\ j <= Closer(s, b)
    BY <2>1, RunEndFacts
  <2> SUFFICES ASSUME r <= RunEnd(s, p) PROVE FALSE
    BY <1>1, <2>2
  <2>3. r \in (p + 1)..RunEnd(s, p)
    BY <1>1, <2>1, <2>2
  <2>4. PICK b \in (p + 1)..r : s[b].k = "box" /\ Closer(s, b) # 0 /\ r <= Closer(s, b)
    BY <2>2, <2>3
  <2>5. b \in 1..Len(s) /\ b <= r
    BY <1>1, <2>1
  <2>6. b \in ClosedBlocks
    BY <2>4, <2>5, TidyBlocks
  <2>7. Closer(s, b) < r
    BY <1>1, <2>5, <2>6, NoRefInBlock
  <2>8. Closer(s, b) \in Nat
    BY <2>5, CloserFacts
  <2> QED
    BY <1>1, <2>4, <2>7, <2>8
<1>7. <<r, RunEnd(s, r)>> \in RefRuns(s)
  BY <1>1, <1>5, <1>6, RefHasRun
<1>8. Inside(<<r, RunEnd(s, r)>>, i) /\ <<r, RunEnd(s, r)>>[1] = r
  BY <1>1, <1>4 DEF Inside, e
<1> QED
  BY <1>7, <1>8

(* The label a block gets is that of its run's ref.                         *)
LEMMA LabelIsOfRun ==
    ASSUME Len(answer) \in Nat, Tidy, NEW i \in 1..Len(answer), NEW default
    PROVE  IF RunOf(i) = {} THEN LabelAt(answer, i, default) = default
           ELSE \A r \in RunOf(i) : LabelAt(answer, i, default) = answer[r].v
<1> DEFINE around == {run \in RefRuns(answer) : Inside(run, i)}
           it == CHOOSE run \in around : TRUE
<1>1. LabelAt(answer, i, default) = IF around = {} THEN default ELSE LabelOf(answer, it)
  BY DEF LabelAt
<1>2. CASE RunOf(i) = {}
  <2>1. around = {}
    BY <1>2, RunIsCovered
  <2> QED
    BY <1>1, <1>2, <2>1
<1>3. ASSUME NEW r \in RunOf(i) PROVE LabelAt(answer, i, default) = answer[r].v
  <2>1. around # {}
    BY CoveredHasRun
  <2>2. it \in around
    BY <2>1
  <2>3. it \in RefRuns(answer) /\ Inside(it, i)
    BY <2>2
  <2> HIDE DEF it, around
  <2>4. it[1] \in RunOf(i)
    BY <2>3, RunIsCovered
  <2>5. it[1] = r
    BY <2>4, OneRun
  <2> QED
    BY <1>1, <2>1, <2>5 DEF LabelOf
<1> QED
  BY <1>2, <1>3

LEMMA LabelsWhenMapped ==
    ASSUME Len(answer) \in Nat, result = MappedResult
    PROVE  LabelsComeFromTheirRun
<1> SUFFICES ASSUME Tidy, NEW g \in MappedResult.geometry
             PROVE  /\ g.label # <<>>
                    /\ IF RunOf(g.at) = {} THEN PointTask /\ g.label = header.phrase
                       ELSE \A r \in RunOf(g.at) : g.label = answer[r].v
  BY DEF LabelsComeFromTheirRun
<1>1. PICK default \in {PointLabel, <<>>} :
          g.at \in 1..Len(answer) /\ g.label = LabelAt(answer, g.at, default) /\ g.label # <<>>
  BY FindingIsOfBlock DEF PointRE, BoxRE
<1>2. CASE RunOf(g.at) = {}
  <2>1. g.label = default
    BY <1>1, <1>2, LabelIsOfRun
  <2>2. default = PointLabel /\ PointTask
    BY <1>1, <2>1 DEF PointLabel
  <2> QED
    BY <1>1, <1>2, <2>1, <2>2 DEF PointLabel
<1>3. CASE RunOf(g.at) # {}
  <2>1. \A r \in RunOf(g.at) : g.label = answer[r].v
    BY <1>1, <1>3, LabelIsOfRun
  <2> QED
    BY <1>1, <1>3, <2>1
<1> QED
  BY <1>2, <1>3

=============================================================================
