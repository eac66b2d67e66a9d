-------------------------- MODULE EngineBootProofs --------------------------
(***************************************************************************)
(* The boot of the engine for any number of copies of the model's code, of *)
(* blocks, of faults and of engines in one process: the types; what an     *)
(* engine that serves runs on; that no copy is wrapped twice or touched    *)
(* beside a strange one; and that every refusal has a cause.               *)
(***************************************************************************)
EXTENDS EngineBoot, TLAPS

FromLlm == {"patch_vit", "ready"}
FromVerify == FromLlm \union {"patch_llm"}
FromLoad == FromVerify \union {"verify"}
FromFa2 == FromLoad \union {"load"}
FromConfig == FromFa2 \union {"force_fa2"}
FromRecheck == FromConfig \union {"config"}
Early == {"env", "gpu", "dir", "preprocessor", "templates"}

(* What each phase knows of the world and of the files.                    *)
ChecksPassed ==
    /\ phase \notin {"env", "refused"} => world.env = "trained"
    /\ phase \notin {"env", "gpu", "refused"} => world.gpu = "blackwell"
    /\ phase \in FromRecheck \union {"recheck"} => world.templates = "agree"
    /\ phase \in FromRecheck => files \in {"pinned", "changed_after"}
    /\ phase \in FromConfig => world.text_config = "present"
    /\ phase \in FromFa2 => /\ world.flash = "pinned" /\ world.vit_shape = "moonvit"
                            /\ world.dispatch \in {"expected", "sdpa_signature"}
                            /\ world.vision # "magi"

(* What it knows of the configuration and of the model.                    *)
Configured ==
    /\ phase \in FromConfig => config.text = "sdpa"
    /\ phase = "force_fa2" => config.vision = world.vision
    /\ phase \in FromFa2 => config.marker

ModelKnown ==
    /\ phase \in FromLoad => /\ model.text # "unset"
                             /\ model.live \in imported.qwen \union {"foreign"}
    /\ phase \in FromVerify => /\ model.text = "sdpa"
                               /\ \A b \in Blocks : model.blocks[b] = "flash_attention_2"

VitKnown ==
    /\ phase \in FromFa2 => imported.vit # {}
    /\ vitPatched # {} => world.dispatch # "sdpa_signature"
    /\ phase = "ready" => world.dispatch # "sdpa_signature" /\ imported.vit \subseteq vitPatched

(* What it knows of the copies: the first engine finds them untouched.     *)
LlmKnown ==
    /\ phase \in FromLlm => model.live \in imported.qwen /\ imported.qwen \subseteq TaggedLlm
    /\ TaggedLlm \intersect world.drifted = {}
    /\ boots = 0 => TaggedLlm = {}
    /\ boots = 1 /\ phase \in FromRecheck \ FromLlm => TaggedLlm = {}
    /\ boots = 1 /\ refusal = "llm_shape" => TaggedLlm = {}

BootCount ==
    /\ phase \in Early => boots = 0
    /\ phase = "recheck" => boots < MaxBoots
    /\ phase \in FromRecheck => boots # 0
    /\ phase # "refused" => refusal = "none"

-----------------------------------------------------------------------------
LEMMA InitFacts ==
    ASSUME Init
    PROVE  /\ TypeOK /\ ChecksPassed /\ Configured /\ ModelKnown
           /\ VitKnown /\ LlmKnown /\ BootCount /\ WrappedOnce /\ RefusesOnlyWithCause
<1> USE BootAssumption DEF Init
<1>1. TypeOK
  <2>1. world \in Possible
    OBVIOUS
  <2>2. /\ files \in {"pinned", "drifted", "missing", "unpinned_py", "changed_after"}
        /\ phase \in Phase /\ boots \in 0..MaxBoots
        /\ config \in [outer : Impl, text : Impl, vision : Impl, marker : BOOLEAN]
    BY DEF Phase, Impl, NoConfig
  <2>3. model \in [text : Impl, vision : Impl, blocks : [Blocks -> Impl],
                  live : Modules \union {"foreign", "none"}]
    BY DEF Impl, NoModel
  <2>4. /\ imported \in [qwen : SUBSET Modules, vit : SUBSET Modules]
        /\ wraps \in [Modules -> 0..MaxBoots] /\ vitPatched \subseteq imported.vit
    OBVIOUS
  <2> QED
    BY <2>1, <2>2, <2>3, <2>4 DEF TypeOK
<1>2. TaggedLlm = {}
  BY DEF TaggedLlm
<1>3. ChecksPassed /\ Configured /\ ModelKnown /\ VitKnown /\ BootCount
  BY DEF ChecksPassed, Configured, ModelKnown, VitKnown, BootCount, FromRecheck, FromConfig,
     FromFa2, FromLoad, FromVerify, FromLlm, Early
<1>4. LlmKnown
  BY <1>2 DEF LlmKnown, FromRecheck, FromConfig, FromFa2, FromLoad, FromVerify, FromLlm
<1>5. WrappedOnce /\ RefusesOnlyWithCause
  BY DEF WrappedOnce, RefusesOnlyWithCause
<1> QED
  BY <1>1, <1>3, <1>4, <1>5

LEMMA Constants == MaxBoots \in Nat /\ 1 <= MaxBoots
  BY BootAssumption

(* What WrapAll makes of counters that are 0 or 1. *)
LEMMA Wrapping ==
    ASSUME TypeOK, WrappedOnce, PatchLlm, UNCHANGED wraps \/ wraps' = WrapAll(imported.qwen \ TaggedLlm)
    PROVE  /\ wraps' \in [Modules -> 0..MaxBoots]
           /\ WrappedOnce'
<1>1. wraps \in [Modules -> 0..MaxBoots] /\ \A m \in Modules : wraps[m] \in Nat /\ wraps[m] <= 1
  BY Constants DEF TypeOK, WrappedOnce
<1>2. CASE UNCHANGED wraps
  BY <1>1, <1>2 DEF WrappedOnce
<1>3. CASE wraps' = WrapAll(imported.qwen \ TaggedLlm)
  <2>1. ASSUME NEW m \in Modules
        PROVE  wraps'[m] = IF m \in imported.qwen \ TaggedLlm THEN wraps[m] + 1 ELSE wraps[m]
    BY <1>3 DEF WrapAll
  <2>2. ASSUME NEW m \in Modules PROVE wraps'[m] \in 0..MaxBoots /\ wraps'[m] <= 1
    BY <1>1, <2>1, Constants DEF TaggedLlm
  <2>3. wraps' = [m \in Modules |-> wraps'[m]]
    BY <1>3 DEF WrapAll
  <2> QED
    BY <2>2, <2>3 DEF WrappedOnce
<1> QED
  BY <1>2, <1>3

LEMMA PatchLlmWraps ==
    ASSUME PatchLlm
    PROVE  UNCHANGED wraps \/ wraps' = WrapAll(imported.qwen \ TaggedLlm)
  BY DEF PatchLlm

LEMMA LoadTypes ==
    ASSUME TypeOK, Load
    PROVE  /\ model' \in [text : Impl, vision : Impl, blocks : [Blocks -> Impl],
                         live : Modules \union {"foreign", "none"}]
           /\ imported' \in [qwen : SUBSET Modules, vit : SUBSET Modules]
           /\ imported.vit \subseteq imported'.vit /\ imported.qwen \subseteq imported'.qwen
           /\ model'.live \in imported'.qwen \union {"foreign"}
           /\ model'.text \in {config.text, "magi", "flash_attention_2"}
<1>1. PICK text \in {config.text, "magi", "flash_attention_2"},
           vision \in {config.vision, config.outer},
           blocks \in [Blocks -> {config.vision, config.outer}], copies \in SUBSET Modules :
         \E live \in copies \union {"foreign"} :
            /\ model' = [text |-> text, vision |-> vision, blocks |-> blocks, live |-> live]
            /\ imported' = [qwen |-> imported.qwen \union copies,
                             vit |-> imported.vit \union copies]
  BY DEF Load
<1>2. PICK live \in copies \union {"foreign"} :
         /\ model' = [text |-> text, vision |-> vision, blocks |-> blocks, live |-> live]
         /\ imported' = [qwen |-> imported.qwen \union copies,
                          vit |-> imported.vit \union copies]
  BY <1>1
<1>3. config.text \in Impl /\ config.vision \in Impl /\ config.outer \in Impl
  BY DEF TypeOK
<1>4. imported.qwen \subseteq Modules /\ imported.vit \subseteq Modules
  BY DEF TypeOK
<1>5. text \in Impl /\ vision \in Impl /\ live \in Modules \union {"foreign", "none"}
  BY <1>2, <1>3 DEF Impl
<1>6. blocks \in [Blocks -> Impl]
  BY <1>1, <1>3
<1>7. model'.live = live /\ model'.text = text
      /\ imported'.qwen = imported.qwen \union copies /\ imported'.vit = imported.vit \union copies
  BY <1>2
<1>8. model' \in [text : Impl, vision : Impl, blocks : [Blocks -> Impl],
                 live : Modules \union {"foreign", "none"}]
  BY <1>2, <1>5, <1>6
<1>9. imported' \in [qwen : SUBSET Modules, vit : SUBSET Modules]
  BY <1>2, <1>4
<1> QED
  BY <1>1, <1>2, <1>7, <1>8, <1>9

LEMMA ForceTypes ==
    ASSUME TypeOK, ForceFa2
    PROVE  /\ config' \in [outer : Impl, text : Impl, vision : Impl, marker : BOOLEAN]
           /\ imported' \in [qwen : SUBSET Modules, vit : SUBSET Modules]
           /\ imported.vit \subseteq imported'.vit /\ imported'.qwen = imported.qwen
           /\ imported'.vit # {} /\ config'.text = config.text
           /\ phase' = "load" => config'.marker
<1>1. PICK copy \in Modules : imported' = [imported EXCEPT !.vit = @ \union {copy}]
  BY DEF ForceFa2
<1>2. imported \in [qwen : SUBSET Modules, vit : SUBSET Modules]
      /\ config \in [outer : Impl, text : Impl, vision : Impl, marker : BOOLEAN]
  BY DEF TypeOK
<1>3. imported'.vit = imported.vit \union {copy} /\ imported'.qwen = imported.qwen
      /\ imported' \in [qwen : SUBSET Modules, vit : SUBSET Modules]
  BY <1>1, <1>2
<1>4. \/ UNCHANGED config /\ phase' = "refused"
      \/ config' = [config EXCEPT !.vision = "flash_attention_2", !.marker = TRUE]
  BY DEF ForceFa2, Refuse
<1>5. "flash_attention_2" \in Impl
  BY DEF Impl
<1>6. config' \in [outer : Impl, text : Impl, vision : Impl, marker : BOOLEAN]
      /\ config'.text = config.text
  BY <1>2, <1>4, <1>5
<1>7. phase' = "load" => config'.marker
  BY <1>2, <1>4
<1> QED
  BY <1>3, <1>6, <1>7

LEMMA StepTypes == ASSUME TypeOK, WrappedOnce, BootCount, [Next]_vars PROVE TypeOK'
<1> USE DEF TypeOK, Phase, Unwatched
<1>1. CASE FilesChange \/ ReadFails \/ ValidateEnv \/ ValidateGpu \/ ValidateModelDir
             \/ ValidatePreprocessor \/ ValidateTemplates \/ Verify
  BY <1>1 DEF FilesChange, ReadFails, ValidateEnv, ValidateGpu, ValidateModelDir,
     ValidatePreprocessor,
     ValidateTemplates, Verify, CheckThen, Refuse, engine, patched
<1>2. CASE Recheck
  BY <1>2, Constants DEF Recheck, CheckThen, Refuse, patched, BootCount
<1>3. CASE MutateConfig
  <2>1. world.vision \in Impl
    BY DEF Possible, Impl
  <2>2. config' \in [outer : Impl, text : Impl, vision : Impl, marker : BOOLEAN]
    BY <1>3, <2>1 DEF MutateConfig, Impl
  <2> QED
    BY <1>3, <2>2 DEF MutateConfig, CheckThen, Refuse, patched
<1>4. CASE ForceFa2
  BY <1>4, ForceTypes DEF ForceFa2, Refuse
<1>5. CASE Load
  BY <1>5, LoadTypes DEF Load
<1>6. CASE PatchLlm
  BY <1>6, Wrapping, PatchLlmWraps DEF PatchLlm, CheckThen, Refuse, engine
<1>7. CASE PatchVit
  BY <1>7 DEF PatchVit, Refuse, engine
<1>8. CASE Reboot
  <2>1. NoConfig \in [outer : Impl, text : Impl, vision : Impl, marker : BOOLEAN]
    BY DEF NoConfig, Impl
  <2>2. NoModel \in [text : Impl, vision : Impl, blocks : [Blocks -> Impl],
                   live : Modules \union {"foreign", "none"}]
    BY DEF NoModel, Impl
  <2> QED
    BY <1>8, <2>1, <2>2 DEF Reboot, patched
<1>9. CASE UNCHANGED vars
  BY <1>9 DEF vars, engine, patched
<1> QED
  BY <1>1, <1>2, <1>3, <1>4, <1>5, <1>6, <1>7, <1>8, <1>9 DEF Next

-----------------------------------------------------------------------------
(* The phases after each check, one set per action.                        *)
LEMMA StepChecks ==
    ASSUME TypeOK, ChecksPassed, Configured, VitKnown, [Next]_vars
    PROVE  ChecksPassed'
<1> USE DEF ChecksPassed, Unwatched, FromRecheck, FromConfig, FromFa2, FromLoad, FromVerify, FromLlm
<1>1. CASE FilesChange \/ ReadFails \/ ValidateEnv \/ ValidateGpu \/ ValidateModelDir
             \/ ValidatePreprocessor \/ ValidateTemplates
  BY <1>1 DEF FilesChange, ReadFails, ValidateEnv, ValidateGpu, ValidateModelDir,
     ValidatePreprocessor,
     ValidateTemplates, CheckThen, Refuse
<1>2. CASE Recheck \/ MutateConfig
  BY <1>2 DEF Recheck, MutateConfig, CheckThen, Refuse
<1>3. CASE ForceFa2
  <2>1. CASE phase' = "refused"
    BY <1>3, <2>1 DEF ForceFa2
  <2>2. CASE phase' # "refused"
    <3>1. Fa2Obstacle = "none" /\ phase' = "load" /\ UNCHANGED <<world, files>>
          /\ phase = "force_fa2"
      BY <1>3, <2>2 DEF ForceFa2, Refuse
    <3>2. /\ world.flash \in {"pinned", "other", "no_varlen", "absent"}
          /\ world.dispatch \in {"expected", "keys", "remapped", "signature", "sdpa_signature"}
      BY DEF TypeOK, Possible
    <3>3. world.flash \notin {"absent", "other", "no_varlen"}
          /\ world.dispatch \notin {"keys", "remapped", "signature"}
          /\ world.vit_shape = "moonvit"
          /\ config.vision \in {"unset", "sdpa", "flash_attention_2"}
      BY <3>1 DEF Fa2Obstacle
    <3>4. config.vision = world.vision
      BY <3>1 DEF Configured
    <3> QED
      BY <3>1, <3>2, <3>3, <3>4
  <2> QED
    BY <2>1, <2>2
<1>4. CASE Load \/ Verify
  BY <1>4 DEF Load, Verify, CheckThen, Refuse
<1>5. CASE PatchLlm \/ PatchVit
  BY <1>5 DEF PatchLlm, PatchVit, CheckThen, Refuse
<1>6. CASE Reboot
  BY <1>6 DEF Reboot
<1>7. CASE UNCHANGED vars
  BY <1>7 DEF vars
<1> QED
  BY <1>1, <1>2, <1>3, <1>4, <1>5, <1>6, <1>7 DEF Next

LEMMA StepConfigured == ASSUME TypeOK, Configured, [Next]_vars PROVE Configured'
<1> USE DEF Configured, FromConfig, FromFa2, FromLoad, FromVerify, FromLlm
<1>1. CASE FilesChange \/ ReadFails \/ ValidateEnv \/ ValidateGpu \/ ValidateModelDir
             \/ ValidatePreprocessor \/ ValidateTemplates \/ Recheck
  BY <1>1 DEF FilesChange, ReadFails, ValidateEnv, ValidateGpu, ValidateModelDir,
     ValidatePreprocessor,
     ValidateTemplates, Recheck, CheckThen, Refuse, engine
<1>2. CASE MutateConfig
  BY <1>2 DEF MutateConfig, CheckThen, Refuse
<1>3. CASE ForceFa2
  <2>1. phase' \in {"load", "refused"} /\ phase = "force_fa2"
    BY <1>3 DEF ForceFa2, Refuse
  <2> QED
    BY <1>3, <2>1, ForceTypes
<1>4. CASE Load \/ Verify \/ PatchLlm \/ PatchVit
  BY <1>4 DEF Load, Verify, PatchLlm, PatchVit, CheckThen, Refuse, engine
<1>5. CASE Reboot
  BY <1>5 DEF Reboot
<1>6. CASE UNCHANGED vars
  BY <1>6 DEF vars, engine
<1> QED
  BY <1>1, <1>2, <1>3, <1>4, <1>5, <1>6 DEF Next

LEMMA StepModel == ASSUME TypeOK, Configured, ModelKnown, [Next]_vars PROVE ModelKnown'
<1> USE DEF ModelKnown, FromLoad, FromVerify, FromLlm
<1>1. CASE FilesChange \/ ReadFails \/ ValidateEnv \/ ValidateGpu \/ ValidateModelDir
             \/ ValidatePreprocessor \/ ValidateTemplates \/ Recheck \/ MutateConfig
  BY <1>1 DEF FilesChange, ReadFails, ValidateEnv, ValidateGpu, ValidateModelDir,
     ValidatePreprocessor,
     ValidateTemplates, Recheck, MutateConfig, CheckThen, Refuse, Unwatched, engine, patched
<1>2. CASE ForceFa2
  BY <1>2 DEF ForceFa2, Refuse
<1>3. CASE Load
  <2>1. config.text = "sdpa" /\ phase' = "verify"
    BY <1>3 DEF Load, Configured, FromConfig, FromFa2
  <2> QED
    BY <1>3, <2>1, LoadTypes
<1>4. CASE Verify
  BY <1>4 DEF Verify, CheckThen, Refuse, engine, patched
<1>5. CASE PatchLlm \/ PatchVit
  BY <1>5 DEF PatchLlm, PatchVit, CheckThen, Refuse, engine
<1>6. CASE Reboot
  BY <1>6 DEF Reboot
<1>7. CASE UNCHANGED vars
  BY <1>7 DEF vars, engine, patched
<1> QED
  BY <1>1, <1>2, <1>3, <1>4, <1>5, <1>6, <1>7 DEF Next

LEMMA StepVit == ASSUME TypeOK, VitKnown, [Next]_vars PROVE VitKnown'
<1> USE DEF VitKnown, FromFa2, FromLoad, FromVerify, FromLlm
<1>1. CASE FilesChange \/ ReadFails \/ ValidateEnv \/ ValidateGpu \/ ValidateModelDir
             \/ ValidatePreprocessor \/ ValidateTemplates \/ Recheck \/ MutateConfig
  BY <1>1 DEF FilesChange, ReadFails, ValidateEnv, ValidateGpu, ValidateModelDir,
     ValidatePreprocessor,
     ValidateTemplates, Recheck, MutateConfig, CheckThen, Refuse, patched
<1>2. CASE ForceFa2
  <2>1. phase' \in {"load", "refused"} /\ UNCHANGED <<world, vitPatched>>
    BY <1>2 DEF ForceFa2, Refuse
  <2> QED
    BY <1>2, <2>1, ForceTypes
<1>3. CASE Load
  <2>1. phase' = "verify" /\ phase = "load" /\ UNCHANGED <<world, vitPatched>>
    BY <1>3 DEF Load
  <2> QED
    BY <1>3, <2>1, LoadTypes
<1>4. CASE Verify \/ PatchLlm
  BY <1>4 DEF Verify, PatchLlm, CheckThen, Refuse, patched
<1>5. CASE PatchVit
  <2>1. phase = "patch_vit" /\ UNCHANGED <<world, imported>>
    BY <1>5 DEF PatchVit
  <2>2. CASE imported.vit = {} \/ (world.dispatch = "sdpa_signature" /\ imported.vit \ vitPatched # {})
    BY <1>5, <2>1, <2>2 DEF PatchVit, Refuse
  <2>3. CASE ~(imported.vit = {} \/ (world.dispatch = "sdpa_signature" /\ imported.vit \ vitPatched # {}))
    <3>1. vitPatched' = vitPatched \union imported.vit /\ phase' = "ready"
      BY <1>5, <2>3 DEF PatchVit
    <3>2. world.dispatch # "sdpa_signature"
      BY <2>3
    <3> QED
      BY <2>1, <3>1, <3>2
  <2> QED
    BY <2>2, <2>3
<1>6. CASE Reboot
  BY <1>6 DEF Reboot, patched
<1>7. CASE UNCHANGED vars
  BY <1>7 DEF vars, patched
<1> QED
  BY <1>1, <1>2, <1>3, <1>4, <1>5, <1>6, <1>7 DEF Next

LEMMA StepBoots == ASSUME TypeOK, BootCount, [Next]_vars PROVE BootCount'
<1> USE Constants DEF BootCount, Early, TypeOK, FromRecheck, FromConfig, FromFa2, FromLoad,
                     FromVerify, FromLlm
<1>1. CASE FilesChange \/ ReadFails \/ ValidateEnv \/ ValidateGpu \/ ValidateModelDir
             \/ ValidatePreprocessor \/ ValidateTemplates \/ Recheck \/ MutateConfig
  BY <1>1 DEF FilesChange, ReadFails, ValidateEnv, ValidateGpu, ValidateModelDir,
     ValidatePreprocessor,
     ValidateTemplates, Recheck, MutateConfig, CheckThen, Refuse, engine
<1>2. CASE ForceFa2 \/ Load \/ Verify \/ PatchLlm \/ PatchVit
  BY <1>2 DEF ForceFa2, Load, Verify, PatchLlm, PatchVit, CheckThen, Refuse, engine
<1>3. CASE Reboot
  BY <1>3 DEF Reboot
<1>4. CASE UNCHANGED vars
  BY <1>4 DEF vars, engine
<1> QED
  BY <1>1, <1>2, <1>3, <1>4 DEF Next

(* A step that is not the patch itself leaves every copy as it is. *)
LEMMA WrapsKept == ASSUME [Next]_vars, ~PatchLlm PROVE UNCHANGED wraps
  BY DEF Next, FilesChange, ReadFails, ValidateEnv, ValidateGpu, ValidateModelDir,
     ValidatePreprocessor, ValidateTemplates, Recheck, MutateConfig, ForceFa2, Load, Verify,
     PatchVit, Reboot, vars, patched

LEMMA StepOnce == ASSUME TypeOK, WrappedOnce, [Next]_vars PROVE WrappedOnce'
<1>1. CASE PatchLlm
  BY <1>1, Wrapping, PatchLlmWraps
<1>2. CASE ~PatchLlm
  BY <1>2, WrapsKept DEF WrappedOnce
<1> QED
  BY <1>1, <1>2

(* The patch takes every untouched copy or, beside a stranger, none. *)
LEMMA PatchedCopies ==
    ASSUME TypeOK, LlmKnown, BootCount, PatchLlm
    PROVE  /\ TaggedLlm' \intersect world.drifted = {}
           /\ phase' = "patch_vit" => /\ imported.qwen \subseteq TaggedLlm'
                                      /\ model.live \in imported.qwen
           /\ refusal' = "llm_shape" => TaggedLlm' = TaggedLlm
           /\ phase' \in {"patch_vit", "refused"} /\ UNCHANGED <<world, imported, model, boots>>
<1>1. /\ wraps \in [Modules -> 0..MaxBoots] /\ imported.qwen \subseteq Modules
      /\ TaggedLlm \intersect world.drifted = {}
  BY DEF TypeOK, LlmKnown
<1>2. UNCHANGED <<world, imported, model, boots>> /\ phase = "patch_llm"
  BY DEF PatchLlm, engine
<1>3. CASE imported.qwen = {} \/ Strangers # {}
  <2>1. phase' = "refused" /\ UNCHANGED wraps
    BY <1>3 DEF PatchLlm, Refuse
  <2> QED
    BY <1>1, <1>2, <2>1 DEF TaggedLlm
<1>4. CASE ~(imported.qwen = {} \/ Strangers # {})
  <2>1. /\ wraps' = WrapAll(imported.qwen \ TaggedLlm)
        /\ CheckThen(model.live \in imported.qwen, "llm_inert", "patch_vit")
    BY <1>4 DEF PatchLlm
  <2>2. ASSUME NEW m \in Modules
        PROVE  wraps'[m] = IF m \in imported.qwen \ TaggedLlm THEN wraps[m] + 1 ELSE wraps[m]
    BY <2>1 DEF WrapAll
  <2>3. ASSUME NEW m \in Modules PROVE wraps[m] \in Nat
    BY <1>1, Constants
  <2>4. TaggedLlm' = TaggedLlm \union imported.qwen
    BY <1>1, <2>2, <2>3 DEF TaggedLlm
  <2>5. (imported.qwen \ TaggedLlm) \intersect world.drifted = {}
    BY <1>4 DEF Strangers
  <2>6. TaggedLlm' \intersect world.drifted = {} /\ imported.qwen \subseteq TaggedLlm'
    BY <1>1, <2>4, <2>5
  <2>7. /\ phase' \in {"patch_vit", "refused"} /\ refusal' \in {refusal, "llm_inert"}
        /\ phase' = "patch_vit" => model.live \in imported.qwen
        /\ refusal' = "llm_inert" \/ (UNCHANGED refusal /\ phase' = "patch_vit")
    BY <2>1 DEF CheckThen, Refuse
  <2>8. refusal' # "llm_shape"
    BY <1>2, <2>7 DEF BootCount
  <2> QED
    BY <1>2, <2>6, <2>7, <2>8
<1> QED
  BY <1>3, <1>4

LEMMA StepLlm ==
    ASSUME TypeOK, ModelKnown, LlmKnown, BootCount, [Next]_vars
    PROVE  LlmKnown'
<1> DEFINE First == boots = 1 /\ phase \in FromRecheck \ FromLlm
<1>1. CASE PatchLlm
  <2>1. phase = "patch_llm" /\ boots # 0 /\ (boots = 1 => TaggedLlm = {})
    BY <1>1 DEF PatchLlm, LlmKnown, BootCount, FromRecheck, FromConfig, FromFa2, FromLoad,
       FromVerify, FromLlm
  <2>2. /\ TaggedLlm' \intersect world.drifted = {}
        /\ phase' = "patch_vit" => /\ imported.qwen \subseteq TaggedLlm'
                                   /\ model.live \in imported.qwen
        /\ refusal' = "llm_shape" => TaggedLlm' = TaggedLlm
        /\ phase' \in {"patch_vit", "refused"} /\ UNCHANGED <<world, imported, model, boots>>
    BY <1>1, PatchedCopies
  <2>3. phase' \notin FromRecheck \ FromLlm /\ (phase' \in FromLlm => phase' = "patch_vit")
    BY <2>2 DEF FromRecheck, FromConfig, FromFa2, FromLoad, FromVerify, FromLlm
  <2> QED
    BY <2>1, <2>2, <2>3 DEF LlmKnown
<1>2. CASE ~PatchLlm
  <2>1. TaggedLlm' = TaggedLlm
    BY <1>2, WrapsKept DEF TaggedLlm
  <2>2. refusal' = "llm_shape" => UNCHANGED <<refusal, boots>>
    <3>1. CASE FilesChange \/ ReadFails \/ ValidateEnv \/ ValidateGpu \/ ValidateModelDir
                 \/ ValidatePreprocessor \/ ValidateTemplates \/ MutateConfig
      BY <3>1 DEF FilesChange, ReadFails, ValidateEnv, ValidateGpu, ValidateModelDir,
         ValidatePreprocessor, ValidateTemplates, MutateConfig, CheckThen, Refuse, engine
    <3>2. CASE Recheck
      BY <3>2 DEF Recheck, CheckThen, Refuse, BootCount
    <3>3. CASE ForceFa2
      BY <3>3 DEF ForceFa2, Refuse, Fa2Obstacle
    <3>4. CASE Load \/ Verify \/ PatchVit \/ Reboot \/ UNCHANGED vars
      BY <3>4 DEF Load, Verify, PatchVit, Reboot, CheckThen, Refuse, engine, vars
    <3> QED
      BY <1>2, <3>1, <3>2, <3>3, <3>4 DEF Next
  <2>3. First' => TaggedLlm = {}
    <3> USE DEF LlmKnown, FromRecheck, FromConfig, FromFa2, FromLoad, FromVerify, FromLlm
    <3>1. CASE FilesChange \/ ReadFails \/ ValidateEnv \/ ValidateGpu \/ ValidateModelDir
                 \/ ValidatePreprocessor \/ ValidateTemplates \/ MutateConfig
      BY <3>1 DEF FilesChange, ReadFails, ValidateEnv, ValidateGpu, ValidateModelDir,
         ValidatePreprocessor, ValidateTemplates, MutateConfig, CheckThen, Refuse, engine
    <3>2. CASE Recheck
      <4>1. boots' = 1 => boots = 0
        BY <3>2 DEF Recheck, TypeOK
      <4> QED
        BY <4>1
    <3>3. CASE ForceFa2 \/ Load \/ Verify \/ PatchVit \/ Reboot \/ UNCHANGED vars
      BY <3>3 DEF ForceFa2, Load, Verify, PatchVit, Reboot, CheckThen, Refuse, engine, vars
    <3> QED
      BY <1>2, <3>1, <3>2, <3>3 DEF Next
  <2>4. boots' = 0 => boots = 0
    <3>1. CASE Recheck
      BY <3>1 DEF Recheck, TypeOK
    <3>2. CASE ~Recheck
      BY <3>2 DEF Next, FilesChange, ReadFails, ValidateEnv, ValidateGpu, ValidateModelDir,
         ValidatePreprocessor, ValidateTemplates, MutateConfig, ForceFa2, Load, Verify,
         PatchLlm, PatchVit, Reboot, engine, vars
    <3> QED
      BY <3>1, <3>2
  <2>5. phase' \in FromLlm =>
           phase \in FromLlm /\ imported'.qwen = imported.qwen /\ UNCHANGED model
    <3> USE DEF FromLlm
    <3>1. CASE FilesChange \/ ReadFails \/ ValidateEnv \/ ValidateGpu \/ ValidateModelDir
                 \/ ValidatePreprocessor \/ ValidateTemplates \/ Recheck \/ MutateConfig
      BY <3>1 DEF FilesChange, ReadFails, ValidateEnv, ValidateGpu, ValidateModelDir, Recheck,
         ValidatePreprocessor, ValidateTemplates, MutateConfig, CheckThen, Refuse, Unwatched,
         engine, patched
    <3>2. CASE ForceFa2 \/ Load \/ Verify \/ PatchVit \/ Reboot \/ UNCHANGED vars
      BY <3>2 DEF ForceFa2, Load, Verify, PatchVit, Reboot, CheckThen, Refuse, engine, vars,
         patched
    <3> QED
      BY <1>2, <3>1, <3>2 DEF Next
  <2>6. UNCHANGED world
    BY DEF Next, FilesChange, ReadFails, ValidateEnv, ValidateGpu, ValidateModelDir, Recheck,
       ValidatePreprocessor, ValidateTemplates, MutateConfig, ForceFa2, Load, Verify,
       PatchLlm, PatchVit, Reboot, vars
  <2> QED
    BY <2>1, <2>2, <2>3, <2>4, <2>5, <2>6 DEF LlmKnown
<1> QED
  BY <1>1, <1>2

-----------------------------------------------------------------------------
(* The reasons, from what the phases know.                                 *)

Cause ==
    \/ Faults(world) \ {"vision"} # {} \/ world.vision = "magi" \/ files # "pinned"
    \/ /\ model # NoModel
       /\ \/ model.text # "sdpa" \/ model.vision # "flash_attention_2"
          \/ \E b \in Blocks : model.blocks[b] # "flash_attention_2"
          \/ model.live = "foreign"

LEMMA Fields ==
    DOMAIN Expected = {"env", "gpu", "templates", "flash", "dispatch", "vit_shape",
                       "text_config", "vision", "drifted"}
  BY DEF Expected

LEMMA FaultFound ==
    ASSUME \/ world.env # "trained" \/ world.gpu # "blackwell" \/ world.templates # "agree"
           \/ world.flash # "pinned" \/ world.dispatch # "expected"
           \/ world.vit_shape # "moonvit" \/ world.text_config # "present"
           \/ world.drifted # {}
    PROVE  Faults(world) \ {"vision"} # {}
  BY Fields DEF Faults, Expected

LEMMA NoFaultFound ==
    ASSUME /\ world.env = "trained" /\ world.gpu = "blackwell" /\ world.templates = "agree"
           /\ world.flash = "pinned" /\ world.dispatch = "expected"
           /\ world.vit_shape = "moonvit" /\ world.text_config = "present"
    PROVE  Faults(world) \subseteq {"vision", "drifted"}
  BY Fields DEF Faults, Expected

(* A refused boot stays as it is: what caused it remains to be seen. *)
LEMMA RefusedStays ==
    ASSUME phase = "refused", [Next]_vars
    PROVE  UNCHANGED <<world, files, phase, model>>
  BY DEF Next, FilesChange, ReadFails, ValidateEnv, ValidateGpu, ValidateModelDir, Recheck,
     ValidatePreprocessor, ValidateTemplates, MutateConfig, ForceFa2, Load, Verify,
     PatchLlm, PatchVit, Reboot, vars, engine, Unwatched

LEMMA CheckRefuses ==
    ASSUME TypeOK,
           FilesChange \/ ReadFails \/ ValidateEnv \/ ValidateGpu \/ ValidateModelDir
             \/ ValidatePreprocessor \/ ValidateTemplates \/ Recheck \/ MutateConfig,
           phase' = "refused"
    PROVE  UNCHANGED <<world, model>> /\ Cause'
<1>1. /\ UNCHANGED <<world, model>>
      /\ \/ world.env # "trained" \/ world.gpu # "blackwell" \/ world.templates # "agree"
         \/ world.text_config # "present" \/ files' # "pinned"
  BY DEF FilesChange, ReadFails, ValidateEnv, ValidateGpu, ValidateModelDir, Recheck,
     ValidatePreprocessor, ValidateTemplates, MutateConfig, CheckThen, Refuse, engine
<1>2. CASE files' # "pinned"
  BY <1>1, <1>2 DEF Cause
<1>3. CASE files' = "pinned"
  <2>1. Faults(world) \ {"vision"} # {}
    BY <1>1, <1>3, FaultFound
  <2> QED
    BY <1>1, <2>1 DEF Cause, Faults
<1> QED
  BY <1>1, <1>2, <1>3

LEMMA ForceRefuses ==
    ASSUME TypeOK, Configured, ForceFa2, phase' = "refused"
    PROVE  UNCHANGED <<world, files, model>> /\ Cause
<1>1. UNCHANGED <<world, files, model>> /\ phase = "force_fa2" /\ Fa2Obstacle # "none"
  BY DEF ForceFa2
<1>2. \/ world.flash # "pinned" \/ world.dispatch # "expected" \/ world.vit_shape # "moonvit"
      \/ config.vision \notin {"unset", "sdpa", "flash_attention_2"}
  BY <1>1 DEF Fa2Obstacle
<1>3. config.vision = world.vision
  BY <1>1 DEF Configured
<1>4. world.vision \in {"unset", "sdpa", "flash_attention_2", "magi"}
  BY DEF TypeOK, Possible
<1>5. CASE world.vision = "magi"
  BY <1>1, <1>5 DEF Cause
<1>6. CASE world.vision # "magi"
  <2>1. Faults(world) \ {"vision"} # {}
    BY <1>2, <1>3, <1>4, <1>6, FaultFound
  <2> QED
    BY <1>1, <2>1 DEF Cause
<1> QED
  BY <1>1, <1>5, <1>6

LEMMA VerifyRefuses ==
    ASSUME TypeOK, Configured, ModelKnown, Verify, phase' = "refused"
    PROVE  UNCHANGED <<world, files, model>> /\ Cause
<1>1. UNCHANGED <<world, files, model>> /\ phase = "verify"
  BY DEF Verify, engine
<1>2. \/ model.text # "sdpa" \/ model.vision # "flash_attention_2" \/ ~config.marker
      \/ \E b \in Blocks : model.blocks[b] # "flash_attention_2"
  BY DEF Verify, CheckThen
<1>3. config.marker /\ model.text # "unset"
  BY <1>1 DEF Configured, ModelKnown, FromFa2, FromLoad
<1>4. model # NoModel
  BY <1>3 DEF NoModel
<1> QED
  BY <1>1, <1>2, <1>3, <1>4 DEF Cause

LEMMA PatchRefuses ==
    ASSUME TypeOK, ModelKnown, VitKnown, PatchLlm \/ PatchVit, phase' = "refused"
    PROVE  UNCHANGED <<world, files, model>> /\ Cause
<1>1. CASE PatchLlm
  <2>1. UNCHANGED <<world, files, model>> /\ phase = "patch_llm"
    BY <1>1 DEF PatchLlm, engine
  <2>2. model.live \in imported.qwen \union {"foreign"} /\ model.text # "unset"
    BY <2>1 DEF ModelKnown, FromLoad, FromVerify
  <2>3. Strangers # {} \/ model.live \notin imported.qwen
    BY <1>1 DEF PatchLlm, CheckThen
  <2>4. CASE Strangers # {}
    <3>1. Faults(world) \ {"vision"} # {}
      BY <2>4, FaultFound DEF Strangers
    <3> QED
      BY <2>1, <3>1 DEF Cause
  <2>5. CASE model.live \notin imported.qwen
    BY <2>1, <2>2, <2>5 DEF Cause, NoModel
  <2> QED
    BY <2>3, <2>4, <2>5
<1>2. CASE PatchVit
  <2>1. UNCHANGED <<world, files, model>> /\ phase = "patch_vit"
    BY <1>2 DEF PatchVit, engine
  <2>2. imported.vit # {}
    BY <2>1 DEF VitKnown, FromFa2, FromLoad, FromVerify, FromLlm
  <2>3. world.dispatch = "sdpa_signature"
    BY <1>2, <2>2 DEF PatchVit
  <2>4. Faults(world) \ {"vision"} # {}
    BY <2>3, FaultFound
  <2> QED
    BY <2>1, <2>4 DEF Cause
<1> QED
  BY <1>1, <1>2

LEMMA StepRefusal ==
    ASSUME TypeOK, Configured, ModelKnown, VitKnown, RefusesOnlyWithCause, [Next]_vars
    PROVE  RefusesOnlyWithCause'
<1> SUFFICES ASSUME phase' = "refused" PROVE Cause'
  BY DEF RefusesOnlyWithCause, Cause
<1>1. UNCHANGED <<world, files, model>> /\ Cause => Cause'
  BY DEF Cause, Faults
<1>2. CASE phase = "refused"
  BY <1>1, <1>2, RefusedStays DEF RefusesOnlyWithCause, Cause
<1>3. CASE FilesChange \/ ReadFails \/ ValidateEnv \/ ValidateGpu \/ ValidateModelDir
             \/ ValidatePreprocessor \/ ValidateTemplates \/ Recheck \/ MutateConfig
  BY <1>3, CheckRefuses
<1>4. CASE ForceFa2 \/ Verify \/ PatchLlm \/ PatchVit
  BY <1>1, <1>4, ForceRefuses, VerifyRefuses, PatchRefuses
<1>5. CASE Load \/ Reboot
  BY <1>5 DEF Load, Reboot
<1>6. CASE UNCHANGED vars
  BY <1>2, <1>6 DEF vars
<1> QED
  BY <1>2, <1>3, <1>4, <1>5, <1>6 DEF Next

-----------------------------------------------------------------------------
BootInv ==
    /\ TypeOK /\ ChecksPassed /\ Configured /\ ModelKnown /\ VitKnown /\ LlmKnown
    /\ BootCount /\ WrappedOnce /\ RefusesOnlyWithCause

(* The invariant of the boot: what is known at each phase, kept by every   *)
(* check, patch and second engine.                                         *)
THEOREM Invariance == Spec => []BootInv
<1>1. Init => BootInv
  BY InitFacts DEF BootInv
<1>2. BootInv /\ [Next]_vars => BootInv'
  BY StepTypes, StepChecks, StepConfigured, StepModel, StepVit, StepLlm, StepBoots, StepOnce,
     StepRefusal DEF BootInv
<1> QED
  BY <1>1, <1>2, PTL DEF Spec

(* Type correctness: at most MaxBoots engines, and patches only on copies  *)
(* that are in memory.                                                     *)
THEOREM TypeCorrect == Spec => []TypeOK
<1>1. BootInv => TypeOK
  BY DEF BootInv
<1> QED
  BY <1>1, Invariance, PTL

(* "Either reaches a known-good state or crashes loudly"                   *)
(* (validate_startup.py): what an engine that serves runs on.              *)
THEOREM KnownGood == Spec => []ServesAsTrained
<1>1. BootInv => ServesAsTrained
  <2> SUFFICES ASSUME BootInv, phase = "ready" PROVE ServesAsTrained
    BY DEF ServesAsTrained
  <2>1. /\ files \in {"pinned", "changed_after"} /\ world.vision # "magi" /\ world.dispatch = "expected"
        /\ world.env = "trained" /\ world.gpu = "blackwell" /\ world.templates = "agree"
        /\ world.flash = "pinned" /\ world.vit_shape = "moonvit" /\ world.text_config = "present"
    BY DEF BootInv, ChecksPassed, VitKnown, FromRecheck, FromConfig, FromFa2, FromLoad,
       FromVerify, FromLlm
  <2>2. /\ model.text = "sdpa" /\ \A b \in Blocks : model.blocks[b] = "flash_attention_2"
        /\ imported.vit \subseteq vitPatched
    BY DEF BootInv, ModelKnown, VitKnown, FromVerify, FromLlm
  <2>3. model.live \in Modules /\ wraps[model.live] > 0
    BY DEF BootInv, LlmKnown, TaggedLlm, FromLlm
  <2> QED
    BY <2>1, <2>2, <2>3, NoFaultFound DEF ServesAsTrained
<1> QED
  BY <1>1, Invariance, PTL

(* However often an engine is built in the process (inference.py, the tag  *)
(* on a patched class), its forward is wrapped once.                       *)
THEOREM OneWrapping == Spec => []WrappedOnce
<1>1. BootInv => WrappedOnce
  BY DEF BootInv
<1> QED
  BY <1>1, Invariance, PTL

(* Every copy is looked at before the first one is patched (inference.py,  *)
(* _patch_sdpa_to_mem_efficient): strange copies are never touched, and a   *)
(* first engine that finds one touches none.                               *)
THEOREM AllCopiesOrNone == Spec => []AllOrNothing
<1>1. BootInv => AllOrNothing
  BY DEF BootInv, LlmKnown, AllOrNothing
<1> QED
  BY <1>1, Invariance, PTL

(* No check refuses what it was written to accept: each refusal of         *)
(* validate_startup.py and inference.py has a fault behind it.             *)
THEOREM EveryRefusalHasACause == Spec => []RefusesOnlyWithCause
<1>1. BootInv => RefusesOnlyWithCause
  BY DEF BootInv
<1> QED
  BY <1>1, Invariance, PTL
=============================================================================
