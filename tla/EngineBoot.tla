----------------------------- MODULE EngineBoot -----------------------------
(***************************************************************************)
(* From the first preflight check to an engine that may serve: run_all of  *)
(* validate_startup.py, then LocateAnythingInference.__init__ with the     *)
(* override that puts the vision encoder on FlashAttention 2, the check    *)
(* after loading and the two patches of the attention kernels.             *)
(*                                                                         *)
(* What the boot finds is the record world, in which at most MaxFaults     *)
(* things differ from what the code was written for; the files may change  *)
(* as well, until the weights have been read.  What transformers does with *)
(* the configuration is not the code's to decide: Load takes any of the    *)
(* outcomes its comments name.  Patches outlive an engine: __init__ may run*)
(* again in the same process, on modules imported once more.               *)
(***************************************************************************)
EXTENDS Naturals, FiniteSets

CONSTANTS
    Modules,     \* copies of the model's code transformers may import
    Blocks,      \* blocks of the vision encoder
    MaxFaults,   \* bound: things wrong at once
    MaxBoots     \* bound: runs of __init__ in one process

ASSUME BootAssumption ==
    /\ IsFiniteSet(Modules) /\ IsFiniteSet(Blocks) /\ Blocks # {}
    /\ MaxFaults \in Nat /\ MaxBoots \in Nat \ {0}

VARIABLES
    world,       \* what the boot finds and cannot change
    files,       \* the model directory
    phase,       \* the next check or step
    refusal,     \* the check that ended the boot
    boots,       \* runs of __init__ begun
    config,      \* the attention implementations in the configuration
    model,       \* those of the loaded model
    imported,    \* the copies of modeling_qwen2 and modeling_vit in memory
    wraps,       \* times Qwen2SdpaAttention.forward of a copy is wrapped
    vitPatched   \* copies whose sdpa_attention is the replacement

vars == <<world, files, phase, refusal, boots, config, model, imported, wraps, vitPatched>>
patched == <<imported, wraps, vitPatched>>
engine == <<boots, config, model>>

Expected == [env |-> "trained", gpu |-> "blackwell", templates |-> "agree",
             flash |-> "pinned", dispatch |-> "expected", vit_shape |-> "moonvit",
             text_config |-> "present", vision |-> "unset", drifted |-> {}]

Possible == [env : {"trained", "other", "unset"}, gpu : {"blackwell", "older", "none"},
             templates : {"agree", "drift", "no_binary"},
             flash : {"pinned", "other", "no_varlen", "absent"},
             dispatch : {"expected", "keys", "remapped", "signature", "sdpa_signature"},
             vit_shape : {"moonvit", "other"}, text_config : {"present", "absent"},
             vision : {"unset", "sdpa", "flash_attention_2", "magi"},
             drifted : SUBSET Modules]

Faults(w) == {f \in DOMAIN Expected : w[f] # Expected[f]}

NoConfig == [outer |-> "unset", text |-> "unset", vision |-> "unset", marker |-> FALSE]
NoModel == [text |-> "unset", vision |-> "unset", blocks |-> [b \in Blocks |-> "unset"],
            live |-> "none"]

-----------------------------------------------------------------------------
(* fail of validate_startup.py and every raise of __init__: no way back.   *)
Refuse(why) ==
    /\ phase' = "refused"
    /\ refusal' = why

CheckThen(good, why, next) ==
    IF good THEN phase' = next /\ UNCHANGED refusal ELSE Refuse(why)

(* Between the second hashing and the end of the load nothing compares the  *)
(* files again: tokenizer, processor, configuration, code and weights are  *)
(* read one after the other.                                               *)
Unwatched == {"config", "force_fa2", "load"}

(* A fetch, a restore or a decaying disk.  A change of hashed files is told *)
(* apart from the others; what they make of the model is not.              *)
FilesChange ==
    /\ \/ /\ phase \in {"env", "gpu", "dir", "preprocessor", "templates", "recheck"}
          /\ files' \in {"pinned", "drifted", "missing", "unpinned_py"}
       \/ phase \in Unwatched /\ files' = "changed_after"
    /\ UNCHANGED <<world, phase, refusal, engine, patched>>

(* What has changed after the hashing may also not be readable any more. *)
ReadFails ==
    /\ phase \in Unwatched /\ files = "changed_after"
    /\ Refuse("read")
    /\ UNCHANGED <<world, files, engine, patched>>

(* validate_env: set, and equal to the trained value. *)
ValidateEnv ==
    /\ phase = "env"
    /\ CheckThen(world.env = "trained", "env", "gpu")
    /\ UNCHANGED <<world, files, engine, patched>>

ValidateGpu ==
    /\ phase = "gpu"
    /\ CheckThen(world.gpu = "blackwell", "gpu", "dir")
    /\ UNCHANGED <<world, files, engine, patched>>

(* validate_model_dir: present, nothing unpinned beside it, every hash. *)
ValidateModelDir ==
    /\ phase = "dir"
    /\ CheckThen(files = "pinned", "dir", "preprocessor")
    /\ UNCHANGED <<world, files, engine, patched>>

(* preprocessor_config.json is read again, by itself. *)
ValidatePreprocessor ==
    /\ phase = "preprocessor"
    /\ \/ phase' = "templates" /\ UNCHANGED refusal
       \/ files \in {"drifted", "missing"} /\ Refuse("preprocessor")
    /\ UNCHANGED <<world, files, engine, patched>>

ValidateTemplates ==
    /\ phase = "templates"
    /\ CheckThen(world.templates = "agree", "templates", "recheck")
    /\ UNCHANGED <<world, files, engine, patched>>

(* __init__ begins: the parameters and the GPU once more, both unchanged,  *)
(* and the hashes of the files.                                            *)
Recheck ==
    /\ phase = "recheck"
    /\ boots' = boots + 1
    /\ CheckThen(files = "pinned", "recheck", "config")
    /\ UNCHANGED <<world, files, config, model, patched>>

(* AutoConfig, and the LLM's implementation at both of its places. *)
MutateConfig ==
    /\ phase = "config"
    /\ config' = [outer |-> "sdpa", text |-> "sdpa", vision |-> world.vision, marker |-> FALSE]
    /\ CheckThen(world.text_config = "present", "text_config", "force_fa2")
    /\ UNCHANGED <<world, files, boots, model, patched>>

-----------------------------------------------------------------------------
(* _force_vit_flash_attn_2, pre-checks (a) to (f) in their order. *)
Fa2Obstacle ==
    IF world.flash \in {"absent", "other"} THEN "fa2_version"
    ELSE IF world.flash = "no_varlen" THEN "fa2_varlen"
    ELSE IF world.dispatch \in {"keys", "remapped"} THEN "fa2_dispatch"
    ELSE IF world.dispatch = "signature" THEN "fa2_signature"
    ELSE IF world.vit_shape # "moonvit" THEN "fa2_shape"
    ELSE IF config.vision \notin {"unset", "sdpa", "flash_attention_2"} THEN "fa2_taken"
    ELSE "none"

ForceFa2OnlyWhenUnset ==
    /\ phase = "force_fa2"
    /\ \E copy \in Modules : imported' = [imported EXCEPT !.vit = @ \union {copy}]
    /\ IF Fa2Obstacle # "none" THEN Refuse(Fa2Obstacle) /\ UNCHANGED config
       ELSE /\ config' = IF config.vision = "unset"
                         THEN [config EXCEPT !.vision = "flash_attention_2", !.marker = TRUE]
                         ELSE config
            /\ phase' = "load" /\ UNCHANGED refusal
    /\ UNCHANGED <<world, files, boots, model, wraps, vitPatched>>

(* The module of the encoder is imported for the checks; then the override *)
(* and its marker, also when there is nothing left to override.            *)
ForceFa2 ==
    /\ phase = "force_fa2"
    /\ \E copy \in Modules : imported' = [imported EXCEPT !.vit = @ \union {copy}]
    /\ IF Fa2Obstacle # "none" THEN Refuse(Fa2Obstacle) /\ UNCHANGED config
       ELSE /\ config' = [config EXCEPT !.vision = "flash_attention_2", !.marker = TRUE]
            /\ phase' = "load" /\ UNCHANGED refusal
    /\ UNCHANGED <<world, files, boots, model, wraps, vitPatched>>

(* AutoModel.from_pretrained: the override is kept, or put back to the     *)
(* trained default, or cascaded from the outer configuration, for each     *)
(* block by itself.  The live layers are of the imported copy, or of a     *)
(* class that is not Qwen2SdpaAttention.                                   *)
Load ==
    /\ phase = "load"
    /\ \E text \in {config.text, "magi", "flash_attention_2"},
          vision \in {config.vision, config.outer},
          blocks \in [Blocks -> {config.vision, config.outer}],
          copies \in SUBSET Modules :
       \E live \in copies \union {"foreign"} :
          /\ model' = [text |-> text, vision |-> vision, blocks |-> blocks, live |-> live]
          /\ imported' = [qwen |-> imported.qwen \union copies,
                           vit |-> imported.vit \union copies]
    /\ phase' = "verify"
    /\ UNCHANGED <<world, files, refusal, boots, config, wraps, vitPatched>>

VerifyFirstBlock ==
    /\ phase = "verify"
    /\ CheckThen(/\ model.text = "sdpa"
                 /\ model.vision = "flash_attention_2" /\ config.marker
                 /\ \E b \in Blocks : model.blocks[b] = "flash_attention_2",
                 "verify", "patch_llm")
    /\ UNCHANGED <<world, files, engine, patched>>

(* The checks after loading: the LLM, the encoder and each of its blocks. *)
Verify ==
    /\ phase = "verify"
    /\ CheckThen(/\ model.text = "sdpa"
                 /\ model.vision = "flash_attention_2" /\ config.marker
                 /\ \A b \in Blocks : model.blocks[b] = "flash_attention_2",
                 "verify", "patch_llm")
    /\ UNCHANGED <<world, files, engine, patched>>

-----------------------------------------------------------------------------
(* The two patches: every untouched copy is checked before any is patched. *)

TaggedLlm == {m \in Modules : wraps[m] > 0}

(* Untouched copies whose class is not the one the patch was written for. *)
Strangers == (imported.qwen \ TaggedLlm) \intersect world.drifted

WrapAll(copies) == [m \in Modules |-> IF m \in copies THEN wraps[m] + 1 ELSE wraps[m]]

PatchLlmAlways ==
    /\ phase = "patch_llm"
    /\ IF imported.qwen = {} \/ imported.qwen \intersect world.drifted # {}
       THEN Refuse("llm_shape") /\ UNCHANGED wraps
       ELSE /\ wraps' = WrapAll(imported.qwen)
            /\ CheckThen(model.live \in imported.qwen, "llm_inert", "patch_vit")
    /\ UNCHANGED <<world, files, engine, imported, vitPatched>>

PatchLlmInOneLoop ==
    /\ phase = "patch_llm"
    /\ IF imported.qwen = {} \/ Strangers # {}
       THEN /\ Refuse("llm_shape")
            /\ \E before \in SUBSET ((imported.qwen \ TaggedLlm) \ Strangers) :
                   wraps' = WrapAll(before)
       ELSE /\ wraps' = WrapAll(imported.qwen \ TaggedLlm)
            /\ CheckThen(model.live \in imported.qwen, "llm_inert", "patch_vit")
    /\ UNCHANGED <<world, files, engine, imported, vitPatched>>

(* _patch_sdpa_to_mem_efficient; the live layer is looked at last. *)
PatchLlm ==
    /\ phase = "patch_llm"
    /\ IF imported.qwen = {} \/ Strangers # {}
       THEN Refuse("llm_shape") /\ UNCHANGED wraps
       ELSE /\ wraps' = WrapAll(imported.qwen \ TaggedLlm)
            /\ CheckThen(model.live \in imported.qwen, "llm_inert", "patch_vit")
    /\ UNCHANGED <<world, files, engine, imported, vitPatched>>

(* _patch_vit_sdpa_to_mem_efficient: the function and its dispatch entry.  *)
(* The override has checked the keys, not the signature of this function.  *)
PatchVit ==
    /\ phase = "patch_vit"
    /\ IF imported.vit = {} \/ (world.dispatch = "sdpa_signature" /\ imported.vit \ vitPatched # {})
       THEN Refuse("vit_shape") /\ UNCHANGED vitPatched
       ELSE /\ vitPatched' = vitPatched \union imported.vit
            /\ phase' = "ready" /\ UNCHANGED refusal
    /\ UNCHANGED <<world, files, engine, imported, wraps>>

(* Another engine in the same process: __init__ alone. *)
Reboot ==
    /\ phase = "ready"
    /\ boots < MaxBoots
    /\ phase' = "recheck"
    /\ config' = NoConfig /\ model' = NoModel
    /\ UNCHANGED <<world, files, refusal, boots, patched>>

-----------------------------------------------------------------------------
Init ==
    /\ world \in {w \in Possible : Cardinality(Faults(w)) <= MaxFaults}
    /\ files \in {"pinned", "drifted", "missing", "unpinned_py"}
    /\ phase = "env" /\ refusal = "none" /\ boots = 0
    /\ config = NoConfig /\ model = NoModel
    /\ imported = [qwen |-> {}, vit |-> {}]
    /\ wraps = [m \in Modules |-> 0]
    /\ vitPatched = {}

Next ==
    \/ FilesChange \/ ReadFails \/ ValidateEnv \/ ValidateGpu \/ ValidateModelDir
    \/ ValidatePreprocessor \/ ValidateTemplates \/ Recheck \/ MutateConfig
    \/ ForceFa2 \/ Load \/ Verify \/ PatchLlm \/ PatchVit \/ Reboot

Spec == Init /\ [][Next]_vars

-----------------------------------------------------------------------------
Impl == {"unset", "sdpa", "flash_attention_2", "magi"}

Phase == {"env", "gpu", "dir", "preprocessor", "templates", "recheck", "config", "force_fa2",
          "load", "verify", "patch_llm", "patch_vit", "ready", "refused"}

TypeOK ==
    /\ world \in Possible
    /\ files \in {"pinned", "drifted", "missing", "unpinned_py", "changed_after"}
    /\ phase \in Phase /\ boots \in 0..MaxBoots
    /\ config \in [outer : Impl, text : Impl, vision : Impl, marker : BOOLEAN]
    /\ model \in [text : Impl, vision : Impl, blocks : [Blocks -> Impl],
                  live : Modules \union {"foreign", "none"}]
    /\ imported \in [qwen : SUBSET Modules, vit : SUBSET Modules]
    /\ wraps \in [Modules -> 0..MaxBoots]
    /\ vitPatched \subseteq imported.vit

(* "The Python worker either reaches a known-good state ... or crashes      *)
(* loudly" (validate_startup.py): an engine that serves was hashed for      *)
(* itself as pinned, and what was wrong or changed before that is not in   *)
(* it; it has the trained parameters, every block of the encoder on        *)
(* FlashAttention 2 with its fallback patched, the LLM on sdpa and through *)
(* the wrapped class, whatever loading made of the overrides.  Only a      *)
(* change between its hashing and its load stays unseen.                   *)
ServesAsTrained ==
    phase = "ready" =>
        /\ files \in {"pinned", "changed_after"}
        /\ Faults(world) \subseteq {"vision", "drifted"} /\ world.vision # "magi"
        /\ \A b \in Blocks : model.blocks[b] = "flash_attention_2"
        /\ model.text = "sdpa" /\ model.live \in Modules /\ wraps[model.live] > 0
        /\ imported.vit \subseteq vitPatched

(* No copy of the LLM's attention is wrapped twice, however often an engine *)
(* is built in the process: the tag stands for the wrapping.               *)
WrappedOnce == \A m \in Modules : wraps[m] <= 1

(* One copy the patch was not written for, and no copy is touched.         *)
AllOrNothing ==
    /\ TaggedLlm \intersect world.drifted = {}
    /\ refusal = "llm_shape" /\ boots = 1 => TaggedLlm = {}

(* ... and a refusal has a cause: with everything as expected, also when    *)
(* the encoder is on FlashAttention 2 to begin with and also for a second  *)
(* engine, the boot ends in one only where loading has departed from the   *)
(* overrides.                                                              *)
RefusesOnlyWithCause ==
    phase = "refused" =>
        \/ Faults(world) \ {"vision"} # {} \/ world.vision = "magi" \/ files # "pinned"
        \/ /\ model # NoModel
           /\ \/ model.text # "sdpa" \/ model.vision # "flash_attention_2"
              \/ \E b \in Blocks : model.blocks[b] # "flash_attention_2"
              \/ model.live = "foreign"
=============================================================================
