------------------------------ MODULE MlSession ------------------------------
(***************************************************************************)
(* MlSession (Src/ML_Engine/context.rs) as programs use it: a shell into   *)
(* which a range of layers is loaded, run, taken off the GPU and put back. *)
(* Every method returns the session after it and whether it succeeded.     *)
(* The offset the session counts itself is left out: the programs of this  *)
(* project always pass one.                                                *)
(***************************************************************************)
EXTENDS GgufModel

Ok(s)  == [ok |-> TRUE, sess |-> s]
Err(s) == [ok |-> FALSE, sess |-> s]

new == [model |-> None, offloaded_kv |-> None, layers |-> None]

\* The old model goes once the new one is there.  What was offloaded stays.
load_model(s, file, start, end) ==
    LET m == GGUF_Load_Model(file, start, end)
    IN  IF m = None THEN Err(s)
        ELSE Ok([s EXCEPT !.model = m, !.layers = <<start, end>>])

unload(s) == [s EXCEPT !.model = None]

\* Without a model there is nothing to clear, whatever was offloaded.
reset_kv_cache(s) ==
    IF s.model = None THEN s ELSE [s EXCEPT !.model = Clear_Kv_Cache(@)]

\* out is there if the call succeeded.
forward(s, x) ==
    LET f == GGUF_Model_Inference(s.model, x)
    IN  IF s.model = None \/ f = None THEN Err(s)
        ELSE [ok |-> TRUE, sess |-> [s EXCEPT !.model = f.model], out |-> f.out]

\* Wrong variant: the caches are not kept.
offload_without_kv(s) ==
    IF s.model = None \/ s.layers = None THEN Err(s)
    ELSE Ok([s EXCEPT !.model = None, !.offloaded_kv = Clear_Kv_Cache(s.model).kv])

\* The caches of a model that has run go to the CPU, and the model goes.
offload_to_cpu(s) ==
    LET kvs == extract_kv_cache(s.model)
    IN  IF s.model = None \/ s.layers = None \/ kvs = None THEN Err(s)
        ELSE Ok([s EXCEPT !.model = None, !.offloaded_kv = kvs])

\* The layers are loaded again and given their caches.  The caches are taken
\* out first: if loading fails they are gone.
offload_to_cuda(s, file) ==
    LET m == GGUF_Load_Model(file, s.layers[1], s.layers[2])
        r == IF m = None THEN None ELSE restore_kv_cache(m, s.offloaded_kv)
        t == [s EXCEPT !.offloaded_kv = None]
    IN  IF s.model # None \/ s.offloaded_kv = None THEN Err(s)
        ELSE IF r = None THEN Err(t)
        ELSE Ok([t EXCEPT !.model = r])
=============================================================================
