------------------------------ MODULE MCLaunch ------------------------------
(* Model checking of Launch: an engine of its own by profile, and a profile that is not valid. *)
EXTENDS Launch, TLC

MCInitFile == [eng |-> << >>, top |-> [done |-> TRUE]]
Main == DefaultEngine.name

\* "second" is another container at another port; "wrong" was edited by hand, and its
\* image is not built
MCProfileNames == {"second", "wrong"}
MCProfiles == [second |-> [port |-> 18301, name |-> "second", gpuMem |-> 400],
               wrong |-> [mtp |-> 9, image |-> "not built"]]
MCNames == {Main, "second"}

\* none; a window that needs YaRN; an exposed engine, and no guard
MCFlagSets == {<< >>, [ctx |-> 500000], [bind |-> "0.0.0.0", port |-> 18302, yesIKnow |-> TRUE]}

MCEdits == {[eng |-> [mtp |-> 9], top |-> << >>],
            [eng |-> << >>, top |-> [profile |-> "second"]],
            [eng |-> << >>, top |-> [state |-> "/data/qfn"]]}
MCMove == {[eng |-> << >>, top |-> [cache |-> "/data/hf"]], [eng |-> << >>, top |-> [state |-> "/data/qfn"]]}

MCBuilt == {DefaultEngine.image}
MCSnapshots == {[cache |-> c, model |-> DefaultEngine.model, mode |-> "nvfp4"] :
                  c \in {Defaults.cache, "/data/hf"}}
Symmetry == Permutations(Jobs)
=============================================================================
