------------------------------ MODULE Settings ------------------------------
(***************************************************************************)
(* What an engine is launched with: the configuration file, the launch     *)
(* profiles and flags laid over it, the check of the result, and the       *)
(* docker argv made of it.  Data only; Launch has the commands.            *)
(*                                                                         *)
(* The fields that no check and no guard reads (prefix cache, top-k,       *)
(* prewarm, pinning, extra arguments) go from the file to the argv as they *)
(* are, and are left out.  gpu_mem is in thousandths, mtp_adaptive is the  *)
(* sequence of its ranges; a bind address is a string of a few.            *)
(***************************************************************************)
EXTENDS Integers, Sequences

\* the fields present in o are laid over e
Overlay(e, o) == [f \in DOMAIN e |-> IF f \in DOMAIN o THEN o[f] ELSE e[f]]

DefaultEngine ==
    [mode |-> "nvfp4", ctx |-> 262144, yarn |-> FALSE, mtp |-> 2, adaptive |-> << >>, seqs |-> 8,
     gpuMem |-> 850, kv |-> "auto", workers |-> 32, readAhead |-> 0, port |-> 18300,
     bind |-> "127.0.0.1", lockdown |-> TRUE, memCap |-> "", images |-> 4,
     image |-> "qwen38-flash-dgx", model |-> "nvfp4 checkpoint", name |-> "qwen38-flash"]

\* Before init has run there is no password and no key: done is meta.first_run_done.
Defaults ==
    [eng |-> DefaultEngine,
     serve |-> [port |-> 8799, bind |-> "0.0.0.0", auth |-> TRUE, requireKey |-> FALSE, keys |-> 0],
     cache |-> "~/.cache/huggingface", state |-> "~/.local/state/qfn", done |-> FALSE, profile |-> ""]

---------------------------------------------------------------------------
(* The file: the fields it has lines for, in [engine] and elsewhere *)

NoLines == [eng |-> << >>, top |-> << >>]

\* decodeTOML, over the defaults: a field without a line keeps its default, and a line
\* for a field that is not known is an error.
Known(text) == DOMAIN text.eng \subseteq DOMAIN DefaultEngine /\ DOMAIN text.top \subseteq DOMAIN Defaults
Decoded(text) == [Overlay(Defaults, text.top) EXCEPT !.eng = Overlay(DefaultEngine, text.eng)]

\* Render: a line for every field, whatever lines there were
Rendered(c) == [eng |-> c.eng, top |-> [f \in DOMAIN c \ {"eng"} |-> c[f]]]

\* lines added to those there are
Amended(text, more) ==
    [eng |-> [f \in DOMAIN text.eng \cup DOMAIN more.eng |->
                IF f \in DOMAIN more.eng THEN more.eng[f] ELSE text.eng[f]],
     top |-> [f \in DOMAIN text.top \cup DOMAIN more.top |->
                IF f \in DOMAIN more.top THEN more.top[f] ELSE text.top[f]]]

---------------------------------------------------------------------------
(* Validate *)

IsLoopback(b) == b \in {"127.0.0.1", "localhost", "::1", "[::1]"}
ValidBind(b) == b \in {"127.0.0.1", "0.0.0.0", "::1", "localhost"}
DockerSizes == {"100g", "512m", "1073741824"}
ValidMemCap(m) == m \in DockerSizes \cup {""}

\* draft tokens for a range of batch sizes; the ranges ascend without overlap
ValidAdaptive(ranges) ==
    \A i \in 1..Len(ranges) :
        /\ ranges[i].tokens \in 1..4
        /\ 1 <= ranges[i].lo /\ ranges[i].lo <= ranges[i].hi
        /\ i > 1 => ranges[i - 1].hi < ranges[i].lo

ValidEngine(e) ==
    /\ e.mode \in {"nvfp4", "hybrid"}
    /\ e.mtp \in 0..4
    /\ e.adaptive # << >> => e.mtp > 0 /\ ValidAdaptive(e.adaptive)
    /\ e.seqs \in 1..64
    /\ 4096 <= e.ctx /\ e.ctx <= 1048576
    /\ e.ctx > 262144 => e.yarn
    /\ 0 < e.gpuMem /\ e.gpuMem <= 875
    /\ e.kv \in {"auto", "fp8"}
    /\ e.workers \in 1..128 /\ e.readAhead >= 0
    /\ ValidBind(e.bind)
    /\ 1 <= e.port /\ e.port <= 65535
    /\ ValidMemCap(e.memCap)

ValidServe(s) ==
    /\ ValidBind(s.bind)
    /\ 1 <= s.port /\ s.port <= 65535
    /\ s.requireKey => s.keys > 0
    /\ s.auth \/ IsLoopback(s.bind)

Valid(c) == ValidEngine(c.eng) /\ ValidServe(c.serve) /\ c.serve.port # c.eng.port

---------------------------------------------------------------------------
(* Profiles and flags *)

\* FromEngine: every field but images, which a profile has not
FromEngine(e) == [f \in DOMAIN e \ {"images"} |-> e[f]]

\* The setters of `up` skip a flag whose value is the zero of its type, though it was
\* given; a switch is always taken.  Any bind but a loopback turns lockdown off.
WithFlags(e, flags) ==
    LET skipped == {f \in DOMAIN flags :
                      \/ f \in {"ctx", "mtp", "seqs", "port", "gpuMem"} /\ flags[f] = 0
                      \/ f = "mode" /\ flags[f] = ""}
        given == [f \in DOMAIN flags \ skipped |-> flags[f]]
    IN  IF "bind" \in DOMAIN flags
        THEN [Overlay(e, given) EXCEPT !.lockdown = @ /\ IsLoopback(flags.bind)]
        ELSE Overlay(e, given)

---------------------------------------------------------------------------
(* DockerArgs *)

\* The draft head: off with no speculative tokens, its own window with YaRN, and one
\* draft length per batch size with a policy.
SpeculativeConfig(e) ==
    [tokens |-> e.mtp, maxLen |-> IF e.mtp > 0 /\ e.yarn THEN e.ctx ELSE 0,
     policy |-> IF e.mtp > 0 THEN e.adaptive ELSE << >>]

\* "mount" is the host directory seen as /hf, "snapshot" the path the engine reads there.
Argv(e, key, mount, snapshot) ==
    [name |-> e.name, bind |-> e.bind, port |-> e.port, memory |-> e.memCap,
     mount |-> mount, snapshot |-> snapshot, image |-> e.image,
     hybrid |-> e.mode = "hybrid", allowLong |-> e.yarn, readAhead |-> IF e.readAhead > 0 THEN e.readAhead ELSE 0,
     workers |-> e.workers, maxLen |-> e.ctx, seqs |-> e.seqs, gpuMem |-> e.gpuMem, kv |-> e.kv,
     images |-> IF e.images > 0 THEN e.images ELSE 0, draft |-> SpeculativeConfig(e),
     key |-> IF e.lockdown THEN key ELSE 0]
=============================================================================
