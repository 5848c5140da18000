------------------------------- MODULE MCTaskGraph -------------------------------
(* Tokens that are embedded on the host and copied to the device, a layer  *)
(* with three kernels that do not depend on each other, one of them on a   *)
(* fourth that depends on nothing of this run, and an attention left to    *)
(* the CPU, which reads a copy of what each of the three computes.  There  *)
(* are more copies than workers: all workers can be in copies while the    *)
(* task of a kernel or another copy is ready.                              *)
EXTENDS TaskGraph

MCNodes  == {"embed", "upload", "rope", "q", "k", "v",
             "download_q", "download_k", "download_v", "attn"}
MCDevice == {"upload", "rope", "q", "k", "v"}
MCCopies == {"download_q", "download_k", "download_v"}
MCOut    == "attn"

MCInputs(n) == CASE n = "upload"     -> {"embed"}
                 [] n = "q"          -> {"upload", "rope"}
                 [] n \in {"k", "v"} -> {"upload"}
                 [] n = "download_q" -> {"q"}
                 [] n = "download_k" -> {"k"}
                 [] n = "download_v" -> {"v"}
                 [] n = "attn"       -> MCCopies
                 [] OTHER            -> {}
=============================================================================
