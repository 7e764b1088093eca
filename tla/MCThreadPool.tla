---------------------------- MODULE MCThreadPool ----------------------------
(* ThreadPool for TLC: sets of requests to choose from.                    *)
EXTENDS ThreadPool

(* One kind whose answer depends on the verdict of the accept loop, one    *)
(* that ends in Err, and both that keep the worker.  "page" is a "load"    *)
(* that is answered alike whatever the verdict.                            *)
AnyRequest == AllKinds \ {"page"}

(* For the run about the ready list alone.                                 *)
OnlyPages == {"page"}
=============================================================================
