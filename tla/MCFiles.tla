-------------------------------- MODULE MCFiles --------------------------------
(* Two readers of one file that is replaced once: two queries about it, one of which the    *)
(* file first is the whole answer to, one query streamed, and the file itself.              *)
EXTENDS FileProperties

CONSTANTS query, narrowed, streamed, file

MCWhole == [u \in Urls |-> CASE u = file     -> Versions
                             [] u = narrowed -> {0}
                             [] OTHER        -> {}]

Interchangeable == Permutations(Requests)
================================================================================
