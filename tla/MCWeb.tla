-------------------------------- MODULE MCWeb -------------------------------
(* WebFreshness on the hooks and screens of the whole web client. *)
EXTENDS WebFreshness, WebCatalog

(* Every pair listed as a gap is one. *)
ASSUME GapsAreReal ==
  KnownGaps \subseteq {<<p[1].name, p[2].name>> :
                        p \in {p \in WebMutations \X WebQueries :
                                 Overlap(p[1], p[2]) /\ ~Invalidates(p[1], p[2])}}
=============================================================================
