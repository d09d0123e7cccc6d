--------------------------- MODULE MCDomainLoaderLive ---------------------------
(* The instance of MCDomainLoader with bounded calls and fewer bindings. *)
EXTENDS MCDomainLoader, DomainLoaderLive

LiveBindings == {<<a, DA>>, <<b, DB2>>, <<b, DB>>, <<c, DB>>}
LiveRequests == {Sym(a, A, NoSuff), Sym(b, B, f1)}
================================================================================
