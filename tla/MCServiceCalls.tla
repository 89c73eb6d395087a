--------------------------- MODULE MCServiceCalls ---------------------------
(* Two searches of up to two hits each, with three keys, one listed twice. *)
EXTENDS ServiceCalls

MCHttpCalls == Searches \X (0 .. MaxHits)
MCApiKeys == <<"k1", "k2", "k1">>
=============================================================================
