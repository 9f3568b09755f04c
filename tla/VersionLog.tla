----------------------------- MODULE VersionLog -----------------------------
(***************************************************************************)
(* An API object, as a client with a cache sees it: a non-empty sequence of *)
(* versions.  The first is the one in the cache, the last is the live one   *)
(* of the API server; those after the first are on their way to the cache   *)
(* as watch events, which arrive in order.                                 *)
(***************************************************************************)
EXTENDS Naturals, Sequences

Log(Versions) == Seq(Versions) \ {<<>>}

Cached(log) == Head(log)
Live(log) == log[Len(log)]
Synced(log) == Len(log) = 1
=============================================================================
