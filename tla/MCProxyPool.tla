---------------------------- MODULE MCProxyPool ----------------------------
(* The pool with few proxies, requests and loaders, all interchangeable. *)
EXTENDS ProxyPool, TLC

Symmetry ==
  Permutations(Proxy) \union Permutations(Request) \union Permutations(Loader)

(* Without is the library's filter, on every pool of up to four entries. *)
ASSUME WithoutFilters ==
  \A s \in BoundedSeq(Proxy, 4), p \in Proxy : Without(s, p) = Remove(s, p)
=============================================================================
