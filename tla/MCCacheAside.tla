---------------------------- MODULE MCCacheAside ----------------------------
(* Small instances of CacheAside for TLC, with the pages and the updates of  *)
(* CachedPages.                                                              *)
EXTENDS CacheAside, CachedPages
=============================================================================
