------------------------------ MODULE Readers ------------------------------
(***************************************************************************)
(* A map under sets and unsets, and a client that reads it through a       *)
(* cursor, a chunk cache or a locator.  The client keeps the contract of   *)
(* sm.h: whatever changes the map resets its cursor and its cache and has  *)
(* it drop its locator.  The three do not touch the map or one another, so *)
(* it is enough that the client holds one of them at a time.               *)
(***************************************************************************)
EXTENDS Cursor, ChunkCache, Locator

rvars == << map, cur, asked, cache, loc >>

CursorIdle == cur = NoCursor /\ asked = NoIndex
CacheIdle == cache = EmptyCache
LocatorIdle == loc = NoLocator

ReadersInit == Init /\ CursorInit /\ CacheInit /\ LocatorInit

Change(i) ==
  /\ Set(i) \/ Unset(i)
  /\ ResetCursor
  /\ ClearCache
  /\ DropLocator

ReadWithCursor ==
  /\ CacheIdle /\ LocatorIdle
  /\ \/ \E i \in Indices : LookUp(i)
     \/ \E after \in Indices \cup {NoIndex} : FindNext(after)
  /\ UNCHANGED << cache, loc >>

ReadWithCache ==
  /\ CursorIdle /\ LocatorIdle
  /\ \E i \in Indices : ContainsCached(i)
  /\ UNCHANGED << cur, asked, loc >>

ReadWithLocator ==
  /\ CursorIdle /\ CacheIdle
  /\ BuildLocator
  /\ UNCHANGED << cur, asked, cache >>

ReadersNext ==
  \/ \E i \in Indices : Change(i)
  \/ ReadWithCursor
  \/ ReadWithCache
  \/ ReadWithLocator

ReadersSpec == ReadersInit /\ [][ReadersNext]_rvars
=============================================================================
