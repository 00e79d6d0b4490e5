------------------------------ MODULE MCPackages ------------------------------
(* The two things that happen to the archive of a package, one by one: it is
   fetched, again and again, or what an archive holds is staged.  Neither waits for
   the other or reads its state but for the bytes that are handed over, whether they
   are as locked, which both have; so in a behaviour only one of the two goes on. *)
EXTENDS MCArchiveCache, MCStaging

Unfetched == calls = 0 /\ meddles = 0 /\ republished = 0 /\ served = "first"
Unstaged == archives = Usual /\ status = "stage" /\ step = 0

PackagesInit == CacheInit /\ StagingInit /\ (Unfetched \/ Unstaged)

Fetching == Unstaged /\ CacheNext /\ UNCHANGED stagingVars
Unpacking == Unfetched /\ StagingNext /\ UNCHANGED cacheVars

PackagesNext == Fetching \/ Unpacking

PackagesSpec == PackagesInit /\ [][PackagesNext]_<<cacheVars, stagingVars>>

=============================================================================
