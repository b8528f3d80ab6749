----------------------------- MODULE ArchiveDepth -----------------------------
(***************************************************************************)
(* _find_archive_depth() of tonutils/tools/status_monitor/lite/monitor.py: *)
(* how many days back a lite-server has blocks, by a binary search that    *)
(* starts from what the one before it found.                               *)
(***************************************************************************)
EXTENDS Integers

CONSTANT MaxDays     (* bound: the age of the chain *)
ASSUME DepthAssumption == MaxDays \in Nat

VARIABLES age, depth,         (* days of the chain, and of the archive *)
          cached,             (* _archive_cache: none, or <<days>> *)
          searching,
          left, right, best,
          missed, pruned      (* history: a probe of this search failed; the archive
                                 ever lost days *)
archive == <<age, depth, cached, searching, left, right, best, missed, pruned>>

DepthInit ==
  /\ age \in 0..MaxDays /\ depth \in 0..age
  /\ cached = <<>> /\ searching = FALSE
  /\ left = 0 /\ right = 0 /\ best = 0
  /\ missed = FALSE /\ pruned = FALSE

FindArchiveDepth ==
  /\ ~searching
  /\ searching' = TRUE /\ missed' = FALSE
  /\ left' = (IF cached = <<>> THEN 0 ELSE cached[1]) /\ best' = left'
  /\ right' = age
  /\ UNCHANGED <<age, depth, cached, pruned>>

Short(l, r) == l < r  \* mutant of GoesOn
GoesOn(l, r) == l <= r

(* lookup_block() at that time: an error is no block of that day.          *)
Probe ==
  /\ searching /\ GoesOn(left, right)
  /\ LET mid == (left + right) \div 2
     IN \E answered \in BOOLEAN :
          IF answered /\ mid <= depth
          THEN best' = mid /\ left' = mid + 1 /\ UNCHANGED <<right, missed>>
          ELSE /\ right' = mid - 1
               /\ missed' = (missed \/ ~answered)
               /\ UNCHANGED <<left, best>>
  /\ UNCHANGED <<age, depth, cached, searching, pruned>>

DepthFoundOut ==
  /\ searching /\ ~GoesOn(left, right)
  /\ searching' = FALSE /\ cached' = <<best>>
  /\ UNCHANGED <<age, depth, left, right, best, missed, pruned>>

(* Days pass between searches, which begin anew within seconds or, once    *)
(* the server is back, later; the archive begins where it began, until it  *)
(* is pruned.  What is cached is a time, counted in full days.             *)
DayPasses ==
  /\ ~searching /\ age < MaxDays
  /\ age' = age + 1 /\ depth' = depth + 1
  /\ cached' \in {cached} \cup {<<cached[1] + 1>> : i \in DOMAIN cached}
  /\ UNCHANGED <<searching, left, right, best, missed, pruned>>

Prune ==
  /\ depth > 0
  /\ depth' \in 0..depth - 1 /\ pruned' = TRUE
  /\ UNCHANGED <<age, cached, searching, left, right, best, missed>>

DepthNext == FindArchiveDepth \/ Probe \/ DepthFoundOut \/ DayPasses \/ Prune

DepthSpec == DepthInit /\ [][DepthNext]_archive
------------------------------------------------------------------------------
(* A search that ends has found as many days as the archive has if none of *)
(* its probes failed.  With failed probes it has found no more than that,  *)
(* and no less than the search before it: so the next search of which no   *)
(* probe fails makes up for it -- unless the archive is pruned, which what *)
(* is cached never notices.                                                *)
DepthFound ==
  searching /\ ~GoesOn(left, right) /\ ~pruned =>
    /\ best <= depth /\ (~missed => best = depth)
    /\ cached # <<>> => best >= cached[1]
==============================================================================
