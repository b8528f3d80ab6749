----------------------------- MODULE MessageParts -----------------------------
(***************************************************************************)
(* _handle_part() of tonutils/providers/dht/reader.py: messages that come  *)
(* in parts, which the network loses, repeats and reorders.                *)
(***************************************************************************)
EXTENDS Naturals, Sequences

CONSTANTS Messages,  (* by their hash *)
          Lengths,   (* of each message, the lengths of its parts *)
          Ttl,       (* _part_ttl *)
          MaxClock   (* bound: time goes no further *)

ASSUME PartsAssumption ==
  /\ DOMAIN Lengths = Messages /\ Ttl \in Nat /\ MaxClock \in Nat
  /\ \A m \in Messages : Lengths[m] \in Seq(Nat \ {0})

VARIABLES clock,
          parts,      (* _parts: lengths received, by message and part *)
          times,      (* _part_timestamps *)
          reassembled (* what the last part completed, <<>> nothing *)
assembly == <<clock, parts, times, reassembled>>

PartsInit == clock = 0 /\ parts = <<>> /\ times = <<>> /\ reassembled = <<>>

(* What has come of a message's parts up to each; offsets grow with the    *)
(* parts, whose number stands for them.  And total_size.                   *)
UpTo(got) ==
  LET sum[i \in Nat] ==
        IF i = 0 THEN 0 ELSE sum[i - 1] + (IF i \in DOMAIN got THEN got[i] ELSE 0)
  IN sum
Collected(m, got) == UpTo(got)[Len(Lengths[m])]
TotalSize(m) == Collected(m, Lengths[m])

(* _cleanup_stale_parts() *)
Fresh == {m \in DOMAIN parts : clock - times[m] <= Ttl}

(* Mutant of WithPart: a part that comes again is counted again. *)
WithPartAgain(m, i) ==
  LET got == IF m \in Fresh THEN parts[m] ELSE <<>>
  IN [j \in DOMAIN got \cup {i} |->
        IF j = i THEN Lengths[m][i] + (IF i \in DOMAIN got THEN got[i] ELSE 0) ELSE got[j]]
WithPart(m, i) ==
  LET got == IF m \in Fresh THEN parts[m] ELSE <<>>
  IN [j \in DOMAIN got \cup {i} |-> IF j = i THEN Lengths[m][i] ELSE got[j]]

(* A part comes, of a message that may be whole with it. *)
HandlePart(m, i) ==
  LET got == WithPart(m, i)
      whole == Collected(m, got) >= TotalSize(m)
      kept == IF whole THEN Fresh \ {m} ELSE Fresh \cup {m}
  IN /\ parts' = [n \in kept |-> IF n = m THEN got ELSE parts[n]]
     /\ times' = [n \in kept |-> IF n \in Fresh THEN times[n] ELSE clock]
     /\ reassembled' = IF whole THEN <<m, DOMAIN got>> ELSE <<>>
     /\ UNCHANGED clock

PassTime ==
  /\ clock < MaxClock /\ clock' = clock + 1
  /\ UNCHANGED <<parts, times, reassembled>>

PartsNext == PassTime \/ \E m \in Messages : \E i \in DOMAIN Lengths[m] : HandlePart(m, i)

PartsSpec == PartsInit /\ [][PartsNext]_assembly
------------------------------------------------------------------------------
(* A message is put together of all its parts and of nothing twice, in     *)
(* whatever order they come, however often and however late.               *)
PartsReassemble ==
  reassembled # <<>> => reassembled[2] = DOMAIN Lengths[reassembled[1]]
==============================================================================
