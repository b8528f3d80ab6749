------------------------------ MODULE ShardMath ------------------------------
(***************************************************************************)
(* The shard arithmetic of tonutils/tools/block_scanner/scanner.py: shard  *)
(* ids are signed integers of Width bits (64 in the code) that hold a      *)
(* prefix of account addresses, a 1 after it, and zeros.                   *)
(***************************************************************************)
EXTENDS PowersOfTwo, Integers, Sequences

CONSTANT Width  (* bits of a shard id *)

ASSUME WidthAssumption == Width \in Nat \ {0}

Half == PowerOfTwo[Width - 1]

NoOverflow(x) == x  \* mutant of OverflowI64

(* _overflow_i64() *)
OverflowI64(x) == ((x + Half) % (2 * Half)) - Half

(* _lowbit64(): x & (~x + 1) *)
LowBit(x) == CHOOSE p \in {PowerOfTwo[k] : k \in 0..Width - 1} : x % (2 * p) = p

(* _child_shard() *)
ChildShard(shard, left) ==
  LET step == LowBit(shard) \div 2
  IN OverflowI64(IF left THEN shard - step ELSE shard + step)

(* _parent_shard(): the lowest bit cleared, the next one set. *)
ParentShard(shard) ==
  LET step == LowBit(shard)
      rest == shard - step
  IN OverflowI64(IF (rest \div (2 * step)) % 2 = 1 THEN rest ELSE rest + 2 * step)

(* What the first bits of a prefix, a sequence of bits, stand for.         *)
FirstBits(prefix) ==
  LET bits[n \in 0..Len(prefix)] ==
        IF n = 0 THEN 0 ELSE bits[n - 1] + prefix[n] * PowerOfTwo[Width - n]
  IN bits

(* The id of the shard with a given prefix: what the network means by it.  *)
ShardId(prefix) ==
  LET u == FirstBits(prefix)[Len(prefix)] + PowerOfTwo[Width - 1 - Len(prefix)]
  IN IF u >= Half THEN u - 2 * Half ELSE u
==============================================================================
