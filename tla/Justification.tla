--------------------------- MODULE Justification ---------------------------
(***************************************************************************)
(* Casper FFG bookkeeping inside one beacon state: the operators of        *)
(* specs/phase0/beacon-chain.md that turn the target balances of the       *)
(* current and previous epoch into justified and finalized checkpoints.    *)
(*                                                                         *)
(* A state is any record with the fields justification_bits,               *)
(* previous_justified_checkpoint, current_justified_checkpoint and         *)
(* finalized_checkpoint; the modules that use these operators add their    *)
(* own fields.  Roots are left to those modules.                           *)
(***************************************************************************)
EXTENDS Naturals

GENESIS_EPOCH == 0

(* The four justification bits; bit i is about the epoch i epochs back. *)
BitIndex == 0..3
NoBits == [i \in BitIndex |-> FALSE]

Checkpoint(epoch, root) == [epoch |-> epoch, root |-> root]

get_previous_epoch(epoch) ==
  IF epoch = GENESIS_EPOCH THEN GENESIS_EPOCH ELSE epoch - 1

IsSupermajority(target_balance, total_active_balance) ==
  target_balance * 3 >= total_active_balance * 2

(* Mutant: bit 0 is not cleared after the shift. *)
ShiftBits_NotCleared(bits, justifies_previous, justifies_current) ==
  [i \in BitIndex |->
     CASE i = 0 -> bits[0] \/ justifies_current
       [] i = 1 -> bits[0] \/ justifies_previous
       [] OTHER -> bits[i - 1]]

(* Shift the bits by one epoch, clear the newest, then set what the        *)
(* target balances justify.                                                *)
ShiftBits(bits, justifies_previous, justifies_current) ==
  [i \in BitIndex |->
     CASE i = 0 -> justifies_current
       [] i = 1 -> bits[0] \/ justifies_previous
       [] OTHER -> bits[i - 1]]

(* `old` finalizes when the bits lo..hi are all set and bit hi is old's.   *)
Finalizes(old, bits, epoch, lo, hi) ==
  (\A i \in lo..hi : bits[i]) /\ old.epoch + hi = epoch

(* Mutant: the finalized checkpoint loses its epoch when no rule applies. *)
FinalizedAfter_Reset(s, bits, epoch) ==
  LET old_current == s.current_justified_checkpoint
  IN IF \E hi \in 1..2 : Finalizes(old_current, bits, epoch, 0, hi)
     THEN old_current
     ELSE [s.finalized_checkpoint EXCEPT !.epoch = GENESIS_EPOCH]

(* The four finality rules, the last assignment of the code first. *)
FinalizedAfter(s, bits, epoch) ==
  LET old_previous == s.previous_justified_checkpoint
      old_current == s.current_justified_checkpoint
  IN IF \E hi \in 1..2 : Finalizes(old_current, bits, epoch, 0, hi)
     THEN old_current
     ELSE IF \E hi \in 2..3 : Finalizes(old_previous, bits, epoch, 1, hi)
     THEN old_previous
     ELSE s.finalized_checkpoint

(* Mutant: the previous epoch is justified with the current epoch's root. *)
NewlyJustified_WrongRoot(s, epoch, previous_root, current_root, justifies_previous, justifies_current) ==
  IF justifies_current THEN Checkpoint(epoch, current_root)
  ELSE IF justifies_previous THEN Checkpoint(get_previous_epoch(epoch), current_root)
  ELSE s.current_justified_checkpoint

(* previous_root and current_root are get_block_root of the two epochs. *)
NewlyJustified(s, epoch, previous_root, current_root, justifies_previous, justifies_current) ==
  IF justifies_current THEN Checkpoint(epoch, current_root)
  ELSE IF justifies_previous THEN Checkpoint(get_previous_epoch(epoch), previous_root)
  ELSE s.current_justified_checkpoint

weigh_justification_and_finalization(s, epoch, previous_root, current_root, justifies_previous, justifies_current) ==
  LET bits == ShiftBits(s.justification_bits, justifies_previous, justifies_current)
  IN [s EXCEPT
        !.justification_bits = bits,
        !.previous_justified_checkpoint = s.current_justified_checkpoint,
        !.current_justified_checkpoint =
           NewlyJustified(s, epoch, previous_root, current_root,
                          justifies_previous, justifies_current),
        !.finalized_checkpoint = FinalizedAfter(s, bits, epoch)]

(* Skipped in the first two epochs, which keeps the 0x00 stub checkpoint. *)
process_justification_and_finalization(s, epoch, previous_root, current_root, justifies_previous, justifies_current) ==
  IF epoch <= GENESIS_EPOCH + 1
  THEN s
  ELSE weigh_justification_and_finalization(
         s, epoch, previous_root, current_root, justifies_previous, justifies_current)

=============================================================================
