-------------------------------- MODULE Aic --------------------------------
(***************************************************************************)
(* The Apple Interrupt Controller (AIC v3) of the QEMU machine.  Devices   *)
(* drive one line per hardware interrupt; the guest sees one CPU interrupt *)
(* line and asks IACK which interrupt it is.  The controller is edge-like: *)
(* a line that goes up sets a pending bit, IACK hands the lowest pending   *)
(* number over and retires it although the device still holds its line up. *)
(* Masking is not modelled, as in the code.                                *)
(***************************************************************************)
EXTENDS Integers

CONSTANT Hwirqs       \* hardware interrupt numbers that have a device

ASSUME HwirqsAssumption == Hwirqs \subseteq Nat

VARIABLES pending,    \* s->pending, as the set of its bits
          enabled,    \* bit 0 of aicglbcfg
          cpu_irq     \* level of the CPU's interrupt line

aicVars == <<pending, enabled, cpu_irq>>

AicInit == /\ pending = {}
           /\ enabled = FALSE
           /\ cpu_irq = FALSE

\* aic_next_pending: the lowest number wins.
NextPending == CHOOSE n \in pending : \A k \in pending : n <= k

\* Every register or line change ends in aic_update.
AicUpdate(bits, on) == /\ pending' = bits
                       /\ enabled' = on
                       /\ cpu_irq' = (on /\ bits # {})

\* A device drives line n.
AicSetIrq(n, level) ==
  AicUpdate(IF level THEN pending \cup {n} ELSE pending \ {n}, enabled)

\* Mutant of AicIack: retires every pending interrupt, not the one handed over.
AicIackAll == /\ pending # {}
              /\ AicUpdate({}, enabled)

\* The guest reads IACK with something pending; NextPending is what it gets.
AicIack == /\ pending # {}
           /\ AicUpdate(pending \ {NextPending}, enabled)

\* The guest writes the global configuration register.
AicWriteGlbcfg(on) == AicUpdate(pending, on)

AicTypeOK == /\ pending \subseteq Hwirqs
             /\ enabled \in BOOLEAN
             /\ cpu_irq = (enabled /\ pending # {})
=============================================================================
