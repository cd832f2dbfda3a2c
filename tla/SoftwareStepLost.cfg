\* A program with interrupts unmasked.
CONSTANT UserIrqMask = {FALSE}
SPECIFICATION Spec
INVARIANT StepsOne
