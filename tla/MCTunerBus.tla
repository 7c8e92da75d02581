----------------------------- MODULE MCTunerBus -----------------------------
(* TLC instances of TunerBus with the operations of TunerOps. *)
EXTENDS TunerBusInvariant, TunerOps, TLC

CONSTANTS c1, c2

OneCaller == {c1}
TwoCallers == {c1, c2}
CallerSymmetry == Permutations(Callers)

NoFaults == {}
AllFaults == FaultKinds

\* SetIFBandwidth and SetIFHighPass share a register, the LNA's mode bit is
\* set and cleared, and one option is out of range.
OneCallerOps ==
  {SetIFBandwidth(2, 5), SetIFHighPass(7), SetLNAGain(ManualGainStep(3)),
   SetLNAGain([auto |-> TRUE]), SetIFHighPass(16)}

\* What Receiver offers while samples flow.
RuntimeOps == {SetLNAGain(ManualGainStep(9)), SetMixerGain(ManualGainStep(40)),
               SetVGAGain(ManualGainStep(0))}

UsedRegs == {5, 7, 10, 11, 12}
SeedImage == [r \in UsedRegs |->
                BitsOf(CASE r = 5 -> \H83 [] r = 7 -> \H75 [] r = 10 -> \Hd6
                         [] r = 11 -> \H6c [] r = 12 -> \Hf5)]
=============================================================================
