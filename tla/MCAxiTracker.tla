---------------------------- MODULE MCAxiTracker ----------------------------
(***************************************************************************)
(* Instance of AxiTracker for TLC.  The two directions share only seq and  *)
(* the sample loop, so a behaviour takes deep traffic of one direction;    *)
(* with the reads a write address may be accepted in the same sample.      *)
(* One expected length is enough, since a burst ends with the beat marked  *)
(* last: bursts of fewer and of more beats than expected occur as well.    *)
(***************************************************************************)
EXTENDS AxiTracker, TLC

VARIABLE traffic  \* the direction whose samples the waveform holds

mcVars == <<vars, traffic>>

Quiet == [reset |-> FALSE, aw |-> Idle, w |-> Idle, b |-> Idle, ar |-> Idle,
          r |-> Idle]
ResetSample == [Quiet EXCEPT !.reset = TRUE]

WriteSamples ==
  {ResetSample} \union
  {[Quiet EXCEPT !.aw = a, !.w = d, !.b = i] :
     a \in AddrBeat \union {Idle, Stall}, d \in DataBeat \union {Idle},
     i \in Ids \union {Idle}}

ReadSamples ==
  {ResetSample} \union
  {[Quiet EXCEPT !.ar = a, !.r = d] :
     a \in AddrBeat \union {Idle, Stall}, d \in ReadBeat \union {Idle, Stall}}

\* Both directions accept an address at once.
BothAddresses == {[Quiet EXCEPT !.aw = a, !.ar = a] : a \in AddrBeat}

SharedSamples == ReadSamples \union BothAddresses
AllSamples == WriteSamples \union SharedSamples

MCInit == Init /\ traffic \in {"writes", "reads"}
MCNext ==
  /\ Next
  /\ UNCHANGED traffic
  /\ cur' # cur => cur' \in IF traffic = "writes" THEN WriteSamples \union {Idle}
                            ELSE SharedSamples \union {Idle}
MCSpec == MCInit /\ [][MCNext]_mcVars

Symmetric == Permutations(Ids)
=============================================================================
